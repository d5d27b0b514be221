----------------------- MODULE PathHoppingTrialProofs -----------------------
(***************************************************************************)
(* Proofs about a run of path-hopping trials, for any number of hosts,     *)
(* flows, trials and failing calls. The inductive invariant says, for every*)
(* statement the program can be at, which hosts are in the trial's table,  *)
(* and that a resource that exists belongs to the trial being conducted and*)
(* has its release still ahead, unless it was lost track of. First the     *)
(* steps that create hosts, install flows, start clients and measure, then *)
(* the finally block and the loop of main; then what the invariant implies,*)
(* and that a run implements TrialLifecycle.                               *)
(***************************************************************************)
EXTENDS PathHoppingTrial, TLAPS

Creating == {"address", "install", "undo"}
GoingUp == Running \cup Creating \cup {"topo"}
Destroying == {"uninstall", "remove", "stop"}

(* The loop index is a host in the loops over hosts and a flow in the      *)
(* loop over flows.                                                        *)
IndexOK ==
    /\ pc \in Creating \cup Destroying \cup {"server", "client"} => i \in Hosts
    /\ pc = "route" => i \in FlowIds
    /\ pc \in {"remove", "stop"} => i \in hosts

(* hosts holds exactly the hosts created so far, and nothing is held       *)
(* outside a trial.                                                        *)
HostsSoFar ==
    /\ pc \in {"topo", "done"} => hosts = {} /\ flow_tokens = {}
    /\ pc \in Creating => hosts = {h \in Hosts : h < i}
    /\ pc \in Running => hosts = Hosts

(* A host of the trial has its address until "remove" and its table entry  *)
(* until "uninstall"; a host in creation has its address from "install".   *)
HostsInPlace ==
    /\ \A h \in hosts : \/ pc \in GoingUp
                        \/ pc \in {"uninstall", "remove"} /\ h >= i
                        \/ pc = "stop" /\ h > i
                        => addresses[h] = trial
    /\ \A h \in hosts : pc \in GoingUp => <<trial, h>> \in virtual_hosts
    /\ pc \in {"install", "undo"} => addresses[i] = trial

(* Where host h's release is still ahead: on the way up, or in the loop of *)
(* destroy_all_hosts before h or at one of h's given stages.               *)
Ahead(h, stages) ==
    \/ pc \in GoingUp
    \/ pc \in Destroying /\ h > i
    \/ pc \in stages /\ h = i

(* As long as nothing was lost track of, every resource there is belongs   *)
(* to this trial and will be released by it.                               *)
Accounted ==
    custody = "kept" =>
        /\ \A h \in Hosts : addresses[h] # 0 =>
              /\ addresses[h] = trial
              /\ \/ h \in hosts /\ Ahead(h, {"uninstall", "remove"})
                 \/ pc \in {"install", "undo"} /\ h = i
        /\ \A v \in virtual_hosts : v[1] = trial /\ v[2] \in hosts /\ Ahead(v[2], {"uninstall"})
        /\ \A p \in processes : p[1] = trial /\ p[2] \in hosts /\ Ahead(p[2], Destroying)
        /\ \A r \in routes : r.trial = trial /\ r.flow \in flow_tokens

(* Results and monitors come from the trials conducted so far; the trial   *)
(* on its way up has no results yet, and no monitor when it records them.  *)
MeasuredSoFar ==
    /\ \A t \in results : t <= trial
    /\ \A t \in monitors : t <= trial
    /\ pc \in GoingUp => trial \notin results
    /\ pc = "results" => trial \notin monitors

(* The tags of this trial's routes are below the next tag of their pair.   *)
TagsBelowNext ==
    /\ \A r \in routes : r.trial <= trial
    /\ pc \in Creating \cup {"topo", "server"} => \A r \in routes : r.trial < trial
    /\ pc # "done" => \A r \in routes : r.trial = trial =>
                          \A tag \in r.tags : tag < tag_values[Pair(r.flow)]

Inv ==
    /\ TypeOK
    /\ IndexOK
    /\ HostsSoFar
    /\ HostsInPlace
    /\ Accounted
    /\ MeasuredSoFar
    /\ TagsBelowNext
    /\ LeakStopsLaterTrials
    /\ MeasuredTrialsStopped
    /\ TagsDistinct
-----------------------------------------------------------------------------
(* main starts with nothing acquired.                                      *)
LEMMA InitInv ==
    ASSUME Init
    PROVE  Inv
<1>1. TypeOK
      BY VirtualHostAssumption, TrialAssumption DEF Init, HostInit, TypeOK, HostTypeOK, Trials, Pairs
<1>2. IndexOK /\ HostsSoFar /\ HostsInPlace /\ Accounted
      BY Zenon DEF Init, HostInit, IndexOK, HostsSoFar, HostsInPlace, Accounted, Creating, Destroying,
         Running
<1>3. /\ MeasuredSoFar /\ TagsBelowNext
      /\ LeakStopsLaterTrials /\ MeasuredTrialsStopped /\ TagsDistinct
      BY Zenon DEF Init, HostInit, MeasuredSoFar, TagsBelowNext, LeakStopsLaterTrials,
         MeasuredTrialsStopped, TagsDistinct
<1> QED BY Zenon, <1>1, <1>2, <1>3 DEF Inv

(* A call that raises is counted, and the count stays within MaxFailures.  *)
LEMMA CallCounted ==
    ASSUME failures \in 0 .. MaxFailures, NEW o, Call(o)
    PROVE  failures' \in 0 .. MaxFailures
BY TrialAssumption DEF Call

(* What the invariant says of the failures counted and of custody.         *)
LEMMA FailureTypes ==
    ASSUME Inv
    PROVE  failures \in 0 .. MaxFailures /\ custody \in {"kept", "lost"}
BY Zenon DEF Inv, TypeOK

(* One lemma per statement of the program: each keeps every conjunct.      *)
LEMMA GetTopologyInv ==
    ASSUME Inv, NEW o \in Outcomes, GetTopology(o)
    PROVE  Inv'
<1>1. i' \in 1 .. NumHosts + NumFlows
      BY VirtualHostAssumption, TrialAssumption DEF Inv, GetTopology, raise, goto
<1>2. TypeOK'
      BY <1>1, TrialAssumption DEF Inv, TypeOK, HostTypeOK, GetTopology, Call, raise,
         goto, localVars, worldVars, hostVars
<1>3. (IndexOK /\ HostsSoFar)'
    BY VirtualHostAssumption DEF Inv, IndexOK, Creating, Destroying, Hosts, GetTopology,
       raise, goto, HostsSoFar, Running, localVars
<1>4. HostsInPlace'
      BY Zenon DEF Inv, HostsSoFar, HostsInPlace, GetTopology, raise, goto, localVars
<1>5. Accounted'
      BY Zenon DEF Inv, HostsSoFar, Accounted, Ahead, GetTopology, worldVars, hostVars
<1>6. (MeasuredSoFar /\ MeasuredTrialsStopped)'
      BY Zenon DEF Inv, MeasuredSoFar, MeasuredTrialsStopped, GoingUp, GetTopology, raise, goto,
         worldVars
<1>7. LeakStopsLaterTrials'
      BY Zenon DEF Inv, LeakStopsLaterTrials, GetTopology, worldVars, hostVars
<1>8. (TagsBelowNext /\ TagsDistinct)'
      BY DEF Inv, TypeOK, TagsBelowNext, TagsDistinct, Trials, GetTopology, worldVars
<1> QED BY Zenon, <1>1, <1>2, <1>3, <1>4, <1>5, <1>6, <1>7, <1>8 DEF Inv, TypeOK

(* Adding the address of a virtual host.                                   *)
LEMMA AddAddressInv ==
    ASSUME Inv, NEW o \in Outcomes, AddAddress(o)
    PROVE  Inv'
<1>1. i' \in 1 .. NumHosts + NumFlows
      BY VirtualHostAssumption, TrialAssumption DEF Inv, TypeOK, AddAddress, raise, goto
<1>2. TypeOK'
      BY <1>1, TrialAssumption DEF Inv, TypeOK, HostTypeOK, IndexOK, Creating, Trials,
         AddAddress, _initialize_local_network_interface, Acquire, Call, raise, goto,
         localVars
<1>3. (IndexOK /\ HostsSoFar)'
    BY VirtualHostAssumption DEF Inv, IndexOK, Creating, Destroying, Hosts, AddAddress,
       raise, goto, HostsSoFar, Running, localVars
<1>4. HostsInPlace'
      BY Zenon DEF Inv, TypeOK, HostTypeOK, IndexOK, HostsInPlace, Creating, GoingUp,
         AddAddress, _initialize_local_network_interface, TakesEffect, Raises, raise,
         goto, localVars
<1>5. Accounted'
  <2>1. i \in Hosts /\ pc = "address" /\ UNCHANGED <<trial, hosts, flow_tokens, virtual_hosts,
                                                     processes, routes>>
        BY Zenon DEF Inv, IndexOK, Creating, AddAddress, localVars,
           _initialize_local_network_interface
  <2>2. CASE o = "ok"
      BY Zenon, <2>2, <2>1 DEF AddAddress, _initialize_local_network_interface, Acquire,
         TakesEffect, Raises, Inv, TypeOK, HostTypeOK, Accounted, Ahead, GoingUp, Creating
  <2>3. CASE o = "failed"
    <3>1. pc' = "uninstall" /\ i' = 1 /\ custody' = custody /\ addresses' = addresses
          BY Zenon, <2>3 DEF AddAddress, _initialize_local_network_interface, Acquire, TakesEffect,
             Raises, raise, goto
    <3>2. \A h \in Hosts : h > 1 \/ h = 1
          BY DEF Hosts
    <3> QED BY Zenon, <2>1, <3>1, <3>2 DEF Inv, TypeOK, Accounted, Ahead, Destroying
  <2>4. CASE o = "lost"
      BY Zenon, <2>4 DEF AddAddress, _initialize_local_network_interface, Acquire, Accounted
  <2> QED BY Zenon, <2>2, <2>3, <2>4 DEF Outcomes
<1>6. (MeasuredSoFar /\ MeasuredTrialsStopped)'
      BY Zenon DEF Inv, MeasuredSoFar, MeasuredTrialsStopped, Creating, GoingUp, AddAddress,
         raise, goto
<1>7. LeakStopsLaterTrials'
      BY DEF Inv, HostsInPlace, MeasuredSoFar, LeakStopsLaterTrials, AddAddress,
         _initialize_local_network_interface
<1>8. (TagsBelowNext /\ TagsDistinct)'
      BY DEF Inv, TypeOK, TagsBelowNext, TagsDistinct, Creating, Trials, AddAddress
<1> QED BY Zenon, <1>1, <1>2, <1>3, <1>4, <1>5, <1>6, <1>7, <1>8 DEF Inv, TypeOK

(* Installing the virtual host at the controller.                          *)
LEMMA CreateVirtualHostInv ==
    ASSUME Inv, NEW o \in Outcomes, CreateVirtualHost(o)
    PROVE  Inv'
<1>1. i' \in 1 .. NumHosts + NumFlows
      BY VirtualHostAssumption, TrialAssumption DEF Inv, TypeOK, CreateVirtualHost, goto
<1>2. TypeOK'
      BY <1>1, TrialAssumption DEF Inv, TypeOK, HostTypeOK, IndexOK, Running, Creating,
         CreateVirtualHost, _install_virtual_host, Acquire, Call, goto
<1>3. (IndexOK /\ HostsSoFar)'
  <2>1. IndexOK'
        BY VirtualHostAssumption DEF Inv, IndexOK, Creating, Destroying, Hosts,
           CreateVirtualHost, goto
  <2>2. i \in Hosts /\ hosts = {h \in Hosts : h < i}
        BY Zenon DEF Inv, IndexOK, HostsSoFar, Creating, CreateVirtualHost
  <2>3. hosts \cup {i} = {h \in Hosts : h < i + 1}
        BY <2>2 DEF Hosts
  <2>4. ~(i < NumHosts) => hosts \cup {i} = Hosts
        BY <2>2, VirtualHostAssumption DEF Hosts
  <2>5. \/ pc' = "undo" /\ i' = i /\ hosts' = hosts
        \/ pc' = "address" /\ i' = i + 1 /\ hosts' = hosts \cup {i}
        \/ pc' = "server" /\ ~(i < NumHosts) /\ hosts' = hosts \cup {i}
        BY Zenon DEF CreateVirtualHost, goto
  <2>6. HostsSoFar'
        BY Zenon, <2>2, <2>3, <2>4, <2>5 DEF HostsSoFar, Creating, Running
  <2> QED BY Zenon, <2>1, <2>6
<1>4. HostsInPlace'
      BY Zenon DEF Inv, HostsInPlace, Creating, GoingUp, CreateVirtualHost,
         _install_virtual_host, TakesEffect, Raises, goto
<1>5. Accounted'
    BY DEF Inv, IndexOK, HostsInPlace, Creating, CreateVirtualHost, _install_virtual_host,
       Acquire, TakesEffect, Raises, goto, Accounted, Ahead, GoingUp, Running, Outcomes
<1>6. (MeasuredSoFar /\ MeasuredTrialsStopped)'
      BY Zenon DEF Inv, MeasuredSoFar, MeasuredTrialsStopped, Creating, GoingUp,
         CreateVirtualHost, goto
<1>7. LeakStopsLaterTrials'
      BY Zenon DEF Inv, LeakStopsLaterTrials, CreateVirtualHost, _install_virtual_host
<1>8. (TagsBelowNext /\ TagsDistinct)'
      BY Zenon DEF Inv, TagsBelowNext, TagsDistinct, Creating, CreateVirtualHost
<1> QED BY Zenon, <1>1, <1>2, <1>3, <1>4, <1>5, <1>6, <1>7, <1>8 DEF Inv, TypeOK

(* The undo of a half-created virtual host.                                *)
LEMMA UndoAddressInv ==
    ASSUME Inv, NEW o \in Outcomes, UndoAddress(o)
    PROVE  Inv'
<1>1. HostTypeOK'
      BY VirtualHostAssumption DEF Inv, TypeOK, HostTypeOK, IndexOK, Creating,
         UndoAddress, _remove_local_network_interface
<1>2. trial' \in Trials /\ failures' \in 0 .. MaxFailures /\ custody' \in {"kept", "lost"}
      BY TrialAssumption DEF Inv, TypeOK, UndoAddress, Release, Call
<1>3. pc' \in Running \cup {"topo", "address", "install", "undo", "uninstall", "remove", "stop",
                             "routes", "done"}
      BY Zenon DEF Inv, UndoAddress, raise, goto
<1>4. i' \in 1 .. NumHosts + NumFlows
      BY VirtualHostAssumption, TrialAssumption DEF Inv, UndoAddress, raise, goto
<1>5. /\ hosts' \subseteq Hosts /\ configured' \subseteq Hosts
       /\ flow_tokens' \subseteq FlowIds /\ tag_values' \in [Pairs -> Nat]
      BY Zenon DEF Inv, TypeOK, UndoAddress, localVars
<1>6. /\ monitors' \subseteq Trials /\ results' \subseteq Trials
       /\ \A r \in routes' : r.trial \in Trials /\ r.flow \in FlowIds /\ r.tags \subseteq Nat
      BY Zenon DEF Inv, TypeOK, UndoAddress
<1>7. (IndexOK /\ HostsSoFar)'
      BY VirtualHostAssumption DEF Inv, IndexOK, HostsSoFar, Running, Creating, Hosts,
         UndoAddress, raise, goto
<1>8. HostsInPlace'
      BY DEF Inv, HostsSoFar, HostsInPlace, Creating, GoingUp, Hosts, UndoAddress,
         _remove_local_network_interface, raise, goto, localVars
<1>9. Accounted'
      BY DEF Inv, TypeOK, HostTypeOK, Accounted, Ahead, Destroying, Hosts, UndoAddress,
         _remove_local_network_interface, Release, TakesEffect, Raises, raise, goto,
         localVars
<1>10. (MeasuredSoFar /\ MeasuredTrialsStopped)'
      BY Zenon DEF Inv, MeasuredSoFar, MeasuredTrialsStopped, Creating, GoingUp, UndoAddress,
         raise, goto
<1>11. LeakStopsLaterTrials'
      BY DEF Inv, LeakStopsLaterTrials, UndoAddress, _remove_local_network_interface
<1>12. (TagsBelowNext /\ TagsDistinct)'
      BY DEF Inv, TypeOK, TagsBelowNext, TagsDistinct, Creating, Trials, UndoAddress
<1> QED BY Zenon, <1>1, <1>2, <1>3, <1>4, <1>5, <1>6, <1>7, <1>8, <1>9, <1>10, <1>11, <1>12 DEF Inv, TypeOK

(* Starting the traffic server on a host.                                  *)
LEMMA StartServerInv ==
    ASSUME Inv, NEW o \in Outcomes, StartServer(o)
    PROVE  Inv'
<1>1. i' \in 1 .. NumHosts + NumFlows
      BY VirtualHostAssumption, TrialAssumption DEF Inv, TypeOK, StartServer, raise, goto,
         advance
<1>2. TypeOK'
      BY <1>1, TrialAssumption DEF Inv, TypeOK, HostTypeOK, IndexOK, Running, StartServer,
         start_traffic_generation, Call, raise, goto, advance, localVars
<1>3. (IndexOK /\ HostsSoFar)'
      BY VirtualHostAssumption, TrialAssumption DEF Inv, IndexOK, HostsSoFar, Running,
         Creating, Hosts, FlowIds, StartServer, raise, goto, advance, localVars
<1>4. HostsInPlace'
      BY Zenon DEF Inv, HostsInPlace, Running, GoingUp, StartServer, start_traffic_generation,
         raise, goto, advance, localVars
<1>5. Accounted'
      BY DEF Inv, IndexOK, HostsSoFar, Accounted, Ahead, Running, Destroying, GoingUp,
         Hosts, StartServer, start_traffic_generation, raise, goto, advance, localVars
<1>6. (MeasuredSoFar /\ MeasuredTrialsStopped)'
      BY Zenon DEF Inv, MeasuredSoFar, MeasuredTrialsStopped, Running, GoingUp, StartServer,
         raise, goto, advance
<1>7. LeakStopsLaterTrials'
      BY Zenon DEF Inv, LeakStopsLaterTrials, StartServer, start_traffic_generation
<1>8. (TagsBelowNext /\ TagsDistinct)'
      BY DEF Inv, TypeOK, TagsBelowNext, TagsDistinct, Trials, StartServer
<1> QED BY Zenon, <1>1, <1>2, <1>3, <1>4, <1>5, <1>6, <1>7, <1>8 DEF Inv, TypeOK

-----------------------------------------------------------------------------
(* Installing the flows and measuring.                                     *)
(* Installing the routes of a flow, each with the next tag.                *)
LEMMA InstallFlowInv ==
    ASSUME Inv, NEW o \in Outcomes, InstallFlow(o)
    PROVE  Inv'
<1>1. i' \in 1 .. NumHosts + NumFlows
    BY VirtualHostAssumption, TrialAssumption DEF Inv, IndexOK, InstallFlow, raise, goto,
       advance, FlowIds
<1>2. TypeOK'
  <2>1. failures' \in 0 .. MaxFailures /\ custody' \in {"kept", "lost"}
        BY Zenon, FailureTypes, CallCounted DEF InstallFlow, Acquire
  <2>2. /\ UNCHANGED <<trial, hosts, addresses, virtual_hosts, processes, monitors, results>>
        /\ pc' \in Running \cup {"uninstall"}
        BY Zenon DEF InstallFlow, hostVars, raise, goto, advance, Running
  <2>3. /\ i \in FlowIds /\ trial \in Trials
        /\ Flows[i].source \in Hosts /\ Flows[i].paths \in Nat \ {0} /\ Pair(i) \in Pairs
        BY Zenon, TrialAssumption DEF Inv, TypeOK, IndexOK, InstallFlow, Pair, Pairs
  <2>4. tag_values[Pair(i)] \in Nat /\ tag_values' \in [Pairs -> Nat]
      BY <2>3 DEF Inv, TypeOK, InstallFlow
  <2>5. flow_tokens' \subseteq FlowIds /\ configured' \subseteq Hosts
      BY Zenon, <2>3 DEF Inv, TypeOK, InstallFlow
  <2>6. \A r \in routes' : r.trial \in Trials /\ r.flow \in FlowIds /\ r.tags \subseteq Nat
    <3> DEFINE next_tag == tag_values[Pair(i)] + Flows[i].paths
               new == [trial |-> trial, flow |-> i, tags |-> tag_values[Pair(i)] .. next_tag - 1]
    <3>1. \A r \in routes' : r \in routes \/ r = new
          BY Zenon DEF InstallFlow
    <3>2. new.trial \in Trials /\ new.flow \in FlowIds /\ new.tags \subseteq Nat
          BY <2>3, <2>4
    <3> QED BY Zenon, <3>1, <3>2 DEF Inv, TypeOK
  <2> QED BY Zenon, <1>1, <2>1, <2>2, <2>4, <2>5, <2>6 DEF Inv, TypeOK, HostTypeOK
<1>3. (IndexOK /\ HostsSoFar)'
  <2>1. pc = "route" /\ i \in FlowIds /\ hosts = Hosts /\ hosts' = hosts
        BY Zenon DEF Inv, IndexOK, HostsSoFar, Running, InstallFlow
  <2>2. \/ pc' \in {"uninstall", "monitor"} /\ i' = 1
        \/ pc' = "route" /\ i < NumFlows /\ i' = i + 1
        BY Zenon, <2>1 DEF InstallFlow, raise, goto, advance
  <2>3. i + 1 \in FlowIds \/ ~(i < NumFlows)
        BY <2>1, TrialAssumption DEF FlowIds
  <2>4. 1 \in Hosts
        BY VirtualHostAssumption DEF Hosts
  <2> QED BY Zenon, <2>1, <2>2, <2>3, <2>4
          DEF IndexOK, HostsSoFar, Creating, Destroying, Running
<1>4. HostsInPlace'
      BY Zenon DEF Inv, HostsInPlace, Running, GoingUp, InstallFlow, raise, goto, advance,
         hostVars
<1>5. Accounted'
  <2>1. pc = "route" /\ UNCHANGED <<trial, hosts, addresses, virtual_hosts, processes>>
        BY Zenon DEF InstallFlow, hostVars
  <2>5. \A h \in Hosts : h > 1 \/ h = 1
        BY DEF Hosts
  <2>2. CASE o = "ok"
      BY <2>1, <2>2 DEF InstallFlow, Acquire, Raises, advance, goto, Inv, Accounted, Ahead,
         GoingUp, Running
  <2>3. CASE o = "failed"
      BY <2>3, <2>1, <2>5 DEF InstallFlow, Acquire, TakesEffect, Raises, raise, goto, Inv,
         TypeOK, GoingUp, Running, Creating, Accounted, Ahead, Destroying
  <2>4. CASE o = "lost"
      BY Zenon, <2>4 DEF InstallFlow, Acquire, Accounted
  <2> QED BY Zenon, <2>2, <2>3, <2>4 DEF Outcomes
<1>6. (MeasuredSoFar /\ MeasuredTrialsStopped)'
      BY Zenon DEF Inv, MeasuredSoFar, MeasuredTrialsStopped, Running, GoingUp, InstallFlow,
         raise, goto, advance
<1>7. LeakStopsLaterTrials'
      BY Zenon DEF Inv, LeakStopsLaterTrials, InstallFlow, hostVars
<1>8. (TagsBelowNext /\ TagsDistinct)'
  <2> DEFINE tag == tag_values[Pair(i)]
             next_tag == tag + Flows[i].paths
             new == [trial |-> trial, flow |-> i, tags |-> tag .. next_tag - 1]
  <2>1. /\ pc = "route" /\ i \in FlowIds /\ trial' = trial /\ pc' # "done"
        /\ pc' \notin Creating \cup {"topo", "server"}
        BY Zenon DEF Inv, IndexOK, InstallFlow, raise, goto, advance, Creating
  <2>2. /\ \A k \in FlowIds : Pair(k) \in Pairs
        /\ Flows[i].paths \in Nat \ {0} /\ tag \in Nat /\ next_tag \in Nat
        BY <2>1, TrialAssumption DEF Inv, TypeOK, Pairs, Pair
  <2>3. /\ tag_values' = [tag_values EXCEPT ![Pair(i)] = next_tag]
        /\ routes' \subseteq routes \cup {new}
        BY Zenon DEF InstallFlow
  <2>4. \A p \in Pairs : tag_values[p] \in Nat /\ tag_values'[p] \in Nat
                         /\ tag_values[p] <= tag_values'[p]
        BY <2>2, <2>3 DEF Inv, TypeOK
  <2>5. tag_values'[Pair(i)] = next_tag
        BY Zenon, <2>1, <2>2, <2>3 DEF Inv, TypeOK
  <2>6. \A r \in routes : r.flow \in FlowIds /\ r.tags \subseteq Nat /\ r.trial \in Trials
        BY Zenon DEF Inv, TypeOK
  <2>7. \A r \in routes : r.trial <= trial
                       /\ (r.trial = trial => \A g \in r.tags : g < tag_values[Pair(r.flow)])
        BY Zenon, <2>1 DEF Inv, TagsBelowNext
  <2>8. /\ new.trial = trial /\ new.flow = i
        /\ \A g \in new.tags : g \in Nat /\ g < next_tag /\ g >= tag
        BY <2>2
  <2>9. TagsBelowNext'
    <3>1. ASSUME NEW r \in routes', r.trial = trial, NEW g \in r.tags
          PROVE  g < tag_values'[Pair(r.flow)]
        BY SMTT(30), <2>2, <2>6, <2>7, <3>1, <2>4, <2>5, <2>8, <2>3
    <3>2. \A r \in routes' : r.trial <= trial
          BY <2>1, <2>3, <2>7, <2>8 DEF Inv, TypeOK, Trials
    <3> QED BY Zenon, <2>1, <3>1, <3>2 DEF TagsBelowNext, Pair
  <2>10. ASSUME NEW r \in routes, r.trial = trial, Pair(r.flow) = Pair(i)
         PROVE  r.tags \cap new.tags = {}
         BY <2>2, <2>6, <2>7, <2>8, <2>10
  <2>11. TagsDistinct'
      BY ZenonT(30), <2>8, <2>10, <2>3 DEF Inv, TagsDistinct, Pair
  <2> QED BY Zenon, <2>9, <2>11
<1> QED BY Zenon, <1>1, <1>2, <1>3, <1>4, <1>5, <1>6, <1>7, <1>8 DEF Inv, TypeOK

(* Starting the controller's monitor.                                      *)
LEMMA StartMonitorInv ==
    ASSUME Inv, NEW o \in Outcomes, start_monitor(o)
    PROVE  Inv'
<1>1. i' \in 1 .. NumHosts + NumFlows
      BY VirtualHostAssumption, TrialAssumption DEF Inv, start_monitor, raise, goto
<1>2. TypeOK'
    BY Zenon, FailureTypes, CallCounted, <1>1 DEF start_monitor, localVars, hostVars, raise, goto,
       Inv, TypeOK, HostTypeOK, Running
<1>3. (IndexOK /\ HostsSoFar)'
      BY VirtualHostAssumption DEF Inv, IndexOK, HostsSoFar, Running, Creating, Hosts,
         start_monitor, raise, goto, localVars
<1>4. HostsInPlace'
      BY Zenon DEF Inv, HostsInPlace, Running, GoingUp, start_monitor, raise, goto, localVars,
         hostVars
<1>5. Accounted'
  <2>1. UNCHANGED <<trial, hosts, flow_tokens, addresses, virtual_hosts, processes, routes,
                    custody>>
        BY Zenon DEF start_monitor, localVars, hostVars
  <2>2. pc \in GoingUp /\ pc \notin Creating
        BY Zenon DEF start_monitor, GoingUp, Running, Creating
  <2>3. \A h \in Hosts : h > 1 \/ h = 1
        BY DEF Hosts
  <2>4. pc' = "client" \/ (pc' = "uninstall" /\ i' = 1)
        BY Zenon DEF start_monitor, raise, goto
  <2>5. hosts \subseteq Hosts
        BY Zenon DEF Inv, TypeOK
  <2>6. \A h \in Hosts, S \in SUBSET Destroying : "uninstall" \in S => Ahead(h, S)'
        BY Zenon, <2>3, <2>4 DEF Ahead, GoingUp, Running, Destroying
  <2> QED BY <2>1, <2>2, <2>5, <2>6 DEF Inv, Accounted, Creating, Destroying
<1>6. (MeasuredSoFar /\ MeasuredTrialsStopped)'
      BY DEF Inv, TypeOK, MeasuredSoFar, MeasuredTrialsStopped, Running, GoingUp, Trials,
         start_monitor, raise, goto
<1>7. LeakStopsLaterTrials'
      BY Zenon DEF Inv, LeakStopsLaterTrials, start_monitor, hostVars
<1>8. (TagsBelowNext /\ TagsDistinct)'
      BY Zenon DEF Inv, TagsBelowNext, TagsDistinct, Creating, start_monitor, raise, goto,
         localVars
<1> QED BY Zenon, <1>1, <1>2, <1>3, <1>4, <1>5, <1>6, <1>7, <1>8 DEF Inv, TypeOK

(* Starting the traffic generator on a host.                               *)
LEMMA StartClientInv ==
    ASSUME Inv, NEW o \in Outcomes, StartClient(o)
    PROVE  Inv'
<1>1. i' \in 1 .. NumHosts + NumFlows
      BY VirtualHostAssumption, TrialAssumption DEF Inv, TypeOK, StartClient, raise, goto,
         advance
<1>2. TypeOK'
      BY <1>1, TrialAssumption DEF Inv, TypeOK, HostTypeOK, Running, StartClient,
         start_traffic_generation, Call, raise, goto, advance, localVars, hostVars
<1>3. (IndexOK /\ HostsSoFar)'
      BY VirtualHostAssumption DEF Inv, IndexOK, HostsSoFar, Running, Creating, Hosts,
         StartClient, raise, goto, advance, localVars
<1>4. HostsInPlace'
      BY Zenon DEF Inv, HostsInPlace, Running, GoingUp, StartClient, start_traffic_generation,
         raise, goto, advance, localVars, hostVars
<1>5. Accounted'
      BY DEF Inv, TypeOK, HostsSoFar, Accounted, Ahead, Running, Destroying, GoingUp,
         Hosts, StartClient, start_traffic_generation, raise, goto, advance, localVars,
         hostVars
<1>6. (MeasuredSoFar /\ MeasuredTrialsStopped)'
      BY Zenon DEF Inv, MeasuredSoFar, MeasuredTrialsStopped, Running, GoingUp, StartClient,
         raise, goto, advance
<1>7. LeakStopsLaterTrials'
      BY Zenon DEF Inv, LeakStopsLaterTrials, StartClient, start_traffic_generation, hostVars
<1>8. (TagsBelowNext /\ TagsDistinct)'
      BY Zenon DEF Inv, TagsBelowNext, TagsDistinct, Creating, StartClient, raise, goto,
         advance, localVars
<1> QED BY Zenon, <1>1, <1>2, <1>3, <1>4, <1>5, <1>6, <1>7, <1>8 DEF Inv, TypeOK

(* Stopping the monitor.                                                   *)
LEMMA StopMonitorInv ==
    ASSUME Inv, NEW o \in Outcomes, stop_monitor(o)
    PROVE  Inv'
<1>1. i' \in 1 .. NumHosts + NumFlows
      BY VirtualHostAssumption, TrialAssumption DEF Inv, stop_monitor, raise, goto
<1>2. TypeOK'
      BY <1>1, TrialAssumption DEF Inv, TypeOK, HostTypeOK, Running, stop_monitor, Call,
         raise, goto, localVars, hostVars
<1>3. (IndexOK /\ HostsSoFar)'
      BY VirtualHostAssumption DEF Inv, IndexOK, HostsSoFar, Running, Creating, Hosts,
         stop_monitor, raise, goto, localVars
<1>4. HostsInPlace'
      BY Zenon DEF Inv, HostsInPlace, Running, GoingUp, stop_monitor, raise, goto, localVars,
         hostVars
<1>5. Accounted'
  <2>1. UNCHANGED <<trial, hosts, flow_tokens, addresses, virtual_hosts, processes, routes,
                    custody>>
        BY Zenon DEF stop_monitor, localVars, hostVars
  <2>2. pc \in GoingUp /\ pc \notin Creating
        BY Zenon DEF stop_monitor, GoingUp, Running, Creating
  <2>3. \A h \in Hosts : h > 1 \/ h = 1
        BY DEF Hosts
  <2>4. pc' = "results" \/ (pc' = "uninstall" /\ i' = 1)
        BY Zenon DEF stop_monitor, raise, goto
  <2>5. hosts \subseteq Hosts
        BY Zenon DEF Inv, TypeOK
  <2>6. \A h \in Hosts, S \in SUBSET Destroying : "uninstall" \in S => Ahead(h, S)'
        BY Zenon, <2>3, <2>4 DEF Ahead, GoingUp, Running, Destroying
  <2> QED BY Zenon, <2>1, <2>2, <2>5, <2>6 DEF Inv, Accounted, Creating, Destroying
<1>6. (MeasuredSoFar /\ MeasuredTrialsStopped)'
      BY Zenon DEF Inv, MeasuredSoFar, MeasuredTrialsStopped, Running, GoingUp, stop_monitor,
         TakesEffect, Raises, raise, goto
<1>7. LeakStopsLaterTrials'
      BY Zenon DEF Inv, LeakStopsLaterTrials, stop_monitor, hostVars
<1>8. (TagsBelowNext /\ TagsDistinct)'
      BY Zenon DEF Inv, TagsBelowNext, TagsDistinct, Creating, stop_monitor, raise, goto,
         localVars
<1> QED BY Zenon, <1>1, <1>2, <1>3, <1>4, <1>5, <1>6, <1>7, <1>8 DEF Inv, TypeOK

(* Adding the trial to the results.                                        *)
LEMMA AddResultsInv ==
    ASSUME Inv, NEW o \in Outcomes, AddResults(o)
    PROVE  Inv'
<1>1. i' \in 1 .. NumHosts + NumFlows
      BY VirtualHostAssumption, TrialAssumption DEF Inv, AddResults, goto
<1>2. TypeOK'
      BY <1>1, TrialAssumption DEF Inv, TypeOK, HostTypeOK, AddResults, Call, goto,
         localVars, worldVars, hostVars
<1>3. (IndexOK /\ HostsSoFar)'
      BY VirtualHostAssumption DEF Inv, IndexOK, HostsSoFar, Running, Creating, Hosts,
         AddResults, goto
<1>4. HostsInPlace'
      BY Zenon DEF Inv, HostsInPlace, Running, GoingUp, AddResults, goto, localVars, worldVars,
         hostVars
<1>5. Accounted'
      BY DEF Inv, TypeOK, HostTypeOK, Accounted, Ahead, Destroying, Hosts, AddResults,
         goto, localVars, worldVars, hostVars
<1>6. (MeasuredSoFar /\ MeasuredTrialsStopped)'
  <2>1. /\ pc = "results" /\ pc' = "uninstall" /\ UNCHANGED <<trial, monitors>>
        /\ results' \subseteq results \cup {trial}
      BY Zenon DEF AddResults, goto, worldVars
  <2>2. /\ trial <= trial /\ \A t \in results : t <= trial
        /\ \A t \in monitors : t <= trial
        /\ trial \notin monitors /\ monitors \cap results = {}
      BY <2>1 DEF Inv, TypeOK, Trials, MeasuredSoFar, MeasuredTrialsStopped
  <2> QED
      BY Zenon, <2>1, <2>2 DEF MeasuredSoFar, MeasuredTrialsStopped, GoingUp, Running, Creating
<1>7. LeakStopsLaterTrials'
      BY DEF Inv, TypeOK, HostTypeOK, HostsSoFar, HostsInPlace, MeasuredSoFar,
         LeakStopsLaterTrials, GoingUp, AddResults, worldVars, hostVars
<1>8. (TagsBelowNext /\ TagsDistinct)'
      BY Zenon DEF Inv, TagsBelowNext, TagsDistinct, Creating, AddResults, goto, localVars,
         worldVars
<1> QED BY Zenon, <1>1, <1>2, <1>3, <1>4, <1>5, <1>6, <1>7, <1>8 DEF Inv, TypeOK

(* destroy_virtual_host: uninstalling the virtual host.                    *)
LEMMA UninstallHostInv ==
    ASSUME Inv, NEW o \in Outcomes, UninstallHost(o)
    PROVE  Inv'
<1>1. i' \in 1 .. NumHosts + NumFlows
      BY VirtualHostAssumption, TrialAssumption DEF Inv, TypeOK, UninstallHost, nextHost,
         goto
<1>2. TypeOK'
    BY Zenon, FailureTypes, CallCounted, <1>1 DEF UninstallHost, Release, nextHost, goto,
       localVars, Inv, TypeOK, HostTypeOK, _uninstall_virtual_host
<1>3. (IndexOK /\ HostsSoFar)'
      BY VirtualHostAssumption DEF Inv, IndexOK, HostsSoFar, Running, Creating,
         Destroying, Hosts, UninstallHost, nextHost, goto, localVars
<1>4. HostsInPlace'
    BY DEF Inv, TypeOK, Hosts, UninstallHost, _uninstall_virtual_host, localVars,
       HostsInPlace, nextHost, goto, GoingUp, Running, Creating
<1>5. Accounted'
  <2>1. /\ pc = "uninstall" /\ i \in Int /\ hosts \subseteq Int
        /\ virtual_hosts \subseteq Trials \X Hosts
        /\ UNCHANGED <<trial, hosts, flow_tokens, addresses, processes, routes>>
        BY DEF Inv, TypeOK, HostTypeOK, Hosts, UninstallHost, _uninstall_virtual_host, localVars
  <2>2. custody' = "kept" =>
           /\ custody = "kept" /\ pc' = "remove" /\ i' = i
           /\ virtual_hosts' = virtual_hosts \ {<<trial, i>>}
        BY Zenon DEF UninstallHost, _uninstall_virtual_host, Release, TakesEffect, Raises
  <2>3. custody = "kept" => \A v \in virtual_hosts \ {<<trial, i>>} : v[1] = trial /\ v[2] > i
        BY <2>1 DEF Inv, Accounted, Ahead, GoingUp, Running, Creating, Destroying
  <2> QED BY <2>1, <2>2, <2>3 DEF Inv, Accounted, Ahead, GoingUp, Running, Creating, Destroying
<1>6. (MeasuredSoFar /\ MeasuredTrialsStopped)'
      BY Zenon DEF Inv, MeasuredSoFar, MeasuredTrialsStopped, Running, Creating, GoingUp,
         UninstallHost, nextHost, goto
<1>7. LeakStopsLaterTrials'
      BY Zenon DEF Inv, LeakStopsLaterTrials, UninstallHost, _uninstall_virtual_host
<1>8. (TagsBelowNext /\ TagsDistinct)'
      BY Zenon DEF Inv, TagsBelowNext, TagsDistinct, Creating, UninstallHost, nextHost, goto,
         localVars
<1> QED BY Zenon, <1>1, <1>2, <1>3, <1>4, <1>5, <1>6, <1>7, <1>8 DEF Inv, TypeOK

(* destroy_virtual_host: removing the address.                             *)
LEMMA RemoveAddressInv ==
    ASSUME Inv, NEW o \in Outcomes, RemoveAddress(o)
    PROVE  Inv'
<1>1. HostTypeOK'
      BY VirtualHostAssumption DEF Inv, TypeOK, HostTypeOK, IndexOK, RemoveAddress,
         _remove_local_network_interface
<1>2. trial' \in Trials /\ failures' \in 0 .. MaxFailures /\ custody' \in {"kept", "lost"}
    BY Zenon, FailureTypes, CallCounted DEF Inv, TypeOK, RemoveAddress, Release
<1>3. pc' \in Running \cup {"topo", "address", "install", "undo", "uninstall", "remove", "stop",
                             "routes", "done"}
      BY Zenon DEF Inv, RemoveAddress, nextHost, goto
<1>4. i' \in 1 .. NumHosts + NumFlows
      BY VirtualHostAssumption, TrialAssumption DEF Inv, TypeOK, RemoveAddress, nextHost,
         goto
<1>5. /\ hosts' \subseteq Hosts /\ configured' \subseteq Hosts
       /\ flow_tokens' \subseteq FlowIds /\ tag_values' \in [Pairs -> Nat]
      BY Zenon DEF Inv, TypeOK, RemoveAddress, localVars
<1>6. /\ monitors' \subseteq Trials /\ results' \subseteq Trials
       /\ \A r \in routes' : r.trial \in Trials /\ r.flow \in FlowIds /\ r.tags \subseteq Nat
      BY Zenon DEF Inv, TypeOK, RemoveAddress
<1>7. (IndexOK /\ HostsSoFar)'
      BY VirtualHostAssumption DEF Inv, IndexOK, HostsSoFar, Running, Creating,
         Destroying, Hosts, RemoveAddress, nextHost, goto, localVars
<1>8. HostsInPlace'
      BY DEF Inv, TypeOK, HostsInPlace, Running, Creating, GoingUp, Hosts, RemoveAddress,
         _remove_local_network_interface, nextHost, goto, localVars
<1>9. Accounted'
      BY DEF Inv, TypeOK, HostTypeOK, Accounted, Ahead, Running, Creating, Destroying,
         GoingUp, RemoveAddress, _remove_local_network_interface, Release, TakesEffect,
         Raises, localVars
<1>10. (MeasuredSoFar /\ MeasuredTrialsStopped)'
      BY Zenon DEF Inv, MeasuredSoFar, MeasuredTrialsStopped, Running, Creating, GoingUp,
         RemoveAddress, nextHost, goto
<1>11. LeakStopsLaterTrials'
      BY DEF Inv, LeakStopsLaterTrials, RemoveAddress, _remove_local_network_interface
<1>12. (TagsBelowNext /\ TagsDistinct)'
      BY Zenon DEF Inv, TagsBelowNext, TagsDistinct, Creating, RemoveAddress, nextHost, goto,
         localVars
<1> QED BY Zenon, <1>1, <1>2, <1>3, <1>4, <1>5, <1>6, <1>7, <1>8, <1>9, <1>10, <1>11, <1>12 DEF Inv, TypeOK

(* Removing an installed flow.                                             *)
LEMMA RemoveFlowInv ==
    ASSUME Inv, NEW o \in Outcomes, NEW k \in FlowIds, RemoveFlow(k, o)
    PROVE  Inv'
<1>1. i' \in 1 .. NumHosts + NumFlows
      BY Zenon DEF Inv, TypeOK, RemoveFlow
<1>2. TypeOK'
    BY Zenon, FailureTypes, CallCounted, <1>1 DEF RemoveFlow, Release, hostVars, Inv, TypeOK,
       HostTypeOK
<1>3. (IndexOK /\ HostsSoFar)'
      BY Zenon DEF Inv, IndexOK, HostsSoFar, RemoveFlow
<1>4. HostsInPlace'
      BY Zenon DEF Inv, HostsInPlace, Running, Creating, GoingUp, RemoveFlow
<1>5. Accounted'
      BY Zenon DEF Inv, Accounted, Ahead, RemoveFlow, Release, TakesEffect, Raises, hostVars
<1>6. (MeasuredSoFar /\ MeasuredTrialsStopped)'
      BY Zenon DEF Inv, MeasuredSoFar, MeasuredTrialsStopped, RemoveFlow
<1>7. LeakStopsLaterTrials'
      BY Zenon DEF Inv, LeakStopsLaterTrials, RemoveFlow, hostVars
<1>8. (TagsBelowNext /\ TagsDistinct)'
      BY Zenon DEF Inv, TagsBelowNext, TagsDistinct, RemoveFlow
<1> QED BY Zenon, <1>1, <1>2, <1>3, <1>4, <1>5, <1>6, <1>7, <1>8 DEF Inv, TypeOK

(* The finally block passes over a host that was not created.              *)
LEMMA SkipHostInv ==
    ASSUME Inv, SkipHost
    PROVE  Inv'
<1>1. i' \in 1 .. NumHosts + NumFlows
      BY VirtualHostAssumption, TrialAssumption DEF Inv, TypeOK, SkipHost, nextHost, goto
<1>2. TypeOK'
      BY Zenon, <1>1 DEF Inv, TypeOK, HostTypeOK, SkipHost, nextHost, goto, localVars, worldVars,
         hostVars
<1>3. (IndexOK /\ HostsSoFar)'
      BY VirtualHostAssumption DEF Inv, IndexOK, HostsSoFar, Running, Creating, Hosts,
         SkipHost, nextHost, goto
<1>4. HostsInPlace'
    BY DEF Inv, TypeOK, Hosts, SkipHost, localVars, worldVars, hostVars, HostsInPlace,
       nextHost, goto, GoingUp, Running, Creating
<1>5. Accounted'
  <2>1. /\ i \in Hosts /\ pc = "uninstall" /\ i \notin hosts /\ hosts \subseteq Hosts
        /\ UNCHANGED <<trial, hosts, custody, flow_tokens, addresses, virtual_hosts, processes,
                       routes>>
        BY Zenon DEF Inv, TypeOK, IndexOK, Destroying, SkipHost, localVars, worldVars, hostVars
  <2>2. \/ pc' = "uninstall" /\ i' = i + 1
        \/ pc' = "routes" /\ ~(i < NumHosts)
        BY Zenon DEF SkipHost, nextHost, goto
  <2>3. \A h \in hosts : h > i => pc' = "uninstall" /\ (h > i' \/ h = i')
        BY <2>1, <2>2, VirtualHostAssumption DEF Hosts
  <2>4. \A h \in hosts : ~(h = i)
        BY Zenon, <2>1
  <2> QED BY <2>1, <2>3, <2>4 DEF Inv, Accounted, Ahead, GoingUp, Running, Creating, Destroying
<1>6. (MeasuredSoFar /\ MeasuredTrialsStopped)'
      BY Zenon DEF Inv, MeasuredSoFar, MeasuredTrialsStopped, Running, Creating, GoingUp,
         SkipHost, nextHost, goto, worldVars
<1>7. LeakStopsLaterTrials'
      BY Zenon DEF Inv, LeakStopsLaterTrials, SkipHost, worldVars, hostVars
<1>8. (TagsBelowNext /\ TagsDistinct)'
      BY Zenon DEF Inv, TagsBelowNext, TagsDistinct, Creating, SkipHost, nextHost, goto,
         localVars, worldVars
<1> QED BY Zenon, <1>1, <1>2, <1>3, <1>4, <1>5, <1>6, <1>7, <1>8 DEF Inv, TypeOK

(* Stopping the traffic processes.                                         *)
LEMMA StopProcessesInv ==
    ASSUME Inv, StopProcesses
    PROVE  Inv'
<1>1. i' \in 1 .. NumHosts + NumFlows
      BY VirtualHostAssumption, TrialAssumption DEF Inv, TypeOK, StopProcesses, nextHost,
         goto
<1>2. TypeOK'
      BY Zenon, <1>1 DEF Inv, TypeOK, HostTypeOK, StopProcesses, stop_traffic_generation,
         nextHost, goto, localVars
<1>3. (IndexOK /\ HostsSoFar)'
      BY VirtualHostAssumption DEF Inv, IndexOK, HostsSoFar, Running, Creating,
         Destroying, Hosts, StopProcesses, nextHost, goto
<1>4. HostsInPlace'
      BY DEF Inv, TypeOK, HostsInPlace, Running, Creating, GoingUp, Hosts, StopProcesses,
         stop_traffic_generation, nextHost, goto, localVars
<1>5. Accounted'
  <2>1. /\ i \in Hosts /\ pc = "stop" /\ hosts \subseteq Hosts
        /\ processes \subseteq Trials \X Hosts \X {"server", "client"}
        /\ UNCHANGED <<trial, hosts, custody, flow_tokens, addresses, virtual_hosts, routes>>
        BY Zenon DEF Inv, TypeOK, HostTypeOK, IndexOK, Destroying, StopProcesses,
           stop_traffic_generation, localVars
  <2>2. \/ pc' = "uninstall" /\ i' = i + 1
        \/ pc' = "routes" /\ ~(i < NumHosts)
        BY Zenon DEF StopProcesses, nextHost, goto
  <2>3. \A h \in hosts : h > i => pc' = "uninstall" /\ (h > i' \/ h = i')
        BY <2>1, <2>2, VirtualHostAssumption DEF Hosts
  <2>4. processes' = processes \ {<<trial, i, "client">>, <<trial, i, "server">>}
        BY Zenon DEF StopProcesses, stop_traffic_generation
  <2>5. custody = "kept" => \A p \in processes' : p[1] = trial /\ p[2] \in hosts /\ p[2] > i
      BY <2>1, <2>4 DEF Inv, Accounted, Ahead, GoingUp, Running, Creating, Destroying
  <2> QED BY <2>1, <2>3, <2>5 DEF Inv, Accounted, Ahead, GoingUp, Running, Creating, Destroying
<1>6. (MeasuredSoFar /\ MeasuredTrialsStopped)'
      BY Zenon DEF Inv, MeasuredSoFar, MeasuredTrialsStopped, Running, Creating, GoingUp,
         StopProcesses, nextHost, goto
<1>7. LeakStopsLaterTrials'
      BY Zenon DEF Inv, LeakStopsLaterTrials, StopProcesses, stop_traffic_generation
<1>8. (TagsBelowNext /\ TagsDistinct)'
      BY Zenon DEF Inv, TagsBelowNext, TagsDistinct, Creating, StopProcesses, nextHost, goto,
         localVars
<1> QED BY Zenon, <1>1, <1>2, <1>3, <1>4, <1>5, <1>6, <1>7, <1>8 DEF Inv, TypeOK

(* On to the next trial.                                                   *)
LEMMA EndTrialInv ==
    ASSUME Inv, EndTrial
    PROVE  Inv'
<1>1. HostTypeOK'
      BY Zenon DEF Inv, TypeOK, HostTypeOK, EndTrial, FreshLocals, worldVars, hostVars
<1>2. trial' \in Trials /\ failures' \in 0 .. MaxFailures /\ custody' \in {"kept", "lost"}
  <2>1. trial' \in Trials
        BY SMTT(30), VirtualHostAssumption DEF Inv, TypeOK, Trials, EndTrial
  <2> QED BY Zenon, <2>1 DEF Inv, TypeOK, EndTrial
<1>3. pc' \in Running \cup {"topo", "address", "install", "undo", "uninstall", "remove", "stop",
                             "routes", "done"}
      BY Zenon DEF Inv, EndTrial, FreshLocals, goto
<1>4. i' \in 1 .. NumHosts + NumFlows
      BY VirtualHostAssumption, TrialAssumption DEF Inv, EndTrial, FreshLocals, goto
<1>5. /\ hosts' \subseteq Hosts /\ configured' \subseteq Hosts
       /\ flow_tokens' \subseteq FlowIds /\ tag_values' \in [Pairs -> Nat]
      BY Zenon DEF Inv, EndTrial, FreshLocals
<1>6. /\ monitors' \subseteq Trials /\ results' \subseteq Trials
       /\ \A r \in routes' : r.trial \in Trials /\ r.flow \in FlowIds /\ r.tags \subseteq Nat
      BY Zenon DEF Inv, TypeOK, EndTrial, FreshLocals, worldVars
<1>7. (IndexOK /\ HostsSoFar)'
      BY Zenon DEF Inv, IndexOK, HostsSoFar, Running, Creating, Destroying, EndTrial,
         FreshLocals, goto
<1>8. HostsInPlace'
      BY Zenon DEF Inv, HostsInPlace, EndTrial, FreshLocals, goto
<1>9. Accounted'
      BY Zenon DEF Inv, Accounted, Ahead, Running, Creating, Destroying, GoingUp, EndTrial,
         FreshLocals, worldVars, hostVars
<1>10. (MeasuredSoFar /\ MeasuredTrialsStopped)'
      BY VirtualHostAssumption DEF Inv, TypeOK, MeasuredSoFar, MeasuredTrialsStopped,
         Running, Creating, GoingUp, Trials, EndTrial, FreshLocals, goto, worldVars
<1>11. LeakStopsLaterTrials'
      BY Zenon DEF Inv, LeakStopsLaterTrials, EndTrial, FreshLocals, worldVars, hostVars
<1>12. (TagsBelowNext /\ TagsDistinct)'
    BY DEF Inv, TypeOK, TagsBelowNext, Trials, EndTrial, worldVars, goto, Creating,
       TagsDistinct
<1> QED BY Zenon, <1>1, <1>2, <1>3, <1>4, <1>5, <1>6, <1>7, <1>8, <1>9, <1>10, <1>11, <1>12 DEF Inv, TypeOK

(* A step in which nothing changes.                                        *)
LEMMA StutterInv ==
    ASSUME Inv, UNCHANGED vars
    PROVE  Inv'
<1>1. UNCHANGED <<trial, pc, i, failures, hosts, flow_tokens, tag_values, configured,
                  addresses, virtual_hosts, processes, routes, monitors, results, custody>>
      BY Zenon DEF vars, localVars, worldVars, hostVars
<1>2. (TypeOK /\ IndexOK /\ HostsSoFar /\ HostsInPlace)'
      BY <1>1 DEF Inv, TypeOK, HostTypeOK, IndexOK, HostsSoFar, HostsInPlace
<1>3. Accounted'
      BY <1>1 DEF Inv, Accounted, Ahead
<1>4. (MeasuredSoFar /\ TagsBelowNext)'
      BY Zenon, <1>1 DEF Inv, MeasuredSoFar, TagsBelowNext, Pair
<1>5. (LeakStopsLaterTrials /\ MeasuredTrialsStopped)'
      BY Zenon, <1>1 DEF Inv, LeakStopsLaterTrials, MeasuredTrialsStopped
<1>6. TagsDistinct'
      BY Zenon, <1>1 DEF Inv, TagsDistinct, Pair
<1> QED BY Zenon, <1>2, <1>3, <1>4, <1>5, <1>6 DEF Inv

(* All of them together: every step keeps the invariant.                   *)
LEMMA NextInv ==
    ASSUME Inv, [Next]_vars
    PROVE  Inv'
<1>1. ASSUME NEW o \in Outcomes, Setup(o) PROVE Inv'
      BY Zenon, <1>1, GetTopologyInv, AddAddressInv, CreateVirtualHostInv, UndoAddressInv,
         StartServerInv, InstallFlowInv DEF Setup
<1>2. ASSUME NEW o \in Outcomes, Measure(o) PROVE Inv'
      BY Zenon, <1>2, StartMonitorInv, StartClientInv, StopMonitorInv, AddResultsInv DEF Measure
<1>3. ASSUME NEW o \in Outcomes, Cleanup(o) PROVE Inv'
      BY Zenon, <1>3, UninstallHostInv, RemoveAddressInv, RemoveFlowInv DEF Cleanup
<1>4. CASE SkipHost
      BY Zenon, <1>4, SkipHostInv
<1>5. CASE StopProcesses
      BY Zenon, <1>5, StopProcessesInv
<1>6. CASE EndTrial
      BY Zenon, <1>6, EndTrialInv
<1>7. CASE UNCHANGED vars
      BY Zenon, <1>7, StutterInv
<1> QED BY Zenon, <1>1, <1>2, <1>3, <1>4, <1>5, <1>6, <1>7 DEF Next, Finished

(* The invariant holds in every reachable state.                           *)
LEMMA Invariance == Spec => []Inv
BY InitInv, NextInv, PTL DEF Spec
----------------------------------------------------------------------------
(* Every variable keeps its type along a run of trials.                    *)
THEOREM TypeCorrect == Spec => []TypeOK
<1>1. Inv => TypeOK
      BY Zenon DEF Inv
<1> QED BY <1>1, Invariance, PTL

(* The except and finally blocks of conduct_path_hopping_trial and         *)
(* create_virtual_hosts give back everything a trial acquired, at          *)
(* whichever call it failed, unless a release failed or an answer was lost.*)
THEOREM TrialsLeaveNothing == Spec => []NothingLeftBehind
<1>1. Inv => NothingLeftBehind
    BY Zenon DEF NothingLeftBehind, Inv, HostsSoFar, Accounted
<1> QED BY <1>1, Invariance, PTL

(* From the first traffic server to the recording of the results, a trial  *)
(* runs on addresses and virtual hosts it created itself.                  *)
THEOREM TrialsRunOnOwnHosts == Spec => []RunsOnOwnHosts
<1>1. Inv => RunsOnOwnHosts
      BY Zenon DEF Inv, HostsSoFar, HostsInPlace, RunsOnOwnHosts, GoingUp
<1> QED BY <1>1, Invariance, PTL

(* An address that destroy_all_hosts failed to remove keeps every later    *)
(* trial from recording results.                                           *)
THEOREM LeakedAddressIsFatal == Spec => []LeakStopsLaterTrials
<1>1. Inv => LeakStopsLaterTrials
      BY Zenon DEF Inv
<1> QED BY <1>1, Invariance, PTL

(* Results are recorded only by a trial whose stop_monitor returned, and   *)
(* never by one whose monitor is still running.                            *)
THEOREM ResultsAfterStop == Spec => []MeasuredTrialsStopped
<1>1. Inv => MeasuredTrialsStopped
      BY Zenon DEF Inv
<1> QED BY <1>1, Invariance, PTL

(* simple_paths_to_flow_json never gives a tag twice to the routes of one  *)
(* trial between the same two hosts.                                       *)
THEOREM TagsNeverShared == Spec => []TagsDistinct
<1>1. Inv => TagsDistinct
      BY Zenon DEF Inv
<1> QED BY <1>1, Invariance, PTL

(* No step of a trial's set-up or clean-up takes away an address, a        *)
(* virtual host or a process that belongs to another trial.                *)
THEOREM OthersResourcesKept == Spec => KeepsOthersResources
<1> DEFINE Kept == /\ \A h \in Hosts : addresses[h] \notin {0, trial} => addresses'[h] = addresses[h]
                   /\ \A v \in virtual_hosts : v[1] # trial => v \in virtual_hosts'
                   /\ \A p \in processes : p[1] # trial => p \in processes'
<1>1. ASSUME Inv, [Next]_vars PROVE [Kept]_vars
  <2>1. ASSUME UNCHANGED hostVars PROVE Kept
        BY Zenon, <2>1 DEF hostVars
  <2>2. ASSUME NEW o \in Outcomes, Setup(o) PROVE Kept
    <3>1. CASE AddAddress(o)
          BY Zenon, <1>1, <3>1 DEF Inv, TypeOK, HostTypeOK, AddAddress,
             _initialize_local_network_interface, TakesEffect
    <3>2. CASE CreateVirtualHost(o)
          BY Zenon, <3>2 DEF CreateVirtualHost, _install_virtual_host
    <3>3. CASE UndoAddress(o)
          BY Zenon, <1>1, <3>3 DEF Inv, TypeOK, HostTypeOK, HostsInPlace, UndoAddress,
             _remove_local_network_interface
    <3>4. CASE StartServer(o)
          BY Zenon, <3>4 DEF StartServer, start_traffic_generation
    <3>5. CASE GetTopology(o) \/ InstallFlow(o)
          BY Zenon, <2>1, <3>5 DEF GetTopology, InstallFlow, worldVars
    <3> QED BY Zenon, <2>2, <3>1, <3>2, <3>3, <3>4, <3>5 DEF Setup
  <2>3. ASSUME NEW o \in Outcomes, Measure(o) PROVE Kept
      BY Zenon, <2>1, <2>3 DEF StartClient, start_traffic_generation, hostVars, start_monitor,
         stop_monitor, AddResults, worldVars, Measure
  <2>4. ASSUME NEW o \in Outcomes, Cleanup(o) PROVE Kept
    <3>1. CASE UninstallHost(o)
          BY <3>1 DEF UninstallHost, _uninstall_virtual_host
    <3>2. CASE RemoveAddress(o)
          BY SMTT(30), <1>1, <3>2 DEF Inv, TypeOK, HostTypeOK, IndexOK, HostsInPlace, Destroying,
             RemoveAddress, _remove_local_network_interface
    <3>3. CASE \E f \in FlowIds : RemoveFlow(f, o)
          BY Zenon, <2>1, <3>3 DEF RemoveFlow
    <3> QED BY Zenon, <2>4, <3>1, <3>2, <3>3 DEF Cleanup
  <2>5. CASE StopProcesses
        BY <2>5 DEF StopProcesses, stop_traffic_generation
  <2>6. CASE SkipHost \/ EndTrial
        BY Zenon, <2>1, <2>6 DEF SkipHost, EndTrial, worldVars
  <2>7. CASE UNCHANGED vars
        BY Zenon, <2>7
  <2> QED BY Zenon, <1>1, <2>2, <2>3, <2>4, <2>5, <2>6, <2>7 DEF Next, Finished
<1> QED BY <1>1, Invariance, PTL DEF Spec, KeepsOthersResources

-----------------------------------------------------------------------------
(* A run of path-hopping trials implements TrialLifecycle: every statement *)
(* is a step of the abstract program or leaves it unchanged.               *)
(* What is there belongs to one of the four kinds.                         *)
IsHeld(x, a, v, p, r) ==
    \/ \E h \in Hosts : a[h] # 0 /\ x = <<a[h], <<"address", h>>>>
    \/ \E w \in v : x = <<w[1], <<"virtual_host", w[2]>>>>
    \/ \E q \in p : x = <<q[1], <<q[3], q[2]>>>>
    \/ \E s \in r : x = <<s.trial, <<"route", s.flow>>>>

(* Held, element by element.                                               *)
LEMMA HeldMembers ==
    /\ \A x : x \in Held <=> IsHeld(x, addresses, virtual_hosts, processes, routes)
    /\ \A x : x \in Held' <=> IsHeld(x, addresses', virtual_hosts', processes', routes')
    BY Zenon DEF Held, IsHeld

(* A statement that changes nothing outside the program.                   *)
LEMMA HeldSame ==
    ASSUME UNCHANGED <<addresses, virtual_hosts, processes, routes>>
    PROVE  Held' = Held
BY Zenon DEF Held

(* A statement that only adds resources of the current trial.              *)
LEMMA HeldGrows ==
    ASSUME \A h \in Hosts : addresses'[h] = addresses[h]
                            \/ (addresses[h] = 0 /\ addresses'[h] = trial),
           virtual_hosts \subseteq virtual_hosts', processes \subseteq processes',
           routes \subseteq routes',
           \A v \in virtual_hosts' \ virtual_hosts : v[1] = trial,
           \A p \in processes' \ processes : p[1] = trial,
           \A r \in routes' \ routes : r.trial = trial
    PROVE  Held \subseteq Held' /\ \A x \in Held' \ Held : x[1] = trial
<1>1. \A x : IsHeld(x, addresses, virtual_hosts, processes, routes)
                => IsHeld(x, addresses', virtual_hosts', processes', routes')
      BY Zenon DEF IsHeld
<1>2. ASSUME NEW x, IsHeld(x, addresses', virtual_hosts', processes', routes'),
             ~ IsHeld(x, addresses, virtual_hosts, processes, routes)
      PROVE  x[1] = trial
      BY SMTT(30), <1>2 DEF IsHeld
<1>3. Held \subseteq Held'
      BY Zenon, <1>1, HeldMembers
<1>4. \A x \in Held' \ Held : x[1] = trial
      BY Zenon, <1>2, HeldMembers
<1> QED BY Zenon, <1>3, <1>4

(* A statement that only removes resources of the current trial.           *)
LEMMA HeldShrinks ==
    ASSUME \A h \in Hosts : addresses'[h] = addresses[h]
                            \/ (addresses[h] = trial /\ addresses'[h] = 0),
           virtual_hosts' \subseteq virtual_hosts, processes' \subseteq processes,
           routes' \subseteq routes,
           \A v \in virtual_hosts \ virtual_hosts' : v[1] = trial,
           \A p \in processes \ processes' : p[1] = trial,
           \A r \in routes \ routes' : r.trial = trial
    PROVE  Held' \subseteq Held /\ \A x \in Held \ Held' : x[1] = trial
<1>1. \A x : IsHeld(x, addresses', virtual_hosts', processes', routes')
                => IsHeld(x, addresses, virtual_hosts, processes, routes)
      BY Zenon DEF IsHeld
<1>2. ASSUME NEW x, IsHeld(x, addresses, virtual_hosts, processes, routes),
             ~ IsHeld(x, addresses', virtual_hosts', processes', routes')
      PROVE  x[1] = trial
      BY SMTT(30), <1>2 DEF IsHeld
<1>3. Held' \subseteq Held
      BY Zenon, <1>1, HeldMembers
<1>4. \A x \in Held \ Held' : x[1] = trial
      BY Zenon, <1>2, HeldMembers
<1> QED BY Zenon, <1>3, <1>4
-----------------------------------------------------------------------------
Ups == Running \cup {"topo", "address", "install"}
Downs == {"undo", "uninstall", "remove", "stop", "routes"}

(* The stage of the trial, before and after a statement.                   *)
LEMMA Stages ==
    /\ pc \in Ups => Stage = "up"
    /\ pc \in Downs => Stage = "down"
    /\ pc' \in Ups => Stage' = "up"
    /\ pc' \in Downs => Stage' = "down"
    /\ pc' = "done" => Stage' = "over"
BY Zenon DEF Stage, Ups, Downs, Running

(* A call counts the failure it raises with, and no other.                 *)
LEMMA CallCounts ==
    ASSUME failures \in 0 .. MaxFailures, NEW o, Call(o)
    PROVE  /\ L!Calls
           /\ Raises(o) => L!Fault /\ failures' > 0
BY TrialAssumption DEF Call, L!Calls, L!Fault

(* Something is lost track of only by a call that failed; so an address    *)
(* found in the way of a new one is there because a call had failed.       *)
LostByFailure == custody = "lost" => failures > 0

LifeInv == Inv /\ LostByFailure

(* A call keeps count of the failures that lose track of something.        *)
LEMMA CustodyTracked ==
    ASSUME LifeInv, NEW o, Call(o),
           custody' = custody \/ (custody' = "lost" /\ Raises(o))
    PROVE  L!Tracks /\ LostByFailure'
    BY FailureTypes, CallCounts, TrialAssumption DEF LifeInv, L!Tracks, LostByFailure,
       L!Calls, L!Fault

(* A statement on the way up that acquires something of the trial's.       *)
LEMMA AcquireStep ==
    ASSUME LifeInv, NEW o, Call(o), pc \in Ups,
           custody' = custody \/ (custody' = "lost" /\ Raises(o)),
           pc' \in Ups \/ (pc' \in Downs /\ Raises(o)),
           Held \subseteq Held', \A x \in Held' \ Held : x[1] = trial,
           UNCHANGED <<trial, monitors, results>>
    PROVE  L!Acquire /\ LostByFailure'
    BY Zenon, FailureTypes, CallCounts, CustodyTracked, Stages DEF LifeInv, L!GoesOn, L!Acquire

(* A statement on the way down that releases something of the trial's.     *)
LEMMA ReleaseStep ==
    ASSUME LifeInv, NEW o, Call(o), pc \in Downs, pc' \in Downs,
           custody' = custody \/ (custody' = "lost" /\ Raises(o)),
           Held' \subseteq Held, \A x \in Held \ Held' : x[1] = trial,
           UNCHANGED <<trial, monitors, results>>
    PROVE  L!Release /\ LostByFailure'
    BY Zenon, FailureTypes, CallCounts, CustodyTracked, Stages DEF LifeInv, L!Release
-----------------------------------------------------------------------------
Step == (L!Next \/ UNCHANGED L!lifecycleVars) /\ LostByFailure'

(* One lemma per group of statements, first those of the way up.           *)
LEMMA ReadsTopology ==
    ASSUME LifeInv, NEW o \in Outcomes, GetTopology(o)
    PROVE  Step
    BY Zenon, HeldSame, AcquireStep DEF GetTopology, worldVars, hostVars, raise, goto, Ups, Downs,
       Step, L!Next

(* Adding the address of a virtual host, which raises if one is there.     *)
LEMMA AddsAddress ==
    ASSUME LifeInv, NEW o \in Outcomes, AddAddress(o)
    PROVE  Step
<1>1. i \in Hosts /\ addresses \in [Hosts -> 0 .. NumTrials]
      BY Zenon DEF LifeInv, Inv, IndexOK, Creating, TypeOK, HostTypeOK, AddAddress
<1>2. pc \in Ups /\ (pc' \in Ups \/ (pc' \in Downs /\ Raises(o)))
      BY Zenon DEF AddAddress, raise, goto, Ups, Downs
<1>3. UNCHANGED <<trial, monitors, results>>
      BY Zenon DEF AddAddress
<1>4. CASE addresses[i] = 0
    BY Zenon, <1>4, <1>1, HeldGrows, <1>2, <1>3, AcquireStep DEF AddAddress, Acquire, Raises,
       _initialize_local_network_interface, Step, L!Next
<1>5. CASE addresses[i] # 0
  <2>1. custody # "kept"
      BY <1>1, <1>5 DEF LifeInv, Inv, HostsSoFar, Creating, AddAddress, Hosts, Accounted
  <2>2. failures > 0 /\ UNCHANGED <<failures, custody>>
        BY Zenon, <1>5, <2>1, FailureTypes DEF LifeInv, LostByFailure, AddAddress
  <2>3. Held' = Held
        BY Zenon, <1>5, HeldSame DEF AddAddress, _initialize_local_network_interface, TakesEffect
  <2>4. Stage = "up" /\ Stage' \in {"up", "down"}
        BY Zenon, <1>2, Stages
  <2>5. L!Acquire
        BY Zenon, <1>3, <2>2, <2>3, <2>4 DEF L!Acquire, L!Calls, L!Tracks, L!GoesOn
  <2> QED BY Zenon, <2>2, <2>5 DEF Step, L!Next, LifeInv, LostByFailure
<1> QED BY Zenon, <1>4, <1>5

(* Creating a virtual host at the controller.                              *)
LEMMA CreatesHost ==
    ASSUME LifeInv, NEW o \in Outcomes, CreateVirtualHost(o)
    PROVE  Step
<1>1. /\ Call(o) /\ UNCHANGED <<trial, monitors, results>>
      /\ custody' = custody \/ (custody' = "lost" /\ Raises(o))
      BY Zenon DEF CreateVirtualHost, Acquire, Raises
<1>2. pc \in Ups /\ (pc' \in Ups \/ (pc' \in Downs /\ Raises(o)))
      BY Zenon DEF CreateVirtualHost, goto, Ups, Downs, Running
<1>3. /\ UNCHANGED <<addresses, processes, routes>>
      /\ virtual_hosts \subseteq virtual_hosts'
      /\ \A v \in virtual_hosts' \ virtual_hosts : v[1] = trial
      BY DEF CreateVirtualHost, _install_virtual_host
<1>4. Held \subseteq Held' /\ \A x \in Held' \ Held : x[1] = trial
      BY Zenon, <1>3, HeldGrows
<1> QED BY Zenon, <1>1, <1>2, <1>4, AcquireStep DEF Step, L!Next

(* Starting the traffic server or the client of a host.                    *)
LEMMA StartsProcess ==
    ASSUME LifeInv, NEW o \in Outcomes, StartServer(o) \/ StartClient(o)
    PROVE  Step
<1>1. Call(o) /\ UNCHANGED <<trial, monitors, results, custody>>
      BY Zenon DEF StartServer, StartClient
<1>2. pc \in Ups /\ (pc' \in Ups \/ (pc' \in Downs /\ Raises(o)))
      BY Zenon DEF StartServer, StartClient, advance, raise, goto, Ups, Downs, Running
<1>3. UNCHANGED <<addresses, virtual_hosts, routes>>
      BY Zenon DEF StartServer, StartClient, start_traffic_generation, hostVars
<1>4. processes \subseteq processes' /\ \A p \in processes' \ processes : p[1] = trial
  <2>1. \/ UNCHANGED processes
        \/ \E program : processes' = processes \cup {<<trial, i, program>>}
        BY Zenon DEF StartServer, StartClient, start_traffic_generation, hostVars
  <2> QED BY <2>1
<1>5. Held \subseteq Held' /\ \A x \in Held' \ Held : x[1] = trial
      BY Zenon, <1>3, <1>4, HeldGrows
<1> QED BY Zenon, <1>1, <1>2, <1>5, AcquireStep DEF Step, L!Next

(* Installing a flow; its route is the trial's.                            *)
LEMMA InstallsFlow ==
    ASSUME LifeInv, NEW o \in Outcomes, InstallFlow(o)
    PROVE  Step
<1>1. /\ Call(o) /\ UNCHANGED <<trial, monitors, results>>
      /\ custody' = custody \/ (custody' = "lost" /\ Raises(o))
      BY Zenon DEF InstallFlow, Acquire, Raises
<1>2. pc \in Ups /\ (pc' \in Ups \/ (pc' \in Downs /\ Raises(o)))
      BY Zenon DEF InstallFlow, advance, raise, goto, Ups, Downs, Running
<1>3. /\ UNCHANGED <<addresses, virtual_hosts, processes>>
      /\ routes \subseteq routes' /\ \A r \in routes' \ routes : r.trial = trial
      BY SMTT(30) DEF InstallFlow, hostVars
<1>4. Held \subseteq Held' /\ \A x \in Held' \ Held : x[1] = trial
      BY Zenon, <1>3, HeldGrows
<1> QED BY Zenon, <1>1, <1>2, <1>4, AcquireStep DEF Step, L!Next
-----------------------------------------------------------------------------
(* Starting and stopping the monitor.                                      *)
LEMMA Watches ==
    ASSUME LifeInv, NEW o \in Outcomes, start_monitor(o) \/ stop_monitor(o)
    PROVE  Step
    BY Zenon, HeldSame, FailureTypes, CallCounts, Stages, CustodyTracked DEF start_monitor,
       stop_monitor, raise, goto, Ups, Downs, Running, hostVars, LifeInv, L!GoesOn, L!Watch,
       Step, L!Next

(* Recording the results: every host is in place and the monitor stopped.  *)
LEMMA RecordsResults ==
    ASSUME LifeInv, NEW o \in Outcomes, AddResults(o)
    PROVE  Step
<1>1. pc = "results" /\ pc' = "uninstall"
      BY Zenon DEF AddResults, goto
<1>2. Call(o) /\ UNCHANGED <<trial, monitors, custody, addresses, virtual_hosts, processes, routes>>
      BY Zenon DEF AddResults, worldVars, hostVars
<1>3. Held' = Held
      BY Zenon, <1>2, HeldSame
<1>4. pc \in Ups /\ pc' \in Downs
      BY Zenon, <1>1 DEF Ups, Downs, Running
<1>5. LostByFailure'
      BY Zenon, <1>2, CustodyTracked
<1>6. CASE Raises(o)
    BY Zenon, <1>6, <1>2, <1>3, <1>4, AcquireStep, <1>5 DEF AddResults, Step, L!Next
<1>7. CASE ~Raises(o)
  <2>1. results' = results \cup {trial} /\ failures' = failures
        BY Zenon, <1>7 DEF AddResults, Call
  <2>2. trial \notin monitors
        BY Zenon, <1>1 DEF LifeInv, Inv, MeasuredSoFar
  <2>3. \A h \in Hosts : addresses[h] = trial /\ <<trial, h>> \in virtual_hosts
        BY Zenon, <1>1 DEF LifeInv, Inv, HostsSoFar, HostsInPlace, GoingUp, Running
  <2>4. trial # 0
        BY DEF LifeInv, Inv, TypeOK, Trials
  <2>5. ASSUME NEW r \in {"address", "virtual_host"} \X Hosts PROVE <<trial, r>> \in Held
    <3>1. PICK kind \in {"address", "virtual_host"}, h \in Hosts : r = <<kind, h>>
          OBVIOUS
    <3>2. IsHeld(<<trial, r>>, addresses, virtual_hosts, processes, routes)
          BY Zenon, <2>3, <2>4, <3>1 DEF IsHeld
    <3> QED BY Zenon, <3>2, HeldMembers
  <2>6. Stage = "up" /\ Stage' = "down"
        BY Zenon, <1>4, Stages
  <2>7. L!Measure
        BY Zenon, <1>2, <1>3, <2>1, <2>2, <2>5, <2>6 DEF L!Measure
  <2> QED BY Zenon, <1>5, <2>7 DEF Step, L!Next
<1> QED BY Zenon, <1>6, <1>7

(* Removing an address, in the except block or in destroy_all_hosts.       *)
LEMMA RemovesAddress ==
    ASSUME LifeInv, NEW o \in Outcomes, UndoAddress(o) \/ RemoveAddress(o)
    PROVE  Step
<1>1. pc \in Downs /\ pc' \in Downs
      BY Zenon DEF UndoAddress, RemoveAddress, nextHost, raise, goto, Downs
<1>2. /\ Call(o) /\ (custody' = custody \/ (custody' = "lost" /\ Raises(o)))
      /\ UNCHANGED <<trial, monitors, results>>
      BY Zenon DEF UndoAddress, RemoveAddress, Release
<1>3. i \in Hosts /\ addresses \in [Hosts -> 0 .. NumTrials]
      BY Zenon DEF LifeInv, Inv, IndexOK, Creating, Destroying, TypeOK, HostTypeOK, UndoAddress,
         RemoveAddress
<1>4. addresses[i] = trial
    BY <1>3 DEF LifeInv, Inv, HostsInPlace, IndexOK, Hosts, UndoAddress, RemoveAddress
<1>5. /\ addresses' = [addresses EXCEPT ![i] = 0] \/ addresses' = addresses
      /\ UNCHANGED <<virtual_hosts, processes, routes>>
      BY Zenon DEF UndoAddress, RemoveAddress, _remove_local_network_interface
<1>6. \A h \in Hosts : addresses'[h] = addresses[h]
                       \/ (addresses[h] = trial /\ addresses'[h] = 0)
      BY Zenon, <1>3, <1>4, <1>5
<1>7. Held' \subseteq Held /\ \A x \in Held \ Held' : x[1] = trial
      BY Zenon, <1>5, <1>6, HeldShrinks
<1>8. L!Release /\ LostByFailure'
      BY Zenon, <1>1, <1>2, <1>7, ReleaseStep
<1> QED BY Zenon, <1>8 DEF Step, L!Next

(* Removing a virtual host from the controller's table.                    *)
LEMMA UninstallsHost ==
    ASSUME LifeInv, NEW o \in Outcomes, UninstallHost(o)
    PROVE  Step
    BY HeldShrinks, ReleaseStep DEF UninstallHost, nextHost, goto, Downs, Release,
       _uninstall_virtual_host, Step, L!Next

(* Removing a flow by its token.                                           *)
LEMMA RemovesFlow ==
    ASSUME LifeInv, NEW o \in Outcomes, NEW k \in FlowIds, RemoveFlow(k, o)
    PROVE  Step
    BY Zenon, HeldShrinks, ReleaseStep DEF RemoveFlow, Downs, Release, hostVars, Step, L!Next

(* Signalling the processes of a host, and passing over one never created. *)
LEMMA StopsProcesses ==
    ASSUME LifeInv, StopProcesses \/ SkipHost
    PROVE  Step
    BY HeldShrinks, Stages DEF StopProcesses, SkipHost, nextHost, goto, Downs,
       stop_traffic_generation, worldVars, hostVars, L!Release, L!Calls, L!Tracks, Step,
       L!Next, LifeInv, LostByFailure

(* Going on to the next trial: nothing is held that is accounted for.      *)
LEMMA EndsTrial ==
    ASSUME LifeInv, EndTrial
    PROVE  Step
<1>1. pc = "routes" /\ flow_tokens = {}
      BY Zenon DEF EndTrial
<1>2. ASSUME custody = "kept" PROVE Held = {}
    BY <1>1, <1>2, HeldMembers DEF Ahead, GoingUp, Running, Creating, Destroying, LifeInv,
       Inv, Accounted, IsHeld
<1>3. UNCHANGED <<monitors, results, failures, custody, addresses, virtual_hosts, processes, routes>>
      BY Zenon DEF EndTrial, worldVars, hostVars
<1>4. Held' = Held
      BY Zenon, <1>3, HeldSame
<1>5. \/ pc' \in Ups /\ trial' = trial + 1
      \/ pc' = "done" /\ UNCHANGED trial
      BY Zenon DEF EndTrial, goto, Ups
<1>6. Stage = "down"
      BY Zenon, <1>1, Stages DEF Downs
<1>7. \/ Stage' = "up" /\ trial' = trial + 1
      \/ Stage' = "over" /\ UNCHANGED trial
      BY Zenon, <1>5, Stages
<1>8. L!Over
      BY Zenon, <1>2, <1>3, <1>4, <1>6, <1>7 DEF L!Over
<1> QED BY Zenon, <1>3, <1>8 DEF Step, L!Next, LifeInv, LostByFailure

(* A statement that changes nothing.                                       *)
LEMMA Stutters ==
    ASSUME LifeInv, UNCHANGED vars
    PROVE  Step
    BY Zenon, HeldSame DEF vars, worldVars, hostVars, Stage, Step, L!lifecycleVars, LifeInv,
       LostByFailure

(* Every statement is a step of the abstract program or leaves it alone.   *)
LEMMA EveryStep ==
    ASSUME LifeInv, [Next]_vars
    PROVE  Step
<1>1. ASSUME NEW o \in Outcomes, Setup(o) PROVE Step
      BY Zenon, <1>1, ReadsTopology, AddsAddress, CreatesHost, RemovesAddress, StartsProcess,
         InstallsFlow DEF Setup
<1>2. ASSUME NEW o \in Outcomes, Measure(o) PROVE Step
      BY Zenon, <1>2, Watches, StartsProcess, RecordsResults DEF Measure
<1>3. ASSUME NEW o \in Outcomes, Cleanup(o) PROVE Step
      BY Zenon, <1>3, UninstallsHost, RemovesAddress, RemovesFlow DEF Cleanup
<1>4. CASE StopProcesses \/ SkipHost
      BY Zenon, <1>4, StopsProcesses
<1>5. CASE EndTrial
      BY Zenon, <1>5, EndsTrial
<1>6. CASE UNCHANGED vars
      BY Zenon, <1>6, Stutters
<1> QED BY Zenon, <1>1, <1>2, <1>3, <1>4, <1>5, <1>6 DEF Next, Finished

(* conduct_path_hopping_trial, for any trials, hosts, flows and failures,  *)
(* keeps the promise of a trial program: it takes nothing of another       *)
(* trial's, records results only with all hosts in place and the monitor   *)
(* stopped, and is over only when all it kept track of is given back.      *)
THEOREM ImplementsLifecycle == Spec => Lifecycle
<1>1. ASSUME Init PROVE L!Init /\ LifeInv
    BY Zenon, <1>1, InitInv, HeldMembers DEF Init, HostInit, IsHeld, Stage, L!Init, LifeInv,
       LostByFailure
<1>2. ASSUME LifeInv, [Next]_vars PROVE LifeInv' /\ [L!Next]_L!lifecycleVars
      BY Zenon, <1>2, EveryStep, NextInv DEF LifeInv, Step
<1> QED BY <1>1, <1>2, PTL DEF Spec, Lifecycle, L!Spec
=============================================================================
