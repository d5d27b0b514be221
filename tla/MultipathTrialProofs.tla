------------------------ MODULE MultipathTrialProofs ------------------------
(***************************************************************************)
(* Whose counts the results of a multipath trial hold: for every number of *)
(* trials, every list of flows and every number of faults, the invariants  *)
(* StaleNeedsTwoFaults and ReportedInOrder of MultipathTrial.              *)
(*                                                                         *)
(* The argument counts faults by host.  A host misses its sender's file    *)
(* when its generator died or the copy failed, and its receiver's file     *)
(* when its server died or the copy failed; a step makes the files of one  *)
(* host at most go missing, and is then a fault (Missing).  So a sender's  *)
(* and a receiver's file missing on two different hosts are two faults     *)
(* (Accounted).  The loop over the flows takes a count of another trial    *)
(* only from two such files; with the sender's file of its own trial it    *)
(* reports the flows of a pair in order, up to the first that was not      *)
(* received (InOrder).                                                     *)
(***************************************************************************)
EXTENDS MultipathTrial, TLAPS

(* Calls that failed and processes that died.                              *)
Faults == failures + crashes

Counts == SUBSET (AllPorts \cup Absent)
Files == [sender : 0 .. MaxTrials, receiver : Counts]

Typed ==
    /\ trial \in Trials
    /\ servers \in [Hosts -> Counts]
    /\ generators \in [Hosts -> SUBSET Trials]
    /\ remote \in [Hosts -> Files] /\ local \in [Hosts -> Files]
    /\ failures \in Nat /\ crashes \in Nat /\ leftovers \in BOOLEAN

(* Which hosts the current loop still has to visit.                        *)
Visits ==
    /\ pc \in {"servers", "stop-servers", "collect"} => todo \subseteq HostIds(trial)
    /\ pc \in {"clients", "stop-clients"} => todo \subseteq Sources(trial)

(* Unless a trial was broken off, a generator or a server that runs was    *)
(* started in this trial and has not been stopped.                         *)
OwnGenerators ==
    \A h \in Hosts : generators[h] # {} =>
        /\ generators[h] = {trial} /\ h \in Sources(trial)
        /\ \/ pc \in {"recover", "ended"}
           \/ pc = "clients" /\ h \notin todo
           \/ pc = "stop-clients" /\ h \in todo

OwnServers ==
    \A h \in Hosts : servers[h] # Absent =>
        /\ servers[h] \subseteq Ports(trial) /\ h \in HostIds(trial)
        /\ \/ pc \in {"recover", "ended", "install", "clients", "stop-clients"}
           \/ pc = "servers" /\ h \notin todo
           \/ pc = "stop-servers" /\ h \in todo

(* The sender file of the host will not be the one of this trial: its      *)
(* generator is gone, the file was not written, or not copied.             *)
SenderMissed(h) ==
    /\ h \in Sources(trial)
    /\ \/ /\ (pc = "clients" /\ h \notin todo) \/ (pc = "stop-clients" /\ h \in todo)
          /\ trial \notin generators[h]
       \/ /\ \/ pc = "stop-clients" /\ h \notin todo
             \/ pc = "stop-servers"
             \/ pc = "collect" /\ h \in todo
          /\ remote[h].sender # trial
       \/ /\ (pc = "collect" /\ h \notin todo) \/ pc \in {"process", "remove", "write"}
          /\ local[h].sender # trial

(* The receiver file of the host will hold counts of other trials, in the  *)
(* same three ways.                                                        *)
ReceiverMissed(h) ==
    /\ h \in HostIds(trial)
    /\ \/ /\ \/ pc = "servers" /\ h \notin todo
             \/ pc \in {"install", "clients", "stop-clients"}
             \/ pc = "stop-servers" /\ h \in todo
          /\ servers[h] = Absent
       \/ /\ (pc = "stop-servers" /\ h \notin todo) \/ (pc = "collect" /\ h \in todo)
          /\ ~(remote[h].receiver \subseteq Ports(trial))
       \/ /\ (pc = "collect" /\ h \notin todo) \/ pc \in {"process", "remove", "write"}
          /\ ~(local[h].receiver \subseteq Ports(trial))

(* Every host that misses its file has cost a fault of its own.            *)
Accounted ==
    /\ \A h \in Hosts : SenderMissed(h) => Faults >= 1
    /\ \A h \in Hosts : ReceiverMissed(h) => Faults >= 1
    /\ \A g, h \in Hosts : g # h /\ SenderMissed(g) /\ ReceiverMissed(h) => Faults >= 2
    /\ pc \in {"recover", "ended"} => Faults >= 1

(* How far the loop over the flows has come.                               *)
Processed ==
    /\ processed_results \in Seq({processed_results[k] : k \in DOMAIN processed_results})
    /\ Len(processed_results) <= Len(Flows[trial])
    /\ processed_results # <<>> => pc \in {"process", "remove", "write", "recover", "ended"}
    /\ pc = "process" => /\ todo = {Len(processed_results) + 1}
                         /\ Len(processed_results) < Len(Flows[trial])
    /\ pc \in {"remove", "write"} => Len(processed_results) = Len(Flows[trial])

Flow(k) == Flows[trial][k]
Sender(k) == local[Flow(k).source_node].sender
Received(k) == local[Flow(k).destination_node].receiver

(* An entry that is not None is one of the sender's file, for the same     *)
(* pair of hosts, that the receiver's file has as well.                    *)
Entry(k) ==
    processed_results[k] = Lost \/
        /\ Sender(k) # NoSender
        /\ processed_results[k] \in Received(k)
        /\ \E i \in DOMAIN Flows[Sender(k)] :
              processed_results[k] = <<Sender(k), i>> /\ SamePair(Flows[Sender(k)][i], Flow(k))

(* The flows of a trial for the same pair of hosts as the k-th; whether    *)
(* those up to the k-th were received; and whether the entries used so far *)
(* are those before the k-th up to the first that was not.                 *)
Pair(t, k) == {j \in DOMAIN Flows[t] : SamePair(Flows[t][j], Flows[t][k])}
AllReceived(t, k, received) == \A i \in Pair(t, k) : i <= k => <<t, i>> \in received
UsedSoFar(t, k, received, used) ==
    \A j \in Pair(t, k) : (<<t, j>> \in used) <=> (j < k /\ AllReceived(t, j, received))

(* With the sender's file of this trial, the entries of a pair are those   *)
(* of its flows up to the first one that was not received.                 *)
InOrder(k) ==
    Sender(k) = trial =>
        processed_results[k] =
            IF AllReceived(trial, k, Received(k)) THEN <<trial, k>> ELSE Lost

Stale(k) == processed_results[k] \notin {Lost, <<trial, k>>}

Results ==
    \A k \in DOMAIN processed_results : Entry(k) /\ InOrder(k)

TwoFaults ==
    \A k \in DOMAIN processed_results : Stale(k) => Faults >= 2

MInv ==
    /\ Typed /\ Visits /\ Processed /\ Results
    /\ ~leftovers => OwnGenerators /\ OwnServers /\ Accounted /\ TwoFaults

-----------------------------------------------------------------------------
(* A function on 1 .. n is a list.                                         *)
LEMMA AList ==
  ASSUME NEW R, NEW n \in Nat, NEW a \in [1 .. n -> R]
  PROVE  a \in Seq(R)
  OBVIOUS

(* Appending to a list, and changing an element of one.                    *)
LEMMA Appended ==
  ASSUME NEW s, NEW e, s \in Seq({s[i] : i \in DOMAIN s}), NEW a, a = Append(s, e)
  PROVE  /\ a \in Seq({a[i] : i \in DOMAIN a}) /\ Len(a) = Len(s) + 1 /\ Len(s) \in Nat
         /\ DOMAIN a = 1 .. Len(s) + 1 /\ DOMAIN s = 1 .. Len(s)
         /\ a[Len(s) + 1] = e /\ \A i \in DOMAIN s : a[i] = s[i]
    OBVIOUS

(* The hosts of a trial's flows are hosts of the trial, and the two ends   *)
(* of a flow differ.                                                       *)
LEMMA FlowHosts ==
    ASSUME MultipathAssumption, NEW t \in Trials
    PROVE  /\ Sources(t) \subseteq HostIds(t) /\ HostIds(t) \subseteq Hosts
           /\ \A k \in DOMAIN Flows[t] :
                 /\ Flows[t][k].source_node \in Sources(t)
                 /\ Flows[t][k].destination_node \in HostIds(t)
                 /\ Flows[t][k].source_node # Flows[t][k].destination_node
<1>1. /\ Sources(t) \subseteq HostIds(t) /\ HostIds(t) \subseteq Hosts
    BY Zenon DEF HostIds, Hosts
<1>2. ASSUME NEW k \in DOMAIN Flows[t]
      PROVE  /\ Flows[t][k].source_node \in Sources(t)
             /\ Flows[t][k].destination_node \in HostIds(t)
             /\ Flows[t][k].source_node # Flows[t][k].destination_node
    <2>1. <<t, k>> \in Ports(t) /\ FlowOf(<<t, k>>) = Flows[t][k]
        BY Zenon DEF Ports, FlowOf
    <2> QED BY Zenon, <2>1 DEF MultipathAssumption, Sources, HostIds
<1> QED BY Zenon, <1>1, <1>2

(* So are the two ends of the flow a port stands for.                      *)
LEMMA PortHosts ==
    ASSUME MultipathAssumption, NEW p \in AllPorts
    PROVE  /\ FlowOf(p).source_node \in Hosts /\ FlowOf(p).destination_node \in Hosts
           /\ p[1] \in Trials /\ p \in Ports(p[1])
    BY FlowHosts DEF AllPorts, Ports, FlowOf

(* No port of a trial stands for a missing file or a missing server.       *)
LEMMA AbsentIsNoPort ==
    ASSUME MultipathAssumption, NEW t \in Trials
    PROVE  ~(Absent \subseteq Ports(t)) /\ Ports(t) \subseteq AllPorts
           /\ ~(Absent \subseteq AllPorts) /\ t # NoSender
    BY DEF MultipathAssumption, Trials, NoSender, AllPorts, Ports, Absent

(* The driver's state and the files keep their types.                      *)
LEMMA TypedKept ==
    ASSUME MultipathAssumption, Typed, [Next]_vars
    PROVE  Typed'
<1> USE DEF driver, network, world, faults, Goto, Visit, Fail, Except
<1>0. /\ NoFiles \in Files /\ {} \in Counts /\ Absent \in Counts
      /\ \A c \in Counts, p \in AllPorts : c \cup {p} \in Counts
    BY DEF NoFiles, NoSender, MultipathAssumption, Files, Counts, Absent
<1>1. CASE AllTrialsOver \/ UNCHANGED vars
    BY Zenon, <1>1 DEF Typed, AllTrialsOver, vars
<1>2. CASE Raise
    BY <1>2 DEF Typed, Raise
<1>3. CASE NextTrial
    BY <1>3 DEF Typed, NextTrial, Trials, MultipathAssumption
<1>4. CASE \E h \in Hosts : start_server(h)
    BY <1>4, <1>0 DEF Typed, start_server
<1>5. CASE \E h \in Hosts : start_clients(h)
    BY <1>5 DEF Typed, start_clients
<1>6. CASE \E h \in Hosts : stop_client(h)
    <2>1. PICK h \in Hosts : stop_client(h)
        BY Zenon, <1>6
    <2>2. remote' \in [Hosts -> Files]
        <3>1. CASE generators[h] = {}
            BY Zenon, <2>1, <3>1 DEF Typed, stop_client, Signalled
        <3>2. CASE generators[h] # {}
            <4>1. PICK t \in generators[h] : remote' = [remote EXCEPT ![h].sender = t]
                BY Zenon, <2>1, <3>2 DEF stop_client, Signalled
            <4>2. generators[h] \subseteq Trials /\ remote[h] \in Files
                BY Zenon DEF Typed
            <4>3. t \in 0 .. MaxTrials
                BY <4>2 DEF Trials, MultipathAssumption
            <4>4. [remote[h] EXCEPT !.sender = t] \in Files
                BY Zenon, <4>2, <4>3 DEF Files
            <4> QED BY Zenon, <4>1, <4>4 DEF Typed
        <3> QED BY Zenon, <3>1, <3>2
    <2> QED BY Zenon, <2>1, <2>2 DEF Typed, stop_client
<1>7. CASE \E h \in Hosts : stop_server(h)
    BY SMTT(30), <1>0, <1>7 DEF Typed, stop_server, Files
<1>8. CASE \E h \in Hosts : retrieve_end_host_results(h)
    BY <1>8 DEF Typed, retrieve_end_host_results, Files
<1>9. CASE \E h \in Hosts : Crash(h)
    BY <1>0, <1>9 DEF Typed, Crash
<1>10. CASE \E i \in DOMAIN Flows[trial], outcome \in {"ok", "refused", "lost"} :
               install_route(i, outcome)
    BY <1>10 DEF Typed, install_route
<1>11. CASE \E k \in DOMAIN Flows[trial] : process_end_host_results(k)
    BY Zenon, <1>11 DEF Typed, process_end_host_results
<1>12. CASE \E p \in AllPorts, outcome \in {"ok", "refused", "raises"} : remove_route(p, outcome)
    BY <1>12 DEF Typed, remove_route, RemovalRaises
<1>13. CASE \E p \in AllPorts : Deliver(p)
    BY <1>13, PortHosts, <1>0 DEF Typed, Deliver
<1> QED
    BY Zenon, <1>1, <1>2, <1>3, <1>4, <1>5, <1>6, <1>7, <1>8, <1>9, <1>10, <1>11, <1>12, <1>13
       DEF Next

(* The loop over the flows, at the k-th: one entry is appended, of the     *)
(* sender's and the receiver's files as they are.                          *)
LEMMA LoopStep ==
    ASSUME MultipathAssumption, Typed, Processed,
           NEW k \in DOMAIN Flows[trial], process_end_host_results(k)
    PROVE  /\ pc = "process"
           /\ UNCHANGED <<trial, leftovers, servers, generators, remote, local, failures, crashes>>
           /\ k \in Nat /\ k <= Len(Flows[trial])
           /\ DOMAIN processed_results = 1 .. k - 1 /\ DOMAIN processed_results' = 1 .. k
           /\ processed_results' \in Seq({processed_results'[j] : j \in DOMAIN processed_results'})
           /\ Len(processed_results') = k
           /\ \A j \in 1 .. k - 1 : processed_results'[j] = processed_results[j]
           /\ processed_results'[k] =
                 FlowResult(Flow(k), Sender(k), Received(k), Range(processed_results))
           /\ \/ pc' = "process" /\ todo' = {k + 1} /\ k < Len(Flows[trial])
              \/ pc' = "remove" /\ ~(k < Len(Flows[trial]))
<1> DEFINE done == processed_results
<1>1. /\ pc = "process" /\ todo = {k}
      /\ UNCHANGED <<trial, leftovers, servers, generators, remote, local, failures, crashes>>
      /\ \/ pc' = "process" /\ todo' = {k + 1} /\ k < Len(Flows[trial])
         \/ pc' = "remove" /\ ~(k < Len(Flows[trial]))
    BY Zenon DEF process_end_host_results, world, faults, Goto
<1>2. PICK e : /\ e = FlowResult(Flow(k), Sender(k), Received(k), Range(processed_results))
               /\ done' = Append(done, e)
    BY Zenon DEF process_end_host_results, Flow, Sender, Received
<1>3. todo = {Len(done) + 1} /\ done \in Seq({done[j] : j \in DOMAIN done})
    BY Zenon, <1>1 DEF Processed
<1>4. k = Len(done) + 1 /\ k <= Len(Flows[trial])
    <2>1. k = Len(done) + 1
        BY Zenon, <1>1, <1>3
    <2> QED BY <2>1 DEF Typed, MultipathAssumption
<1>5. PICK old, new : old = done /\ new = done'
    OBVIOUS
<1>6. /\ Len(old) \in Nat /\ DOMAIN new = 1 .. Len(old) + 1 /\ DOMAIN old = 1 .. Len(old)
      /\ new[Len(old) + 1] = e /\ \A i \in DOMAIN old : new[i] = old[i]
      /\ new \in Seq({new[j] : j \in DOMAIN new}) /\ Len(new) = Len(old) + 1
    BY SMTT(30), <1>2, <1>3, <1>5, Appended
<1>7. /\ k \in Nat /\ DOMAIN done = 1 .. k - 1 /\ DOMAIN done' = 1 .. k
      /\ done'[k] = e /\ \A j \in 1 .. k - 1 : done'[j] = done[j]
      /\ done' \in Seq({done'[j] : j \in DOMAIN done'}) /\ Len(done') = k
    BY <1>4, <1>5, <1>6
<1> QED BY Zenon, <1>1, <1>2, <1>4, <1>7

(* A loop over hosts visits hosts of the trial.  Once a trial was broken   *)
(* off it stays so, and the program breaks off by a fault only.  Nothing   *)
(* but the loop over the flows changes the results or the files they are   *)
(* taken from, one entry for each flow, until the next trial starts        *)
(* without results.                                                        *)
LEMMA DriverSteps ==
    ASSUME MultipathAssumption, Typed, Visits, Processed, [Next]_vars
    PROVE  /\ Visits' /\ Processed'
           /\ leftovers => leftovers'
           /\ pc' \in {"recover", "ended"} => pc \in {"recover", "ended"} \/ Faults' = Faults + 1
           /\ \/ \E k \in DOMAIN Flows[trial] : process_end_host_results(k)
              \/ processed_results' = <<>>
              \/ UNCHANGED <<processed_results, trial, local>>
<1> USE DEF driver, network, world, faults, Goto, Visit, Fail, Except
<1>1. CASE AllTrialsOver \/ UNCHANGED vars
    BY Zenon, <1>1 DEF Visits, Processed, Faults, Typed, AllTrialsOver, vars
<1>2. CASE Raise
    BY <1>2 DEF Visits, Processed, Faults, Typed, Raise
<1>3. CASE NextTrial
    BY <1>3 DEF Visits, Processed, Faults, Typed, NextTrial, MultipathAssumption, Trials
<1>4. CASE \E h \in Hosts : start_server(h)
    BY <1>4 DEF Visits, Processed, Faults, Typed, start_server
<1>5. CASE \E h \in Hosts : start_clients(h)
    BY <1>5 DEF Visits, Processed, Faults, Typed, start_clients
<1>6. CASE \E h \in Hosts : stop_client(h)
    BY <1>6 DEF Visits, Processed, Faults, Typed, stop_client, Signalled
<1>7. CASE \E h \in Hosts : stop_server(h)
    BY <1>7 DEF Visits, Processed, Faults, Typed, stop_server
<1>8. CASE \E h \in Hosts : retrieve_end_host_results(h)
    BY SMTT(30), <1>8 DEF Visits, Processed, Faults, Typed, retrieve_end_host_results, MultipathAssumption
<1>9. CASE \E h \in Hosts : Crash(h)
    BY <1>9 DEF Visits, Processed, Faults, Typed, Crash
<1>10. CASE \E i \in DOMAIN Flows[trial], outcome \in {"ok", "refused", "lost"} :
               install_route(i, outcome)
    BY <1>10 DEF Visits, Processed, Faults, Typed, install_route
<1>11. CASE \E k \in DOMAIN Flows[trial] : process_end_host_results(k)
    <2>1. PICK k \in DOMAIN Flows[trial] : process_end_host_results(k)
        BY Zenon, <1>11
    <2>2. /\ processed_results' \in Seq({processed_results'[j] : j \in DOMAIN processed_results'})
          /\ Len(processed_results') = k /\ k \in Nat /\ k <= Len(Flows[trial])
          /\ UNCHANGED <<trial, leftovers>>
          /\ \/ pc' = "process" /\ todo' = {k + 1} /\ k < Len(Flows[trial])
             \/ pc' = "remove" /\ ~(k < Len(Flows[trial]))
        BY Zenon, <2>1, LoopStep
    <2>3. Len(Flows[trial]) \in Nat
        BY Zenon DEF Typed, MultipathAssumption
    <2>4. Visits' /\ Processed'
        BY <2>2, <2>3 DEF Visits, Processed
    <2> QED BY Zenon, <1>11, <2>2, <2>4
<1>12. CASE \E p \in AllPorts, outcome \in {"ok", "refused", "raises"} : remove_route(p, outcome)
    <2>1. /\ UNCHANGED <<trial, leftovers, local, processed_results>>
          /\ pc \in {"remove", "recover"} /\ pc' \in {"remove", "write", "recover", "ended"}
          /\ pc' \in {"remove", "write"} => pc = "remove"
        BY Zenon, <1>12 DEF remove_route, RemovalRaises
    <2>2. pc' \in {"recover", "ended"} => pc \in {"recover", "ended"} \/ Faults' = Faults + 1
        BY <1>12 DEF remove_route, RemovalRaises, Faults, Typed
    <2> QED BY Zenon, <2>1, <2>2 DEF Visits, Processed
<1>13. CASE \E p \in AllPorts : Deliver(p)
    BY <1>13 DEF Visits, Processed, Faults, Typed, Deliver
<1> QED
    BY Zenon, <1>1, <1>2, <1>3, <1>4, <1>5, <1>6, <1>7, <1>8, <1>9, <1>10, <1>11, <1>12, <1>13
       DEF Next

(* Unless a trial is broken off, its generators and servers are gone when  *)
(* the next one begins, and its servers have counted its own packets only. *)
LEMMA OwnKept ==
    ASSUME MultipathAssumption, Typed, Visits, ~leftovers', [Next]_vars,
           ~leftovers => OwnGenerators /\ OwnServers
    PROVE  OwnGenerators' /\ OwnServers'
<1> USE DEF driver, network, world, faults, Goto, Visit, Fail, Except
<1>1. CASE AllTrialsOver \/ UNCHANGED vars
    BY Zenon, <1>1 DEF OwnGenerators, OwnServers, Typed, Visits, AllTrialsOver, vars
<1>2. CASE Raise
    BY Zenon, <1>2 DEF OwnGenerators, OwnServers, Typed, Visits, Raise
<1>3. CASE NextTrial
    BY Zenon, <1>3 DEF OwnGenerators, OwnServers, Typed, Visits, NextTrial
<1>4. CASE \E h \in Hosts : start_server(h)
    BY <1>4 DEF OwnGenerators, OwnServers, Typed, Visits, start_server
<1>5. CASE \E h \in Hosts : start_clients(h)
    BY <1>5 DEF OwnGenerators, OwnServers, Typed, Visits, start_clients
<1>6. CASE \E h \in Hosts : stop_client(h)
    BY <1>6 DEF OwnGenerators, OwnServers, Typed, Visits, stop_client, Signalled
<1>7. CASE \E h \in Hosts : stop_server(h)
    BY <1>7 DEF OwnGenerators, OwnServers, Typed, Visits, stop_server
<1>8. CASE \E h \in Hosts : retrieve_end_host_results(h)
    BY <1>8 DEF OwnGenerators, OwnServers, Typed, Visits, retrieve_end_host_results
<1>9. CASE \E h \in Hosts : Crash(h)
    BY <1>9 DEF OwnGenerators, OwnServers, Typed, Visits, Crash
<1>10. CASE \E i \in DOMAIN Flows[trial], outcome \in {"ok", "refused", "lost"} :
               install_route(i, outcome)
    BY SMTT(30), <1>10 DEF OwnGenerators, OwnServers, Typed, Visits, install_route
<1>11. CASE \E k \in DOMAIN Flows[trial] : process_end_host_results(k)
    BY <1>11 DEF OwnGenerators, OwnServers, Typed, Visits, process_end_host_results
<1>12. CASE \E p \in AllPorts, outcome \in {"ok", "refused", "raises"} : remove_route(p, outcome)
    BY <1>12 DEF OwnGenerators, OwnServers, Typed, Visits, remove_route, RemovalRaises
<1>13. CASE \E p \in AllPorts : Deliver(p)
    BY <1>13, PortHosts DEF Deliver, OwnGenerators, Typed, OwnServers
<1> QED
    BY Zenon, <1>1, <1>2, <1>3, <1>4, <1>5, <1>6, <1>7, <1>8, <1>9, <1>10, <1>11, <1>12, <1>13
       DEF Next

(* A step makes the file of at most one host missing, and then it is a     *)
(* fault: a process that dies, or a copy that fails.                       *)
LEMMA Missing ==
    ASSUME MultipathAssumption, Typed, Visits, ~leftovers', [Next]_vars,
           ~leftovers => OwnGenerators /\ OwnServers
    PROVE  /\ \/ Faults' = Faults
              \/ Faults' = Faults + 1
           /\ \E x : \A h \in Hosts :
                 /\ SenderMissed(h)' => SenderMissed(h) \/ (h = x /\ Faults' = Faults + 1)
                 /\ ReceiverMissed(h)' => ReceiverMissed(h) \/ (h = x /\ Faults' = Faults + 1)
<1> USE DEF driver, network, world, faults, Goto, Visit, Fail, Except
<1>1. CASE AllTrialsOver \/ UNCHANGED vars
    BY Zenon, <1>1
       DEF SenderMissed, ReceiverMissed, Faults, Typed, Visits, OwnGenerators, OwnServers, AllTrialsOver, vars
<1>2. CASE Raise
    BY SMTT(30), <1>2
       DEF SenderMissed, ReceiverMissed, Faults, Typed, Visits, OwnGenerators, OwnServers, Raise
<1>3. CASE NextTrial
    BY <1>3
       DEF SenderMissed, ReceiverMissed, Faults, Typed, Visits, OwnGenerators, OwnServers, NextTrial
<1>4. CASE \E h \in Hosts : start_server(h)
    <2>1. PICK x \in Hosts : start_server(x)
        BY Zenon, <1>4
    <2>2. Faults' = Faults /\ \A h \in Hosts : ~SenderMissed(h)'
        BY Zenon, <2>1 DEF SenderMissed, Faults, start_server
    <2>3. {} # Absent
        BY Zenon DEF Absent
    <2>4. \A h \in Hosts : ReceiverMissed(h)' => ReceiverMissed(h)
        BY Zenon, <2>1, <2>3 DEF ReceiverMissed, start_server, Typed, Visits
    <2> QED BY Zenon, <2>2, <2>4
<1>5. CASE \E h \in Hosts : start_clients(h)
    BY <1>5
       DEF SenderMissed, ReceiverMissed, Faults, Typed, Visits, OwnGenerators, OwnServers, start_clients
<1>6. CASE \E h \in Hosts : stop_client(h)
    <2>1. PICK x \in Hosts : stop_client(x)
        BY Zenon, <1>6
    <2>2. Faults' = Faults /\ trial' = trial /\ servers' = servers
        BY Zenon, <2>1 DEF Faults, stop_client
    <2>3. \A h \in Hosts : ReceiverMissed(h)' => ReceiverMissed(h)
        BY Zenon, <2>1, <2>2 DEF ReceiverMissed, stop_client, Visits
    <2>4. /\ \A h \in Hosts : h # x => remote'[h] = remote[h] /\ generators'[h] = generators[h]
          /\ trial \in generators[x] => remote'[x].sender = trial
        BY SMTT(30), <2>1 DEF OwnGenerators, stop_client, Signalled, Typed, Files
    <2>5. \A h \in Hosts : SenderMissed(h)' => SenderMissed(h)
        BY <2>1, <2>2, <2>4 DEF SenderMissed, stop_client, Visits
    <2> QED BY Zenon, <2>2, <2>3, <2>5
<1>7. CASE \E h \in Hosts : stop_server(h)
    <2>1. PICK x \in Hosts : stop_server(x)
        BY Zenon, <1>7
    <2>2. Faults' = Faults /\ trial' = trial
        BY Zenon, <2>1 DEF Faults, stop_server
    <2>3. /\ \A h \in Hosts : h # x => remote'[h] = remote[h] /\ servers'[h] = servers[h]
          /\ remote'[x].sender = remote[x].sender
          /\ servers[x] # Absent => remote'[x].receiver = servers[x]
        BY <2>1 DEF stop_server, Typed, Files
    <2>4. \A h \in Hosts : SenderMissed(h)' => SenderMissed(h)
        BY <2>1, <2>2, <2>3, FlowHosts DEF SenderMissed, stop_server, Visits, Typed
    <2>5. \A h \in Hosts : ReceiverMissed(h)' => ReceiverMissed(h)
        BY <2>1, <2>2, <2>3 DEF ReceiverMissed, stop_server, Visits, OwnServers
    <2> QED BY Zenon, <2>2, <2>4, <2>5
<1>8. CASE \E h \in Hosts : retrieve_end_host_results(h)
    BY SMTT(30), <1>8, AbsentIsNoPort DEF retrieve_end_host_results, Typed, Faults, SenderMissed,
       Visits, ReceiverMissed
<1>9. CASE \E h \in Hosts : Crash(h)
    BY SMTT(30), <1>9
       DEF SenderMissed, ReceiverMissed, Faults, Typed, Visits, OwnGenerators, OwnServers, Crash
<1>10. CASE \E i \in DOMAIN Flows[trial], outcome \in {"ok", "refused", "lost"} :
               install_route(i, outcome)
    BY SMTT(30), <1>10
       DEF SenderMissed, ReceiverMissed, Faults, Typed, Visits, OwnGenerators, OwnServers, install_route
<1>11. CASE \E k \in DOMAIN Flows[trial] : process_end_host_results(k)
    BY Zenon, <1>11
       DEF SenderMissed, ReceiverMissed, Faults, Typed, Visits, OwnGenerators, OwnServers, process_end_host_results
<1>12. CASE \E p \in AllPorts, outcome \in {"ok", "refused", "raises"} : remove_route(p, outcome)
    <2>1. UNCHANGED <<trial, servers, generators, remote, local>>
        BY Zenon, <1>12 DEF remove_route
    <2>2. /\ pc \in {"remove", "recover"} /\ pc' \in {"remove", "write", "recover", "ended"}
          /\ pc = "recover" => pc' \in {"recover", "ended"}
        BY Zenon, <1>12 DEF remove_route, RemovalRaises
    <2>3. Faults' = Faults \/ Faults' = Faults + 1
        BY <1>12 DEF remove_route, Faults, Typed
    <2>4. \A h \in Hosts : SenderMissed(h)' => SenderMissed(h)
        BY Zenon, <2>1, <2>2 DEF SenderMissed
    <2>5. \A h \in Hosts : ReceiverMissed(h)' => ReceiverMissed(h)
        BY Zenon, <2>1, <2>2 DEF ReceiverMissed
    <2> QED BY Zenon, <2>3, <2>4, <2>5
<1>13. CASE \E p \in AllPorts : Deliver(p)
    <2>1. PICK p \in AllPorts : Deliver(p)
        BY Zenon, <1>13
    <2>2. Faults' = Faults /\ UNCHANGED <<trial, pc, todo, generators, remote, local>>
        BY Zenon, <2>1 DEF Deliver, Faults
    <2>3. p # <<0, 0>>
        BY PortHosts DEF Trials, MultipathAssumption
    <2>4. \A h \in Hosts : servers'[h] = Absent => servers[h] = Absent
        BY Zenon, <2>1, <2>3 DEF Deliver, Typed, Absent
    <2>5. \A h \in Hosts : SenderMissed(h)' => SenderMissed(h)
        BY Zenon, <2>2 DEF SenderMissed
    <2>6. \A h \in Hosts : ReceiverMissed(h)' => ReceiverMissed(h)
        BY <2>2, <2>4 DEF ReceiverMissed
    <2> QED BY Zenon, <2>2, <2>5, <2>6
<1> QED
    BY Zenon, <1>1, <1>2, <1>3, <1>4, <1>5, <1>6, <1>7, <1>8, <1>9, <1>10, <1>11, <1>12, <1>13
       DEF Next

(* The faults cover the hosts whose files are missing.                     *)
LEMMA AccountedKept ==
    ASSUME MultipathAssumption, Typed, Visits, Processed, ~leftovers', [Next]_vars,
           ~leftovers => OwnGenerators /\ OwnServers /\ Accounted, Faults \in Nat,
           leftovers => leftovers'
    PROVE  Accounted'
    BY Missing, DriverSteps DEF Accounted

INSTANCE WellFoundedInduction

(* A set of natural numbers has a least element.                           *)
LEMMA LeastNat ==
  ASSUME NEW T \in SUBSET Nat, T # {}
  PROVE  \E n \in T : \A m \in T : n <= m
  <1>1. PICK n \in T : \A m \in T : ~ (<<m, n>> \in OpToRel(<, Nat))
      BY Zenon, NatLessThanWellFounded, WFMin
  <1>2. \A m \in T : ~ (m < n)
    BY Zenon, <1>1 DEF OpToRel
  <1>3. \A m \in T : m \in Nat
    OBVIOUS
  <1>4. \A m \in T : n <= m
    BY <1>2, <1>3
  <1> QED
    BY Zenon, <1>4

(* The least member of a set is the one Min chooses.                       *)
LEMMA MinIs ==
    ASSUME NEW S \in SUBSET Nat, NEW m \in S, \A n \in S : m <= n
    PROVE  Min(S) = m
<1>1. Min(S) \in S /\ \A n \in S : Min(S) <= n
    BY Zenon DEF Min
<1>2. PICK n : n = Min(S)
    OBVIOUS
<1>3. n \in Nat /\ m \in Nat /\ n <= m /\ m <= n
    BY Zenon, <1>1, <1>2
<1> QED BY <1>2, <1>3

(* With the sender's file of the trial, the first unused entry of a pair   *)
(* is that of its first flow that was not received; if there is none       *)
(* before the k-th flow, it is the k-th.                                   *)
LEMMA FirstUnused ==
    ASSUME MultipathAssumption, NEW t \in Trials, NEW k \in DOMAIN Flows[t],
           NEW received, NEW used, UsedSoFar(t, k, received, used)
    PROVE  FlowResult(Flows[t][k], t, received, used) =
              IF AllReceived(t, k, received) THEN <<t, k>> ELSE Lost
<1> DEFINE P == Pair(t, k)
<1>1. \A j \in P : Pair(t, j) = P
    BY Zenon DEF Pair, SamePair
<1>2. P \subseteq Nat /\ k \in Nat /\ k \in P
    BY DEF MultipathAssumption, SamePair, Pair
<1>3. \A j \in P : (<<t, j>> \in used) <=> (j < k /\ \A i \in P : i <= j => <<t, i>> \in received)
    BY Zenon, <1>1 DEF UsedSoFar, AllReceived
<1>4. AllReceived(t, k, received) <=> \A i \in P : i <= k => <<t, i>> \in received
    BY Zenon DEF AllReceived
<1>5. PICK found : found = {j \in P : <<t, j>> \notin used}
    BY Zenon
<1>6. Unused(Flows[t][k], t, used) = found
    BY Zenon, <1>5, AbsentIsNoPort DEF Unused, Pair
<1> HIDE DEF P
<1>7. k \in found
    BY <1>2, <1>5, <1>3
<1>8. CASE \A i \in P : i <= k => <<t, i>> \in received
    <2>1. ASSUME NEW j \in found PROVE k <= j
        <3>1. j \in P /\ j \in Nat /\ <<t, j>> \notin used
            BY Zenon, <1>2, <1>5
        <3>2. CASE j < k
            BY <1>2, <1>8, <3>1, <3>2, <1>3
        <3> QED BY <1>2, <3>1, <3>2
    <2>2. Min(found) = k
        BY Zenon, <1>2, <1>5, <1>7, <2>1, MinIs
    <2> QED BY <1>2, <1>6, <1>7, <1>8, <1>4, <2>2 DEF FlowResult
<1>9. CASE \E i \in P : i <= k /\ <<t, i>> \notin received
    <2>1. PICK lost : lost = {i \in P : <<t, i>> \notin received}
        BY Zenon
    <2>2. lost \in SUBSET Nat /\ lost # {}
        BY Zenon, <1>2, <1>9, <2>1
    <2>3. PICK j \in lost : \A i \in lost : j <= i
        BY Zenon, <2>2, LeastNat
    <2>4. j \in P /\ j <= k /\ <<t, j>> \notin received /\ j \in found /\ j \in Nat
        <3>1. j \in P /\ <<t, j>> \notin received /\ j \in Nat /\ j <= j
            BY Zenon, <1>2, <2>1, <2>3
        <3>2. j <= k
            BY <1>2, <1>9, <2>1, <2>3, <3>1
        <3>3. <<t, j>> \notin used
            BY Zenon, <1>3, <3>1
        <3> QED BY Zenon, <1>5, <3>1, <3>2, <3>3
    <2>5. ASSUME NEW i \in found PROVE j <= i
        BY <1>2, <1>5, <2>1, <2>3, <2>4, <1>3
    <2>6. Min(found) = j
        BY Zenon, <1>2, <1>5, <2>4, <2>5, MinIs
    <2> QED BY Zenon, <1>6, <1>9, <1>4, <2>4, <2>6 DEF FlowResult
<1> QED BY Zenon, <1>8, <1>9

(* The entry the loop appends for the k-th flow.                           *)
LEMMA NewResult ==
    ASSUME MultipathAssumption, Typed, Processed, Results,
           NEW k \in DOMAIN Flows[trial], process_end_host_results(k), NEW e,
           e = FlowResult(Flow(k), Sender(k), Received(k), Range(processed_results))
    PROVE  /\ e = Lost \/
                /\ Sender(k) # NoSender /\ e \in Received(k)
                /\ \E i \in DOMAIN Flows[Sender(k)] :
                      e = <<Sender(k), i>> /\ SamePair(Flows[Sender(k)][i], Flow(k))
           /\ Sender(k) = trial =>
                e = IF AllReceived(trial, k, Received(k)) THEN <<trial, k>> ELSE Lost
<1> DEFINE done == processed_results
           used == Range(done)
<1>1. k \in Nat /\ DOMAIN done = 1 .. k - 1
    BY Zenon, LoopStep
<1>2. trial \in Trials /\ trial # NoSender /\ trial # 0
    BY Zenon, AbsentIsNoPort DEF Typed, NoSender
<1>3. \A j \in DOMAIN Flows[trial] : j \in Nat /\ j >= 1
    BY <1>2 DEF MultipathAssumption
<1>4. e = Lost \/
        /\ Sender(k) # NoSender /\ e \in Received(k)
        /\ \E i \in DOMAIN Flows[Sender(k)] :
              e = <<Sender(k), i>> /\ SamePair(Flows[Sender(k)][i], Flow(k))
    <2>1. PICK found : found = Unused(Flow(k), Sender(k), used)
        OBVIOUS
    <2>2. CASE e # Lost
        <3>1. found # {} /\ e = <<Sender(k), Min(found)>> /\ e \in Received(k)
            BY Zenon, <2>1, <2>2 DEF FlowResult
        <3>2. Sender(k) # NoSender
              /\ found = {i \in DOMAIN Flows[Sender(k)] : SamePair(Flows[Sender(k)][i], Flow(k))
                                                         /\ <<Sender(k), i>> \notin used}
            BY ZenonT(30), <2>1, <3>1 DEF Unused
        <3>3. Sender(k) \in Trials
            <4>1. Flow(k).source_node \in Hosts
                BY Zenon, FlowHosts, <1>2 DEF Flow
            <4>2. local[Flow(k).source_node] \in Files
                BY Zenon, <4>1 DEF Typed
            <4> QED BY <4>2, <3>2 DEF Sender, Files, Trials, NoSender
        <3>4. found \in SUBSET Nat
            BY <3>2, <3>3 DEF MultipathAssumption
        <3>5. PICK m \in found : \A n \in found : m <= n
            BY Zenon, <3>1, <3>4, LeastNat
        <3>6. Min(found) \in found
            BY Zenon, <3>4, <3>5, MinIs
        <3> QED BY Zenon, <3>1, <3>2, <3>6
    <2> QED BY Zenon, <2>2
<1>5. ASSUME Sender(k) = trial
      PROVE  e = IF AllReceived(trial, k, Received(k)) THEN <<trial, k>> ELSE Lost
    <2>1. ASSUME NEW j \in Pair(trial, k)
          PROVE  Sender(j) = trial /\ Received(j) = Received(k) /\ j \in DOMAIN Flows[trial]
        BY Zenon, <1>5 DEF Pair, SamePair, Sender, Received, Flow
    <2>2. ASSUME NEW j \in Pair(trial, k), j < k
          PROVE  done[j] = IF AllReceived(trial, j, Received(k)) THEN <<trial, j>> ELSE Lost
        BY SMTT(30), <1>1, <1>3, <2>1, <2>2 DEF Results, InOrder
    <2>3. ASSUME NEW j \in Pair(trial, k), <<trial, j>> \in used
          PROVE  j < k /\ done[j] = <<trial, j>>
        BY <2>3, <1>2, <1>1 DEF Range, Lost, Results, Entry, InOrder
    <2>4. ASSUME NEW j \in Pair(trial, k), j < k, AllReceived(trial, j, Received(k))
          PROVE  <<trial, j>> \in used
        <3>1. done[j] = <<trial, j>>
            BY Zenon, <2>2, <2>4
        <3>2. j \in DOMAIN done
            BY SMTT(30), <1>1, <1>3, <2>1, <2>4
        <3> QED BY Zenon, <3>1, <3>2 DEF Range
    <2>5. ASSUME NEW j \in Pair(trial, k), <<trial, j>> \in used
          PROVE  j < k /\ AllReceived(trial, j, Received(k))
        BY <1>2, <2>3, <2>5, <2>2 DEF Lost
    <2>6. UsedSoFar(trial, k, Received(k), used)
        BY Zenon, <2>4, <2>5 DEF UsedSoFar
    <2>7. e = FlowResult(Flows[trial][k], trial, Received(k), used)
        BY Zenon, <1>5 DEF Flow
    <2> HIDE DEF used
    <2> QED BY Zenon, <1>2, <2>6, <2>7, FirstUnused
<1> QED BY Zenon, <1>4, <1>5

(* What the loop appends, in terms of the invariant.                       *)
LEMMA Extended ==
    ASSUME MultipathAssumption, Typed, Processed, Results,
           NEW k \in DOMAIN Flows[trial], process_end_host_results(k)
    PROVE  /\ DOMAIN processed_results' = 1 .. k /\ k \in Nat
           /\ \A j \in 1 .. k - 1 : j \in DOMAIN processed_results
                                    /\ processed_results'[j] = processed_results[j]
           /\ trial' = trial /\ local' = local /\ pc = "process"
           /\ Entry(k)' /\ InOrder(k)'
<1>1. /\ pc = "process" /\ trial' = trial /\ local' = local /\ k \in Nat
      /\ DOMAIN processed_results = 1 .. k - 1 /\ DOMAIN processed_results' = 1 .. k
      /\ \A j \in 1 .. k - 1 : processed_results'[j] = processed_results[j]
    BY Zenon, LoopStep
<1>2. PICK e : /\ e = FlowResult(Flow(k), Sender(k), Received(k), Range(processed_results))
               /\ processed_results'[k] = e
    BY Zenon, LoopStep
<1>8. /\ e = Lost \/
           /\ Sender(k) # NoSender /\ e \in Received(k)
           /\ \E i \in DOMAIN Flows[Sender(k)] :
                 e = <<Sender(k), i>> /\ SamePair(Flows[Sender(k)][i], Flow(k))
      /\ Sender(k) = trial =>
           e = IF AllReceived(trial, k, Received(k)) THEN <<trial, k>> ELSE Lost
    BY Zenon, <1>2, NewResult
<1>9. Sender(k)' = Sender(k) /\ Received(k)' = Received(k) /\ Flow(k)' = Flow(k)
    BY Zenon, <1>1 DEF Sender, Received, Flow
<1>10. Entry(k)'
    BY Zenon, <1>2, <1>8, <1>9 DEF Entry
<1>11. InOrder(k)'
    BY Zenon, <1>1, <1>2, <1>8, <1>9 DEF InOrder
<1> QED BY Zenon, <1>1, <1>10, <1>11

(* The entries stay as the sender's and the receiver's files give them.    *)
LEMMA ResultsKept ==
    ASSUME MultipathAssumption, Typed, Visits, Processed, Results, [Next]_vars
    PROVE  Results'
<1>1. ASSUME NEW k \in DOMAIN Flows[trial], process_end_host_results(k)
      PROVE  Results'
    <2>1. /\ DOMAIN processed_results' = 1 .. k /\ k \in Nat /\ Entry(k)' /\ InOrder(k)'
          /\ \A j \in 1 .. k - 1 : j \in DOMAIN processed_results
                                   /\ processed_results'[j] = processed_results[j]
          /\ trial' = trial /\ local' = local
        BY Zenon, <1>1, Extended
    <2>2. ASSUME NEW j \in DOMAIN processed_results' PROVE Entry(j)' /\ InOrder(j)'
        <3>1. CASE j = k
            BY Zenon, <2>1, <3>1
        <3>2. CASE j # k
            <4>1. j \in 1 .. k - 1
                BY <2>1, <3>2
            <4>2. Entry(j) /\ InOrder(j) /\ processed_results'[j] = processed_results[j]
                BY Zenon, <2>1, <4>1 DEF Results
            <4>3. Sender(j)' = Sender(j) /\ Received(j)' = Received(j) /\ Flow(j)' = Flow(j)
                BY Zenon, <2>1 DEF Sender, Received, Flow
            <4> QED BY Zenon, <2>1, <4>2, <4>3 DEF Entry, InOrder
        <3> QED BY Zenon, <3>1, <3>2
    <2> QED BY Zenon, <2>2 DEF Results
<1>2. CASE processed_results' = <<>>
    BY <1>2 DEF Results
<1>3. CASE UNCHANGED <<processed_results, trial, local>>
    BY Zenon, <1>3 DEF Results, Entry, InOrder, Sender, Received, Flow
<1> QED BY Zenon, <1>1, <1>2, <1>3, DriverSteps

(* A stale entry takes a stale sender's file and a stale receiver's file,  *)
(* of two different hosts.                                                 *)
LEMMA TwoFaultsKept ==
    ASSUME MultipathAssumption, Typed, Visits, Processed, Results, [Next]_vars, ~leftovers',
           ~leftovers, OwnGenerators, OwnServers, Accounted, TwoFaults, Faults \in Nat
    PROVE  TwoFaults'
<1>0. Faults' \in Nat /\ Faults' >= Faults
    BY Missing
<1>1. ASSUME NEW k \in DOMAIN Flows[trial], process_end_host_results(k)
      PROVE  TwoFaults'
    <2>1. /\ DOMAIN processed_results' = 1 .. k /\ k \in Nat /\ Entry(k)' /\ InOrder(k)'
          /\ \A j \in 1 .. k - 1 : j \in DOMAIN processed_results
                                   /\ processed_results'[j] = processed_results[j]
          /\ trial' = trial /\ local' = local /\ pc = "process"
        BY Zenon, <1>1, Extended
    <2>2. ASSUME NEW j \in 1 .. k - 1, Stale(j)' PROVE Faults' >= 2
        BY <1>0, <2>1, <2>2 DEF Stale, TwoFaults
    <2>3. ASSUME Stale(k)' PROVE Faults' >= 2
        <3> DEFINE src == Flow(k).source_node
                   dst == Flow(k).destination_node
        <3>1. /\ Sender(k)' = Sender(k) /\ Received(k)' = Received(k)
              /\ trial \in Trials
            BY Zenon, <2>1 DEF Sender, Received, Flow, Typed
        <3>2. Sender(k) # trial
            BY Zenon, <2>1, <2>3, <3>1 DEF InOrder, Stale
        <3>3. PICK i : processed_results'[k] = <<Sender(k), i>> /\ <<Sender(k), i>> \in Received(k)
            BY Zenon, <2>1, <2>3, <3>1 DEF Entry, Stale
        <3>4. <<Sender(k), i>> \notin Ports(trial)
            BY Zenon, <3>2 DEF Ports
        <3>5. src \in Sources(trial) /\ dst \in HostIds(trial) /\ src # dst
              /\ src \in Hosts /\ dst \in Hosts
            BY Zenon, <3>1, FlowHosts DEF Flow
        <3>6. SenderMissed(src)
            BY Zenon, <2>1, <3>2, <3>5 DEF SenderMissed, Sender
        <3>7. ReceiverMissed(dst)
            BY Zenon, <2>1, <3>3, <3>4, <3>5 DEF ReceiverMissed, Received
        <3>8. Faults >= 2
            BY Zenon, <3>5, <3>6, <3>7 DEF Accounted
        <3> QED BY <1>0, <3>8
    <2>4. \A j \in 1 .. k : j = k \/ j \in 1 .. k - 1
        BY <2>1
    <2> QED BY Zenon, <2>1, <2>2, <2>3, <2>4 DEF TwoFaults
<1>2. CASE processed_results' = <<>>
    BY <1>2 DEF TwoFaults
<1>3. CASE UNCHANGED <<processed_results, trial, local>>
    BY <1>0, <1>3 DEF TwoFaults, Stale
<1> QED BY Zenon, <1>1, <1>2, <1>3, DriverSteps

(* The invariant holds when the program is started, ...                    *)
LEMMA MInvInitially ==
    ASSUME MultipathAssumption, Init
    PROVE  MInv
<1>1. 1 \in Trials /\ NoFiles \in Files /\ Absent \in Counts
    BY DEF MultipathAssumption, Trials, Files, Counts, NoFiles, NoSender, Absent
<1>2. Typed
    BY Zenon, <1>1 DEF Init, Typed
<1>3. Visits /\ OwnGenerators /\ OwnServers
    BY Zenon DEF Init, Visits, OwnGenerators, OwnServers
<1>4. Accounted
    BY Zenon DEF Init, Accounted, SenderMissed, ReceiverMissed
<1>5. Processed
    BY <1>1 DEF Init, Processed, MultipathAssumption
<1>6. Results /\ TwoFaults
    BY DEF Init, Results, TwoFaults
<1> QED BY Zenon, <1>2, <1>3, <1>4, <1>5, <1>6 DEF MInv

(* ... and every step of the driver, the network and the hosts keeps it.   *)
LEMMA MInvKept ==
    ASSUME MultipathAssumption, MInv, [Next]_vars
    PROVE  MInv'
    BY TypedKept, DriverSteps, ResultsKept, OwnKept, AccountedKept, TwoFaultsKept DEF MInv,
       Typed, Faults

(* Without two faults, and unless an earlier run was broken off, the       *)
(* results of a trial are its own: whatever the flows, the hosts and the   *)
(* number of trials, process_end_host_results takes the counts of an       *)
(* earlier trial only when the sender's file of one host and the           *)
(* receiver's file of another are both stale.                              *)
THEOREM StaleResults ==
    ASSUME MultipathAssumption
    PROVE  Spec => []StaleNeedsTwoFaults
<1>1. MInv => StaleNeedsTwoFaults
    BY DEF StaleNeedsTwoFaults, MInv, TwoFaults, Stale, Typed, Faults
<1> QED BY <1>1, MInvInitially, MInvKept, PTL DEF Spec

(* Without a fault, process_end_host_results reports every flow under its  *)
(* own index, and a flow exactly when it and all flows of its pair before  *)
(* it have been received.                                                  *)
THEOREM ResultsInOrder ==
    ASSUME MultipathAssumption
    PROVE  Spec => []ReportedInOrder
<1>1. MInv => ReportedInOrder
    <2> SUFFICES ASSUME MInv, ~leftovers, failures + crashes = 0
                 PROVE  ReportedInOrder
        BY Zenon DEF ReportedInOrder
    <2>1. /\ Typed /\ Processed /\ Results /\ Accounted /\ trial \in Trials /\ Faults = 0
        BY Zenon DEF MInv, Typed, Faults
    <2>2. /\ \A h \in Hosts : ~SenderMissed(h)
          /\ pc \notin {"recover", "ended"}
        BY <2>1 DEF Accounted
    <2>3. DOMAIN processed_results = 1 .. Len(processed_results) /\ Len(processed_results) \in Nat
        BY <2>1 DEF Processed
    <2>4. Len(Flows[trial]) \in Nat /\ DOMAIN Flows[trial] = 1 .. Len(Flows[trial])
        BY Zenon, <2>1 DEF MultipathAssumption
    <2>5. pc \in {"remove", "write"} => DOMAIN processed_results = DOMAIN Flows[trial]
        BY Zenon, <2>1, <2>3, <2>4 DEF Processed
    <2>6. ASSUME NEW k \in DOMAIN processed_results
          PROVE  processed_results[k] =
                    IF \A j \in {j \in 1 .. k : SamePair(Flow(j), Flow(k))} : <<trial, j>> \in Received(k)
                    THEN <<trial, k>> ELSE Lost
        <3>1. k \in DOMAIN Flows[trial] /\ processed_results # <<>>
            BY <2>1, <2>3, <2>4 DEF Processed
        <3>2. pc \in {"process", "remove", "write"}
            BY Zenon, <2>1, <2>2, <3>1 DEF Processed, Typed
        <3>3. Flow(k).source_node \in Sources(trial) /\ Flow(k).source_node \in Hosts
            BY Zenon, <2>1, <3>1, FlowHosts DEF Flow
        <3>4. Sender(k) = trial
            BY Zenon, <2>2, <3>2, <3>3 DEF SenderMissed, Sender
        <3>5. processed_results[k] = IF AllReceived(trial, k, Received(k)) THEN <<trial, k>> ELSE Lost
            BY Zenon, <2>1, <3>4 DEF Results, InOrder
        <3>6. {j \in 1 .. k : SamePair(Flow(j), Flow(k))} = {j \in Pair(trial, k) : j <= k}
            BY <2>4, <3>1 DEF Pair, Flow
        <3>7. AllReceived(trial, k, Received(k)) <=>
                  \A j \in {j \in Pair(trial, k) : j <= k} : <<trial, j>> \in Received(k)
            BY Zenon DEF AllReceived
        <3> QED BY Zenon, <3>5, <3>6, <3>7
    <2> QED BY Zenon, <2>5, <2>6 DEF ReportedInOrder, Received, Flow
<1> QED BY <1>1, MInvInitially, MInvKept, PTL DEF Spec
=============================================================================
