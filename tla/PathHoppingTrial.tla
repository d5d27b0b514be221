-------------------------- MODULE PathHoppingTrial --------------------------
(***************************************************************************)
(* A run of path_hopping.py on the testbed: the trials of a provider are   *)
(* conducted one after the other.  A trial creates the virtual hosts,      *)
(* starts their servers, installs the flows, starts the controller's       *)
(* monitor and the clients, sleeps, stops the monitor and records the      *)
(* results; its `finally` destroys the hosts and removes the flows.  Any   *)
(* call may raise, and then control goes to the except/finally blocks with *)
(* whatever the trial had acquired by then.                                *)
(*                                                                         *)
(* pc names the statement the program is at; i is the host or flow a loop  *)
(* is at.  A trial's own variables (hosts, flow_tokens, tag_values,        *)
(* configured) are local to conduct_path_hopping_trial and start afresh.   *)
(***************************************************************************)
EXTENDS VirtualHost, FiniteSets

CONSTANTS Flows,        \* the trial's flow-set: a sequence of [source, destination, paths]
          MaxFailures   \* bound on the calls that fail in a run

NumFlows == Cardinality(DOMAIN Flows)
FlowIds == 1 .. NumFlows

ASSUME TrialAssumption ==
    /\ MaxFailures \in Nat
    /\ NumFlows \in Nat
    /\ Flows \in [FlowIds -> [source : Hosts, destination : Hosts, paths : Nat \ {0}]]

VARIABLES trial, pc, i, failures,
          hosts,        \* hosts[host_id] entries of this trial
          flow_tokens,  \* flows whose token this trial holds
          tag_values,   \* next tag for a (source, destination) pair
          configured,   \* hosts with at least one configured flow
          routes,       \* at the controller: [trial, flow, tags]
          monitors,     \* at the controller: trials whose monitor is running
          results,      \* trials whose measurements were recorded
          custody       \* "lost" once a resource was lost track of (see Acquire, Release)

localVars == <<hosts, flow_tokens, tag_values, configured>>
worldVars == <<hostVars, routes, monitors>>
vars == <<trial, pc, i, failures, localVars, worldVars, results, custody>>

Pairs == Hosts \X Hosts
Pair(k) == <<Flows[k].source, Flows[k].destination>>
Running == {"server", "route", "monitor", "client", "sleep", "results"}

(* A call that raises uses up one of the failures the run allows.          *)
Call(o) ==
    /\ Raises(o) => failures < MaxFailures
    /\ failures' = IF Raises(o) THEN failures + 1 ELSE failures

(* A resource is lost track of when a call acquires it and raises, or when *)
(* a call that releases one raises: its handler goes on to the next one.   *)
Acquire(o) == Call(o) /\ custody' = IF o = "lost" THEN "lost" ELSE custody
Release(o) == Call(o) /\ custody' = IF Raises(o) THEN "lost" ELSE custody

(* Control.  raise is the except block and the start of finally; a loop    *)
(* over the hosts or the flows ends at n.                                  *)
goto(p) == pc' = p /\ i' = 1
raise == goto("uninstall")
advance(n, p) == IF i < n THEN i' = i + 1 /\ UNCHANGED pc ELSE goto(p)

FreshLocals ==
    /\ hosts' = {}
    /\ flow_tokens' = {}
    /\ tag_values' = [p \in Pairs |-> 0]
    /\ configured' = {}

Init ==
    /\ HostInit
    /\ trial = 1 /\ pc = "topo" /\ i = 1 /\ failures = 0
    /\ hosts = {} /\ flow_tokens = {} /\ configured = {}
    /\ tag_values = [p \in Pairs |-> 0]
    /\ routes = {} /\ monitors = {} /\ results = {}
    /\ custody = "kept"

(* get_and_validate_onos_topo_x only reads.                                *)
GetTopology(o) ==
    /\ pc = "topo" /\ o # "lost"
    /\ Call(o)
    /\ IF Raises(o) THEN raise ELSE goto("address")
    /\ UNCHANGED <<trial, localVars, worldVars, results, custody>>

AddAddress(o) ==
    /\ pc = "address"
    /\ _initialize_local_network_interface(trial, i, o)
    /\ IF addresses[i] # 0 THEN UNCHANGED <<failures, custody>> ELSE Acquire(o)
    /\ IF Raises(o) THEN raise ELSE pc' = "install" /\ UNCHANGED i
    /\ UNCHANGED <<trial, localVars, routes, monitors, results>>

(* The second call.  Once it returned, host i is in hosts.                 *)
CreateVirtualHost(o) ==
    /\ pc = "install"
    /\ Acquire(o)
    /\ _install_virtual_host(trial, i, o)
    /\ IF Raises(o)
       THEN pc' = "undo" /\ UNCHANGED <<i, hosts>>
       ELSE /\ hosts' = hosts \cup {i}
            /\ IF i < NumHosts THEN pc' = "address" /\ i' = i + 1 ELSE goto("server")
    /\ UNCHANGED <<trial, flow_tokens, tag_values, configured, routes, monitors, results>>

(* Its except block.  Whether the removal raises or not, the exception     *)
(* leaves create_virtual_hosts through destroy_all_hosts.                  *)
AddressNotUndone(o) ==  \* mutant: the except block only raises
    /\ pc = "undo" /\ o = "ok"
    /\ raise
    /\ UNCHANGED <<trial, failures, localVars, worldVars, results, custody>>
UndoAddress(o) ==
    /\ pc = "undo"
    /\ Release(o)
    /\ _remove_local_network_interface(i, o)
    /\ raise
    /\ UNCHANGED <<trial, localVars, routes, monitors, results>>

StartServer(o) ==
    /\ pc = "server"
    /\ Call(o)
    /\ start_traffic_generation(trial, i, "server", o)
    /\ IF Raises(o) THEN raise ELSE advance(NumHosts, IF NumFlows = 0 THEN "monitor" ELSE "route")
    /\ UNCHANGED <<trial, localVars, routes, monitors, results, custody>>

InstallFlow(o) ==
    LET tag == tag_values[Pair(i)]
        next_tag == tag + Flows[i].paths
    IN  /\ pc = "route"
        /\ Acquire(o)
        /\ tag_values' = [tag_values EXCEPT ![Pair(i)] = next_tag]
        /\ routes' = IF TakesEffect(o)
                     THEN routes \cup {[trial |-> trial, flow |-> i, tags |-> tag .. next_tag - 1]}
                     ELSE routes
        /\ IF Raises(o)
           THEN raise /\ UNCHANGED <<flow_tokens, configured>>
           ELSE /\ flow_tokens' = flow_tokens \cup {i}
                /\ configured' = configured \cup {Flows[i].source}
                /\ advance(NumFlows, "monitor")
        /\ UNCHANGED <<trial, hosts, hostVars, monitors, results>>

(* OnMonitor is created for the trial, so it holds no token yet.           *)
start_monitor(o) ==
    /\ pc = "monitor"
    /\ Call(o)
    /\ monitors' = IF TakesEffect(o) THEN monitors \cup {trial} ELSE monitors
    /\ IF Raises(o) THEN raise ELSE goto("client")
    /\ UNCHANGED <<trial, localVars, hostVars, routes, results, custody>>

(* A host without flows starts no client.                                  *)
StartClient(o) ==
    /\ pc = "client"
    /\ Call(o)
    /\ IF i \in configured THEN start_traffic_generation(trial, i, "client", o)
                           ELSE o = "ok" /\ UNCHANGED hostVars
    /\ IF Raises(o) THEN raise ELSE advance(NumHosts, "sleep")
    /\ UNCHANGED <<trial, localVars, routes, monitors, results, custody>>

stop_monitor(o) ==
    /\ pc = "sleep"
    /\ Call(o)
    /\ monitors' = IF TakesEffect(o) THEN monitors \ {trial} ELSE monitors
    /\ IF Raises(o) THEN raise ELSE goto("results")
    /\ UNCHANGED <<trial, localVars, hostVars, routes, results, custody>>

(* get_monitor_statistics and the add_parameter calls, which raise when    *)
(* the counters cannot be reduced to utilisations; finally follows either  *)
(* way.                                                                    *)
AddResults(o) ==
    /\ pc = "results" /\ o # "lost"
    /\ Call(o)
    /\ results' = IF Raises(o) THEN results ELSE results \cup {trial}
    /\ goto("uninstall")
    /\ UNCHANGED <<trial, localVars, worldVars, custody>>

nextHost == IF i < NumHosts THEN pc' = "uninstall" /\ i' = i + 1 ELSE goto("routes")

SkipHost ==
    /\ pc = "uninstall" /\ i \notin hosts
    /\ nextHost
    /\ UNCHANGED <<trial, failures, localVars, worldVars, results, custody>>

UninstallHost(o) ==
    /\ pc = "uninstall" /\ i \in hosts
    /\ Release(o)
    /\ _uninstall_virtual_host(trial, i, o)
    /\ IF Raises(o) THEN nextHost ELSE pc' = "remove" /\ UNCHANGED i
    /\ UNCHANGED <<trial, localVars, routes, monitors, results>>

RemoveAddress(o) ==
    /\ pc = "remove"
    /\ Release(o)
    /\ _remove_local_network_interface(i, o)
    /\ IF Raises(o) THEN nextHost ELSE pc' = "stop" /\ UNCHANGED i
    /\ UNCHANGED <<trial, localVars, routes, monitors, results>>

StopProcesses ==
    /\ pc = "stop"
    /\ stop_traffic_generation(trial, i)
    /\ nextHost
    /\ UNCHANGED <<trial, failures, localVars, routes, monitors, results, custody>>

(* remove_all_flows: one request per token the trial holds.                *)
RemoveFlow(k, o) ==
    /\ pc = "routes" /\ k \in flow_tokens
    /\ Release(o)
    /\ routes' = IF TakesEffect(o) THEN {r \in routes : ~(r.trial = trial /\ r.flow = k)}
                                   ELSE routes
    /\ flow_tokens' = flow_tokens \ {k}
    /\ UNCHANGED <<trial, pc, i, hosts, tag_values, configured, hostVars, monitors, results>>

(* main's loop goes on to the next trial, or writes the provider and ends. *)
EndTrial ==
    /\ pc = "routes" /\ flow_tokens = {}
    /\ FreshLocals
    /\ IF trial < NumTrials THEN trial' = trial + 1 /\ goto("topo")
                            ELSE UNCHANGED trial /\ goto("done")
    /\ UNCHANGED <<failures, worldVars, results, custody>>

Finished == pc = "done" /\ UNCHANGED vars

Setup(o) == \/ GetTopology(o) \/ AddAddress(o) \/ CreateVirtualHost(o) \/ UndoAddress(o)
            \/ StartServer(o) \/ InstallFlow(o)
Measure(o) == start_monitor(o) \/ StartClient(o) \/ stop_monitor(o) \/ AddResults(o)
Cleanup(o) == UninstallHost(o) \/ RemoveAddress(o) \/ \E k \in FlowIds : RemoveFlow(k, o)
Next == \/ \E o \in Outcomes : Setup(o) \/ Measure(o) \/ Cleanup(o)
        \/ SkipHost \/ StopProcesses \/ EndTrial \/ Finished

Spec == Init /\ [][Next]_vars

(* The program never waits for anyone: every call returns or raises, and   *)
(* the prompt after a failure is answered.                                 *)
FairSpec == Spec /\ WF_vars(Next)
----------------------------------------------------------------------------
(* Every variable has its type.                                            *)
TypeOK ==
    /\ HostTypeOK
    /\ trial \in Trials
    /\ pc \in Running \cup {"topo", "address", "install", "undo", "uninstall", "remove", "stop",
                            "routes", "done"}
    /\ i \in 1 .. NumHosts + NumFlows
    /\ failures \in 0 .. MaxFailures
    /\ hosts \subseteq Hosts
    /\ flow_tokens \subseteq FlowIds
    /\ tag_values \in [Pairs -> Nat]
    /\ configured \subseteq Hosts
    /\ \A r \in routes : r.trial \in Trials /\ r.flow \in FlowIds /\ r.tags \subseteq Nat
    /\ monitors \subseteq Trials
    /\ results \subseteq Trials
    /\ custody \in {"kept", "lost"}

(* Wherever a trial fails on its way up, what it had acquired is given     *)
(* back: between two trials, and at the end of main, no address, virtual   *)
(* host, route or process of any trial is left, unless a release itself    *)
(* failed or an acquired resource's answer was lost.                       *)
NothingLeftBehind ==
    pc \in {"topo", "done"} /\ custody = "kept" =>
        /\ \A h \in Hosts : addresses[h] = 0
        /\ virtual_hosts = {} /\ processes = {} /\ routes = {}

(* A trial sends traffic only from hosts it set up itself: from the first  *)
(* server to the recording of the results, every host has this trial's     *)
(* address and this trial's entry in the controller's table, never one     *)
(* left by an earlier trial.                                               *)
RunsOnOwnHosts ==
    pc \in Running => \A h \in Hosts : addresses[h] = trial /\ <<trial, h>> \in virtual_hosts

(* An address that a trial left behind stops every later one: no trial     *)
(* after the one that leaked it has results.                               *)
LeakStopsLaterTrials ==
    \A h \in Hosts : addresses[h] # 0 => \A t \in results : t <= addresses[h]

(* The cleanup of a trial never removes what another trial put there: an   *)
(* address, table entry or process of an earlier trial stays.              *)
KeepsOthersResources ==
    [][/\ \A h \in Hosts : addresses[h] \notin {0, trial} => addresses'[h] = addresses[h]
       /\ \A v \in virtual_hosts : v[1] # trial => v \in virtual_hosts'
       /\ \A p \in processes : p[1] # trial => p \in processes']_vars

(* A trial's measurements are recorded only once its monitor has stopped,  *)
(* and a monitor left running belongs to a trial without results.          *)
MeasuredTrialsStopped == monitors \cap results = {}

(* Two flows a trial installs between the same two hosts never share a     *)
(* tag, installs that raised included: the switches tell them apart.       *)
TagsDistinct ==
    \A r, s \in routes :
        r # s /\ r.trial = s.trial /\ Pair(r.flow) = Pair(s.flow) => r.tags \cap s.tags = {}

(* What the run looks like from outside: whatever exists outside the       *)
(* program, with the trial it belongs to, and what recording needs.        *)
Held ==
    {<<addresses[h], <<"address", h>>>> : h \in {k \in Hosts : addresses[k] # 0}}
    \cup {<<v[1], <<"virtual_host", v[2]>>>> : v \in virtual_hosts}
    \cup {<<p[1], <<p[3], p[2]>>>> : p \in processes}
    \cup {<<r.trial, <<"route", r.flow>>>> : r \in routes}

Stage == IF pc \in Running \cup {"topo", "address", "install"} THEN "up"
         ELSE IF pc = "done" THEN "over" ELSE "down"

L == INSTANCE TrialLifecycle WITH
        Needed <- {"address", "virtual_host"} \X Hosts,
        current <- trial, stage <- Stage, held <- Held, watched <- monitors,
        measured <- results, faults <- failures

(* The run keeps the promise of a trial program.  Wherever a call raises,  *)
(* finally gives back all that is the trial's and nothing of another       *)
(* trial's before the next one starts, unless a call lost track of it;     *)
(* and although stop_monitor is not in finally, a trial whose monitor is   *)
(* still running, or that lacks a host, records no results.                *)
Lifecycle == L!Spec

(* Every run ends: however the calls fail, main gets through all trials.   *)
RunEnds == <>(pc = "done")
============================================================================
