--------------------------- MODULE MultipathTrial ---------------------------
(***************************************************************************)
(* The multipath routing trials of mp_routing.py: conduct_onos_trial, call *)
(* by call, with the routes OnosRouteAdder installs, the traffic processes *)
(* and result files of TrafficGenHost, and process_end_host_results.  An   *)
(* exception removes the routes and ends the program; whoever runs the     *)
(* trials starts the program again.                                        *)
(*                                                                         *)
(* A port stands for the flow whose generator drew it: the ports of        *)
(* different flows are different.                                          *)
(***************************************************************************)
EXTENDS Integers, Sequences, FiniteSets, FiniteSetsExt, Functions

CONSTANTS MaxTrials,
          Flows,        \* for each trial, its flows in order: source_node,
                        \* destination_node and the number of paths
          MaxFailures,  \* bound: calls that raise or are refused
          MaxCrashes    \* bound: traffic processes that die

Trials == 1 .. MaxTrials
Ports(t) == {<<t, i>> : i \in DOMAIN Flows[t]}
FlowOf(p) == Flows[p[1]][p[2]]

MultipathAssumption ==
    /\ MaxTrials \in Nat \ {0} /\ MaxFailures \in Nat /\ MaxCrashes \in Nat
    /\ \A t \in Trials : Len(Flows[t]) \in Nat \ {0} /\ DOMAIN Flows[t] = 1 .. Len(Flows[t])
    /\ \A t \in Trials : \A p \in Ports(t) :
          FlowOf(p).paths \in Nat \ {0} /\ FlowOf(p).source_node # FlowOf(p).destination_node
ASSUME MultipathAssumption

Sources(t) == {FlowOf(p).source_node : p \in Ports(t)}
HostIds(t) == Sources(t) \cup {FlowOf(p).destination_node : p \in Ports(t)}
Hosts == UNION {HostIds(t) : t \in Trials}

VARIABLES trial, pc,
          todo,           \* hosts, flows or tokens the current loop has still to visit
          tokens,         \* _installed_route_tokens
          tag_counters,   \* of each pair of hosts
          routes,         \* routes at the controller: port and tag
          servers,        \* for each host, the ports its traffic server has counted
          generators,     \* for each host, the trials whose generator runs there
          remote,         \* sender and receiver file on each host
          local,          \* the copies under /tmp
          processed_results,
          leftovers,      \* a trial before this one was broken off
          failures, crashes

NoSender == 0               \* a sender file stands for the trial that wrote it
Absent == {<<0, 0>>}        \* no receiver file, no server
NoFiles == [sender |-> NoSender, receiver |-> Absent]
Lost == <<0, 0>>            \* None in processed_results

driver == <<trial, pc, todo, leftovers>>
network == <<routes, tokens, tag_counters>>
world == <<servers, generators, remote, local>>
faults == <<failures, crashes>>
vars == <<driver, network, world, processed_results, faults>>

FirstTags == [p \in Hosts \X Hosts |-> 1]

Init ==
    /\ trial = 1 /\ pc = "servers" /\ todo = HostIds(1)
    /\ tokens = {} /\ tag_counters = FirstTags
    /\ routes = {}
    /\ servers = [h \in Hosts |-> Absent] /\ generators = [h \in Hosts |-> {}]
    /\ remote = [h \in Hosts |-> NoFiles] /\ local = remote
    /\ processed_results = <<>>
    /\ leftovers = FALSE /\ failures = 0 /\ crashes = 0
-----------------------------------------------------------------------------
Goto(step, visits) == pc' = step /\ todo' = visits

(* The loop's body for x; after the last one, on to the next step.         *)
Visit(x, step, visits) ==
    IF todo = {x} THEN Goto(step, visits) ELSE pc' = pc /\ todo' = todo \ {x}

Fail == failures < MaxFailures /\ failures' = failures + 1

(* The except clause of main: remove_routes, if there is a token, and the  *)
(* program ends; the traffic processes are left as they are.               *)
Except(held) == Goto(IF held = {} THEN "ended" ELSE "recover", held)

Raise ==
    /\ pc \in {"servers", "install", "clients", "stop-clients", "stop-servers", "collect", "write"}
    /\ Fail
    /\ Except(tokens)
    /\ UNCHANGED <<trial, leftovers, network, world, processed_results, crashes>>

(* start_server removes the result files of its host first.  A server that *)
(* finds its port taken exits.                                             *)
start_server(h) ==
    /\ pc = "servers" /\ h \in todo
    /\ remote' = [remote EXCEPT ![h] = NoFiles]
    /\ servers' = [servers EXCEPT ![h] = IF @ = Absent THEN {} ELSE @]
    /\ Visit(h, "install", {1})
    /\ UNCHANGED <<trial, leftovers, network, generators, local, processed_results, faults>>

NextTag(f) == tag_counters[<<f.source_node, f.destination_node>>]

(* install_route posts all paths of a flow at once, each with the next tag *)
(* of its pair.  The request is refused, or its answer is lost; either     *)
(* raises.                                                                 *)
install_route(i, outcome) ==
    /\ pc = "install" /\ todo = {i}
    /\ LET f == Flows[trial][i]
           first == NextTag(f)
           route == {[port |-> <<trial, i>>, tag |-> k] : k \in first .. first + f.paths - 1}
       IN  /\ tag_counters' =
                  [tag_counters EXCEPT ![<<f.source_node, f.destination_node>>] = first + f.paths]
           /\ routes' = IF outcome = "refused" THEN routes ELSE routes \cup route
           /\ tokens' = IF outcome = "ok" THEN tokens \cup {<<trial, i>>} ELSE tokens
    /\ IF outcome = "ok"
       THEN /\ UNCHANGED failures
            /\ IF i < Len(Flows[trial]) THEN Goto("install", {i + 1})
               ELSE Goto("clients", Sources(trial))
       ELSE Fail /\ Except(tokens)
    /\ UNCHANGED <<trial, leftovers, world, processed_results, crashes>>

start_clients(h) ==
    /\ pc = "clients" /\ h \in todo
    /\ generators' = [generators EXCEPT ![h] = @ \cup {trial}]
    /\ Visit(h, "stop-clients", Sources(trial))
    /\ UNCHANGED <<trial, leftovers, network, servers, remote, local, processed_results, faults>>

Signalled(h) == generators[h]

(* SIGINT to every generator on the host, whoever started it.  They all    *)
(* write the same file; that of the last one stays.                        *)
stop_client(h) ==
    /\ pc = "stop-clients" /\ h \in todo
    /\ IF Signalled(h) = {} THEN UNCHANGED remote
       ELSE \E t \in Signalled(h) : remote' = [remote EXCEPT ![h].sender = t]
    /\ generators' = [generators EXCEPT ![h] = @ \ Signalled(h)]
    /\ Visit(h, "stop-servers", HostIds(trial))
    /\ UNCHANGED <<trial, leftovers, network, servers, local, processed_results, faults>>

stop_server(h) ==
    /\ pc = "stop-servers" /\ h \in todo
    /\ remote' = IF servers[h] = Absent THEN remote
                 ELSE [remote EXCEPT ![h].receiver = servers[h]]
    /\ servers' = [servers EXCEPT ![h] = Absent]
    /\ Visit(h, "collect", HostIds(trial))
    /\ UNCHANGED <<trial, leftovers, network, generators, local, processed_results, faults>>

(* One scp for each file.  The copy of an earlier trial stays in /tmp when *)
(* there is no file, or when scp fails, which nobody looks at.             *)
retrieve_end_host_results(h) ==
    /\ pc = "collect" /\ h \in todo
    /\ \E failed \in SUBSET {"sender", "receiver"} :
          /\ IF failed = {} THEN UNCHANGED failures ELSE Fail
          /\ local' = [local EXCEPT ![h] =
                [sender   |-> IF "sender" \in failed \/ remote[h].sender = NoSender
                              THEN local[h].sender ELSE remote[h].sender,
                 receiver |-> IF "receiver" \in failed \/ remote[h].receiver = Absent
                              THEN local[h].receiver ELSE remote[h].receiver]]
    /\ Visit(h, "process", {1})
    /\ UNCHANGED <<trial, leftovers, network, servers, generators, remote,
                   processed_results, crashes>>
-----------------------------------------------------------------------------
SamePair(f, g) ==
    f.source_node = g.source_node /\ f.destination_node = g.destination_node

(* The entries of a sender file are in the order the flows were configured *)
(* in; those to the flow's destination whose port is not used yet.         *)
Unused(f, sender, used) ==
    IF sender = NoSender THEN {}
    ELSE {i \in DOMAIN Flows[sender] : SamePair(Flows[sender][i], f) /\ <<sender, i>> \notin used}

AnyReceived(f, sender, received, used) ==  \* mutant: the receiver's port is not compared
    LET found == Unused(f, sender, used)
    IN  IF found # {} /\ received \ Absent # {} THEN <<sender, Min(found)>> ELSE Lost

LatestReceived(f, sender, received, used) ==  \* mutant: the last entry of the pair is taken
    LET found == Unused(f, sender, used)
    IN  IF found # {} /\ <<sender, Max(found)>> \in received THEN <<sender, Max(found)>> ELSE Lost

(* The first of these entries; it counts as used only if the receiver has  *)
(* an entry for it as well.                                                *)
FlowResult(f, sender, received, used) ==
    LET found == Unused(f, sender, used)
    IN  IF found # {} /\ <<sender, Min(found)>> \in received THEN <<sender, Min(found)>> ELSE Lost

(* The loop's body for the k-th flow of the trial.                         *)
process_end_host_results(k) ==
    /\ pc = "process" /\ todo = {k}
    /\ LET f == Flows[trial][k]
       IN  processed_results' =
              Append(processed_results,
                     FlowResult(f, local[f.source_node].sender, local[f.destination_node].receiver,
                                Range(processed_results)))
    /\ IF k < Len(Flows[trial]) THEN Goto("process", {k + 1}) ELSE Goto("remove", tokens)
    /\ UNCHANGED <<trial, leftovers, network, world, faults>>
-----------------------------------------------------------------------------
RoutesOf(p) == {r \in routes : r.port = p}

RemovalRaises == IF pc = "remove" THEN Except(tokens) ELSE Goto("ended", {})

(* remove_route does not look at the status of the answer.  A request that *)
(* fails raises: in conduct_onos_trial the except clause starts over with  *)
(* all tokens, in the except clause it ends the program.                   *)
remove_route(p, outcome) ==
    /\ pc \in {"remove", "recover"} /\ p \in todo
    /\ routes' \in IF outcome = "ok" THEN {routes \ RoutesOf(p)}
                  ELSE {routes, routes \ RoutesOf(p)}
    /\ IF outcome = "raises" THEN RemovalRaises
       ELSE Visit(p, IF pc = "remove" THEN "write" ELSE "ended", {})
    /\ IF outcome = "ok" THEN UNCHANGED failures ELSE Fail
    /\ UNCHANGED <<trial, leftovers, tokens, tag_counters, world, processed_results, crashes>>

(* The results are written, and main goes on with the next seed; or the    *)
(* program has ended with an exception and is started again.  The new      *)
(* OnosRouteAdder knows no token.                                          *)
NextTrial ==
    /\ pc \in {"write", "ended"}
    /\ leftovers' = (leftovers \/ pc = "ended")
    /\ IF trial < MaxTrials
       THEN trial' = trial + 1 /\ Goto("servers", HostIds(trial + 1))
       ELSE trial' = trial /\ Goto("done", {})
    /\ tokens' = {} /\ tag_counters' = FirstTags
    /\ processed_results' = <<>>
    /\ UNCHANGED <<routes, world, faults>>
-----------------------------------------------------------------------------
(* A packet of the flow reaches its server on a route of its pair.         *)
Deliver(p) ==
    LET f == FlowOf(p)
    IN  /\ p[1] \in generators[f.source_node]
        /\ servers[f.destination_node] # Absent
        /\ \E r \in routes : FlowOf(r.port).source_node = f.source_node
                              /\ FlowOf(r.port).destination_node = f.destination_node
        /\ servers' = [servers EXCEPT ![f.destination_node] = @ \cup {p}]
        /\ UNCHANGED <<driver, network, generators, remote, local, processed_results, faults>>

(* A traffic process dies without writing its file.                        *)
Crash(h) ==
    /\ crashes < MaxCrashes /\ crashes' = crashes + 1
    /\ \/ /\ servers[h] # Absent
          /\ servers' = [servers EXCEPT ![h] = Absent] /\ UNCHANGED generators
       \/ /\ \E t \in generators[h] : generators' = [generators EXCEPT ![h] = @ \ {t}]
          /\ UNCHANGED servers
    /\ UNCHANGED <<driver, network, remote, local, processed_results, failures>>

AllTrialsOver == pc = "done" /\ UNCHANGED vars

AllPorts == UNION {Ports(t) : t \in Trials}

Next ==
    \/ AllTrialsOver \/ Raise \/ NextTrial
    \/ \E h \in Hosts : \/ start_server(h) \/ start_clients(h) \/ stop_client(h)
                       \/ stop_server(h) \/ retrieve_end_host_results(h) \/ Crash(h)
    \/ \E i \in DOMAIN Flows[trial], outcome \in {"ok", "refused", "lost"} :
          install_route(i, outcome)
    \/ \E k \in DOMAIN Flows[trial] : process_end_host_results(k)
    \/ \E p \in AllPorts, outcome \in {"ok", "refused", "raises"} : remove_route(p, outcome)
    \/ \E p \in AllPorts : Deliver(p)

Spec == Init /\ [][Next]_vars
-----------------------------------------------------------------------------
(* Every variable has the values conduct_onos_trial, the controller and    *)
(* the hosts can give it.                                                  *)
TypeOK ==
    /\ trial \in Trials
    /\ pc \in {"servers", "install", "clients", "stop-clients", "stop-servers", "collect",
              "process", "remove", "write", "recover", "ended", "done"}
    /\ tokens \subseteq AllPorts
    /\ tag_counters \in [Hosts \X Hosts -> Nat \ {0}]
    /\ \A r \in routes : r.port \in AllPorts /\ r.tag \in Nat \ {0}
    /\ servers \in [Hosts -> SUBSET AllPorts \cup {Absent}]
    /\ generators \in [Hosts -> SUBSET Trials]
    /\ {remote, local} \subseteq [Hosts -> [sender : 0 .. MaxTrials,
                                          receiver : SUBSET AllPorts \cup {Absent}]]
    /\ Range(processed_results) \subseteq AllPorts \cup {Lost}
    /\ leftovers \in BOOLEAN
    /\ failures \in 0 .. MaxFailures /\ crashes \in 0 .. MaxCrashes

(* The counts of an earlier trial, whose copies stay in /tmp, are reported *)
(* as those of this trial only after two faults, one on the sender's and   *)
(* one on the receiver's side, or when an earlier run was broken off.      *)
StaleNeedsTwoFaults ==
    \A k \in DOMAIN processed_results :
        processed_results[k] \notin {Lost, <<trial, k>>} =>
            leftovers \/ crashes + failures >= 2

(* Without a fault, every flow has an entry when the loop is over.  The    *)
(* k-th is that of the k-th flow, and it is there exactly when the flow    *)
(* and all flows of the same pair before it have been received: a flow     *)
(* without a receiver entry hides the ones after it.                       *)
ReportedInOrder ==
    ~leftovers /\ failures + crashes = 0 =>
        /\ pc \in {"remove", "write"} => DOMAIN processed_results = DOMAIN Flows[trial]
        /\ \A k \in DOMAIN processed_results :
              LET f == Flows[trial][k]
                  before == {j \in 1 .. k : SamePair(Flows[trial][j], f)}
                  received == local[f.destination_node].receiver
              IN  processed_results[k] = IF \A j \in before : <<trial, j>> \in received
                                         THEN <<trial, k>> ELSE Lost
=============================================================================
