---------------------------- MODULE MininetTrial ----------------------------
(***************************************************************************)
(* The trials of mininet_tuiti.py and the hosts they run on (MininetHost   *)
(* of nw_control/host_rewrite.py).  The driver starts a traffic server and *)
(* up to two traffic generators on every host over SSH, lets them run,     *)
(* sends each a SIGINT and fetches the files they write.  The processes    *)
(* run by themselves; a SIGINT is only a request, nothing waits for it to  *)
(* be handled.  The file of a process has the same name in every trial.    *)
(***************************************************************************)
EXTENDS Integers, Sequences, FiniteSets

CONSTANTS MaxTrials,    \* trials of the provider
          HostCount,    \* hosts, numbered in the order the driver loops over them
          FlowCount,    \* flows configured on each host, by trial and host
          MaxLost,      \* bound: processes whose pid is written too late
          MaxFailures   \* bound: calls of the driver that raise

Hosts == 0 .. HostCount - 1
LastHost == HostCount - 1

MininetAssumption ==
    /\ MaxTrials \in Nat \ {0} /\ HostCount \in Nat \ {0}
    /\ \A t \in 1 .. MaxTrials, h \in Hosts : FlowCount[t][h] \in Nat
    /\ MaxLost \in Nat /\ MaxFailures \in Nat

VARIABLES trial,          \* the trial being conducted
          pc, host,       \* the driver's step, and the host its loop is at
          server_proc,    \* pid the driver holds for each host's server
          client_procs,   \* pids it holds for each host's generators
          last_proc,      \* /tmp/last-proc.pid
          alive,          \* processes that run
          ready,          \* those that have come up and write a file on SIGINT
          signalled,      \* those a SIGINT is pending for
          files,          \* who wrote each result file last
          dumped,         \* processes that have written their file
          end_host_results,
          recorded,       \* the trials with results
          lost,           \* processes whose pid the driver did not get
          failures

driver == <<trial, pc, host, server_proc, client_procs>>
procs == <<alive, ready, signalled, files, dumped>>
vars == <<driver, last_proc, procs, end_host_results, recorded, lost, failures>>

Trials == 1 .. MaxTrials
Kinds == {"server", "instance-0", "instance-1"}
Instance(i) == IF i = 0 THEN "instance-0" ELSE "instance-1"
Pid == [trial : Trials, host : Hosts, kind : Kinds]
NoPid == [trial |-> 0, host |-> 0, kind |-> "none"]
Torn == [trial |-> 0, host |-> 0, kind |-> "torn"]

(* flow_groups: the first half of the flows, then the rest.                *)
GroupSize(t, h, i) == IF i = 0 THEN FlowCount[t][h] \div 2
                      ELSE FlowCount[t][h] - FlowCount[t][h] \div 2
Size(p) == GroupSize(p.trial, p.host, IF p.kind = "instance-0" THEN 0 ELSE 1)

NoResults == [h \in Hosts |-> [receiver |-> NoPid, sender |-> <<>>, written |-> {}]]

Init ==
    /\ trial = 1 /\ pc = "setup" /\ host = 0
    /\ server_proc = [h \in Hosts |-> NoPid] /\ client_procs = [h \in Hosts |-> <<>>]
    /\ last_proc = NoPid
    /\ alive = {} /\ ready = {} /\ signalled = {}
    /\ files = [f \in Hosts \X Kinds |-> NoPid] /\ dumped = {}
    /\ end_host_results = NoResults /\ recorded = [t \in Trials |-> NoResults]
    /\ lost = {} /\ failures = 0

-----------------------------------------------------------------------------
(* The driver's loops over the hosts: on to the next one, or to step next. *)
NextHost(next) ==
    IF host < LastHost THEN pc' = pc /\ host' = host + 1 ELSE pc' = next /\ host' = 0

(* The call of the current step raises; except prints the exception and    *)
(* finally destroys the hosts there are.                                   *)
Raise ==
    /\ failures < MaxFailures
    /\ pc \in {"setup", "servers", "flows", "clients-0", "clients-1",
               "stop-clients", "stop-servers", "collect"}
    /\ failures' = failures + 1
    /\ pc' = "destroy" /\ host' = 0
    /\ UNCHANGED <<trial, server_proc, client_procs, last_proc, procs,
                   end_host_results, recorded, lost>>

(* Topology, hosts.                                                        *)
create_mininet_hosts ==
    /\ pc = "setup"
    /\ pc' = "servers" /\ host' = 0
    /\ UNCHANGED <<trial, server_proc, client_procs, last_proc, procs,
                   end_host_results, recorded, lost, failures>>

(* run_async starts process p, sleeps three seconds and reads the pid file *)
(* the remote shell was to write.  Late: the file still holds the pid of   *)
(* the process started before.                                             *)
run_async(p, pid) ==
    /\ alive' = alive \cup {p}
    /\ last_proc' = p
    /\ \/ pid = p /\ UNCHANGED lost
       \/ Cardinality(lost) < MaxLost /\ last_proc # NoPid
          /\ pid = last_proc /\ lost' = lost \cup {p}
    /\ UNCHANGED <<ready, signalled, files, dumped>>

(* Or the pid file cannot be fetched: the process runs, the call raises.   *)
NoPidFile ==
    /\ failures < MaxFailures
    /\ \E kind \in Kinds :
          /\ \/ pc = "servers" /\ kind = "server"
             \/ pc = "clients-0" /\ kind = "instance-0" /\ FlowCount[trial][host] > 0
             \/ pc = "clients-1" /\ kind = "instance-1"
          /\ LET p == [trial |-> trial, host |-> host, kind |-> kind]
             IN  alive' = alive \cup {p} /\ last_proc' = p /\ lost' = lost \cup {p}
    /\ failures' = failures + 1
    /\ pc' = "destroy" /\ host' = 0
    /\ UNCHANGED <<trial, server_proc, client_procs, ready, signalled, files, dumped,
                   end_host_results, recorded>>

start_traffic_generation_server ==
    /\ pc = "servers"
    /\ \E pid \in Pid :
          /\ run_async([trial |-> trial, host |-> host, kind |-> "server"], pid)
          /\ server_proc' = [server_proc EXCEPT ![host] = pid]
    /\ NextHost("flows")
    /\ UNCHANGED <<trial, client_procs, end_host_results, recorded, failures>>

(* The flows are installed and configured; ten seconds later, enough for   *)
(* the servers to come up, the monitor is started.                         *)
ConfigureFlows ==
    /\ pc = "flows"
    /\ alive = ready
    /\ pc' = "clients-0" /\ host' = 0
    /\ UNCHANGED <<trial, server_proc, client_procs, last_proc, procs,
                   end_host_results, recorded, lost, failures>>

(* start_traffic_generation_client returns at once on a host without flows *)
(* and else starts two generators, however few flows there are.            *)
NoClients ==
    /\ pc = "clients-0" /\ FlowCount[trial][host] = 0
    /\ IF host < LastHost THEN pc' = pc /\ host' = host + 1 ELSE pc' = "run" /\ host' = 0
    /\ UNCHANGED <<trial, server_proc, client_procs, last_proc, procs,
                   end_host_results, recorded, lost, failures>>

start_traffic_generation_client(i) ==
    /\ IF i = 0 THEN pc = "clients-0" /\ FlowCount[trial][host] > 0 ELSE pc = "clients-1"
    /\ \E pid \in Pid :
          /\ run_async([trial |-> trial, host |-> host, kind |-> Instance(i)], pid)
          /\ client_procs' = [client_procs EXCEPT ![host] = Append(@, pid)]
    /\ IF i = 0 THEN pc' = "clients-1" /\ UNCHANGED host
       ELSE IF host < LastHost THEN pc' = "clients-0" /\ host' = host + 1
       ELSE pc' = "run" /\ host' = 0
    /\ UNCHANGED <<trial, server_proc, end_host_results, recorded, failures>>

(* The trial's duration is over, enough for the generators to come up.     *)
Sleep ==
    /\ pc = "run"
    /\ alive = ready
    /\ pc' = "stop-clients" /\ host' = 0
    /\ UNCHANGED <<trial, server_proc, client_procs, last_proc, procs,
                   end_host_results, recorded, lost, failures>>

kill(pids) == signalled' = signalled \cup (pids \cap alive)
Range(s) == {s[i] : i \in DOMAIN s}

stop_traffic_generation_client ==
    /\ pc = "stop-clients"
    /\ kill(Range(client_procs[host]))
    /\ NextHost("stop-servers")
    /\ UNCHANGED <<trial, server_proc, client_procs, last_proc, alive, ready, files, dumped,
                   end_host_results, recorded, lost, failures>>

stop_traffic_generation_server ==
    /\ pc = "stop-servers"
    /\ kill({server_proc[host]})
    /\ NextHost("collect")
    /\ UNCHANGED <<trial, server_proc, client_procs, last_proc, alive, ready, files, dumped,
                   end_host_results, recorded, lost, failures>>

-----------------------------------------------------------------------------
(* A file is there and can be unpickled.                                   *)
Readable(f) == files[f] \in Pid

InstanceZeroTwice(h) ==  \* mutant: the instance is left out of the file name
    [i \in DOMAIN client_procs[h] |-> files[<<h, Instance(0)>>]]

SenderFiles(h) == [i \in DOMAIN client_procs[h] |-> files[<<h, Instance(i - 1)>>]]

(* What this trial's processes on host h have written by now.              *)
Written(h) == {p.kind : p \in {q \in dumped : q.trial = trial /\ q.host = h}}

get_sender_results(h) ==
    IF \A i \in DOMAIN client_procs[h] : Readable(<<h, Instance(i - 1)>>)
    THEN SenderFiles(h) ELSE <<NoPid>>

(* collect_end_host_results, host by host: without a receiver file it      *)
(* raises, without a sender file the sender is None.  The two are read in  *)
(* one step here: no property compares them.                               *)
collect_end_host_results ==
    /\ pc = "collect"
    /\ Readable(<<host, "server">>)
    /\ end_host_results' = [end_host_results EXCEPT ![host] =
            [receiver |-> files[<<host, "server">>], sender |-> get_sender_results(host),
             written |-> Written(host)]]
    /\ NextHost("add-results")
    /\ UNCHANGED <<trial, server_proc, client_procs, last_proc, procs,
                   recorded, lost, failures>>

NoReceiverFile ==
    /\ pc = "collect"
    /\ ~Readable(<<host, "server">>)
    /\ pc' = "destroy" /\ host' = 0
    /\ UNCHANGED <<trial, server_proc, client_procs, last_proc, procs,
                   end_host_results, recorded, lost, failures>>

AddResults ==
    /\ pc = "add-results"
    /\ recorded' = [recorded EXCEPT ![trial] = end_host_results]
    /\ pc' = "destroy" /\ host' = 0
    /\ UNCHANGED <<trial, server_proc, client_procs, last_proc, procs,
                   end_host_results, lost, failures>>

ServerOnly(h) == {server_proc[h]}  \* mutant: the generators are forgotten
Held(h) == {server_proc[h]} \cup Range(client_procs[h])

(* disconnect: every process the host still holds a pid of gets a SIGINT,  *)
(* once more if the trial got that far.                                    *)
disconnect ==
    /\ pc = "destroy"
    /\ kill(Held(host))
    /\ NextHost("next")
    /\ UNCHANGED <<trial, server_proc, client_procs, last_proc, alive, ready, files, dumped,
                   end_host_results, recorded, lost, failures>>

(* An exception in finally ends main; nothing has been written yet.        *)
DestroyRaises ==
    /\ pc = "destroy" /\ failures < MaxFailures
    /\ failures' = failures + 1
    /\ pc' = "crashed"
    /\ UNCHANGED <<trial, host, server_proc, client_procs, last_proc, procs,
                   end_host_results, recorded, lost>>

(* Thirty seconds later, enough for what was started to come up and for    *)
(* what was sent a SIGINT to handle it, there are new host objects.        *)
NextTrial ==
    /\ pc = "next" /\ trial < MaxTrials
    /\ signalled = {} /\ alive = ready
    /\ trial' = trial + 1
    /\ pc' = "setup" /\ host' = 0
    /\ server_proc' = [h \in Hosts |-> NoPid] /\ client_procs' = [h \in Hosts |-> <<>>]
    /\ end_host_results' = NoResults
    /\ UNCHANGED <<last_proc, procs, recorded, lost, failures>>

Driver ==
    \/ Raise \/ NoPidFile \/ create_mininet_hosts \/ start_traffic_generation_server \/ ConfigureFlows
    \/ NoClients \/ start_traffic_generation_client(0) \/ start_traffic_generation_client(1)
    \/ Sleep \/ stop_traffic_generation_client \/ stop_traffic_generation_server
    \/ collect_end_host_results \/ NoReceiverFile \/ AddResults \/ disconnect \/ DestroyRaises
    \/ NextTrial
-----------------------------------------------------------------------------
Leave(p) ==
    /\ alive' = alive \ {p} /\ ready' = ready \ {p} /\ signalled' = signalled \ {p}

(* A server binds the port of its host, a generator makes its sockets.     *)
CanStart(p) ==
    IF p.kind = "server" THEN \A q \in ready : ~(q.kind = "server" /\ q.host = p.host)
    ELSE Size(p) > 0

ComeUp(p) ==
    /\ p \in alive \ ready
    /\ CanStart(p)
    /\ ready' = ready \cup {p}
    /\ UNCHANGED <<driver, last_proc, alive, signalled, files, dumped,
                   end_host_results, recorded, lost, failures>>

(* The port is taken, or there is no flow 0; or the SIGINT comes before    *)
(* the process is ready for it.                                            *)
Die(p) ==
    /\ p \in alive \ ready
    /\ ~CanStart(p) \/ p \in signalled
    /\ Leave(p)
    /\ UNCHANGED <<driver, last_proc, files, dumped, end_host_results, recorded, lost, failures>>

(* handle_sig_int of a process that is up (a server: that knows its        *)
(* arguments) opens its file, which empties it, then dumps its counts and  *)
(* exits.                                                                  *)
Handles(p) == p \in signalled /\ (p \in ready \/ p.kind = "server")

OpenFile(p) ==
    /\ Handles(p) /\ files[<<p.host, p.kind>>] # Torn
    /\ files' = [files EXCEPT ![<<p.host, p.kind>>] = Torn]
    /\ UNCHANGED <<driver, last_proc, alive, ready, signalled, dumped,
                   end_host_results, recorded, lost, failures>>

Dump(p) ==
    /\ Handles(p) /\ files[<<p.host, p.kind>>] = Torn
    /\ files' = [files EXCEPT ![<<p.host, p.kind>>] = p]
    /\ dumped' = dumped \cup {p}
    /\ Leave(p)
    /\ UNCHANGED <<driver, last_proc, end_host_results, recorded, lost, failures>>

Done ==
    /\ pc = "crashed" \/ (pc = "next" /\ trial = MaxTrials)
    /\ UNCHANGED vars

Processes == \E p \in alive : ComeUp(p) \/ Die(p) \/ OpenFile(p) \/ Dump(p)

Next == Driver \/ Processes \/ Done

(* The driver goes on by itself, and so do the processes: each has only    *)
(* finitely many of these steps, so it is enough that some step is taken.  *)
Spec == Init /\ [][Next]_vars /\ WF_vars(Driver) /\ WF_vars(Processes)
-----------------------------------------------------------------------------
(* Every variable has the values the driver and the processes can give it; *)
(* a host object holds at most two generators, and only running processes  *)
(* are up or have a SIGINT to handle.                                      *)
TypeOK ==
    /\ trial \in Trials /\ host \in Hosts
    /\ pc \in {"setup", "servers", "flows", "clients-0", "clients-1", "run", "stop-clients",
              "stop-servers", "collect", "add-results", "destroy", "next", "crashed"}
    /\ server_proc \in [Hosts -> Pid \cup {NoPid}] /\ last_proc \in Pid \cup {NoPid}
    /\ \A h \in Hosts : client_procs[h] \in UNION {[1 .. n -> Pid] : n \in 0 .. 2}
    /\ alive \subseteq Pid /\ ready \subseteq alive /\ signalled \subseteq alive
    /\ files \in [Hosts \X Kinds -> Pid \cup {NoPid, Torn}] /\ dumped \subseteq Pid
    /\ lost \subseteq Pid /\ failures \in 0 .. MaxFailures

HasResults(t, h) == recorded[t][h].receiver # NoPid
Own(t, h, kind) == [trial |-> t, host |-> h, kind |-> kind]

(* Results of another trial are recorded as those of trial t only in place *)
(* of a file that the trial's own process had not written when             *)
(* collect_end_host_results read it, or if a process whose pid was lost in *)
(* an earlier trial has written over it: stale files have no other cause.  *)
OwnUnlessUnwritten ==
    \A t \in Trials, h \in Hosts : HasResults(t, h) =>
        LET r == recorded[t][h]
        IN  /\ "server" \in r.written => r.receiver \in {Own(t, h, "server")} \cup lost
            /\ \A i \in DOMAIN r.sender : Instance(i - 1) \in r.written =>
                  r.sender[i] \in {Own(t, h, Instance(i - 1)), NoPid} \cup lost

(* Every process the driver got the pid of is gone in the end, whichever   *)
(* call raises on the way, unless finally itself raises.                   *)
HeldProcessesStopped == <>[](alive \subseteq lost \/ pc = "crashed")
=============================================================================
