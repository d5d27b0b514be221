--------------------------- MODULE AttackerTesting ---------------------------
(***************************************************************************)
(* path_hopping_attacker_testing.py: the attacker tests.  A session sets   *)
(* up delays on the local interface, conducts its trials one after the     *)
(* other and removes the delays.  A trial creates two virtual hosts, a     *)
(* sender (host 1) and a receiver (host 2), starts a packet capture and    *)
(* the controller's monitor, runs the endpoint programs until the receiver *)
(* is done, and collects what the three have measured.                     *)
(*                                                                         *)
(* Unlike path_hopping.py, the `finally` of a trial is not guarded: an     *)
(* exception in it ends the session.  Somebody then starts another one.    *)
(* Trials are numbered through all sessions.  The outcomes of a call are   *)
(* those of VirtualHost.                                                   *)
(***************************************************************************)
EXTENDS Integers, FiniteSets

CONSTANTS TrialsPerSession, NumSessions,
          MaxFailures    \* bound: calls and programs that fail

TestingAssumption ==
    TrialsPerSession \in Nat \ {0} /\ NumSessions \in Nat \ {0} /\ MaxFailures \in Nat

VARIABLES addresses, virtual_hosts,  \* see VirtualHost
          endpoints,    \* running endpoint programs: <<trial, host, program>>
          complete,     \* trials whose sender got everything across
          captures,     \* trials whose tcpdump is running
          monitors,     \* trials whose monitor is running, at the controller
          qdisc,        \* the session whose delays are in force, 0 if none
          record,       \* the trial whose sender wrote hopping-time-record.txt, 0 if absent
          output,       \* the trial whose packets are in output.txt, 0 if absent
          session, trial, pc, h,
          sender, receiver,  \* in conduct_path_hopping_trial: not None
          started,      \* hosts whose process handle is set
          packets, hopping_times,  \* of which trial they are
          measured,     \* trials with measurements: [trial, packets, hopping_times]
          crashed,      \* sessions that ended with an exception
          custody,      \* "lost" once something was lost track of
          failures

hostVars == <<addresses, virtual_hosts, endpoints>>
probes == <<captures, monitors, qdisc>>
files == <<record, output>>
worldVars == <<hostVars, complete, probes, files>>
localVars == <<sender, receiver, started, packets, hopping_times>>
run == <<session, trial, measured, crashed>>
vars == <<worldVars, localVars, run, pc, h, custody, failures>>

TotalTrials == NumSessions * TrialsPerSession
VH == INSTANCE VirtualHost WITH
        NumHosts <- 2, NumTrials <- TotalTrials, processes <- endpoints

Outcomes == VH!Outcomes
Raises(o) == VH!Raises(o)
Program == <<"sender", "receiver">>

Call(o) ==
    /\ Raises(o) => failures < MaxFailures
    /\ failures' = IF Raises(o) THEN failures + 1 ELSE failures

Acquire(o) == Call(o) /\ custody' = IF o = "lost" THEN "lost" ELSE custody
Release(o) == Call(o) /\ custody' = IF Raises(o) THEN "lost" ELSE custody

Goto(p) == pc' = p /\ h' = 1

(* The start of a trial's finally: the sender, if there is one, then the   *)
(* receiver, then the capture.                                             *)
Finally(s, r) == CASE s -> pc' = "destroy" /\ h' = 1
                   [] ~s /\ r -> pc' = "destroy" /\ h' = 2
                   [] OTHER -> Goto("capture_check")

(* The except block prints and waits for the Enter key before finally.     *)
raise == Goto("enter")

Init ==
    /\ addresses = [i \in VH!Hosts |-> 0] /\ virtual_hosts = {} /\ endpoints = {} /\ complete = {}
    /\ captures = {} /\ monitors = {} /\ qdisc = 0 /\ record = 0 /\ output = 0
    /\ session = 1 /\ trial = 1 /\ pc = "delays" /\ h = 1
    /\ sender = FALSE /\ receiver = FALSE /\ started = {} /\ packets = 0 /\ hopping_times = 0
    /\ measured = {} /\ crashed = {} /\ custody = "kept" /\ failures = 0
-----------------------------------------------------------------------------
(* An exception that conduct_path_hopping_trial does not catch goes        *)
(* through main: the rest of a trial's finally, the remaining trials,      *)
(* remove_path_hopping_delays and the writing of the results are skipped.  *)
Crash == crashed' = crashed \cup {session} /\ Goto("crashed")

(* execute_shell_command looks at no exit code.  `tc qdisc add` leaves a   *)
(* root qdisc that is already there, and its classes, as they are.         *)
add_path_hopping_delays(o) ==
    /\ pc = "delays" /\ o # "lost" /\ Release(o)
    /\ qdisc' = IF Raises(o) \/ qdisc # 0 THEN qdisc ELSE session
    /\ Goto("topo")
    /\ UNCHANGED <<complete, hostVars, captures, monitors, files, localVars, run>>

(* There is no such command, or tc shows no root qdisc to add classes to:  *)
(* nothing catches that.                                                   *)
add_path_hopping_delays_raises(o) ==
    /\ pc = "delays" /\ Raises(o) /\ Release(o)
    /\ qdisc' = IF VH!TakesEffect(o) /\ qdisc = 0 THEN session ELSE qdisc
    /\ Crash
    /\ UNCHANGED <<complete, hostVars, captures, monitors, files, localVars, session, trial,
                   measured>>

remove_path_hopping_delays(o) ==
    /\ pc = "remove_delays" /\ o # "lost" /\ Release(o)
    /\ qdisc' = IF Raises(o) THEN qdisc ELSE 0
    /\ Goto("done")
    /\ UNCHANGED <<complete, hostVars, captures, monitors, files, localVars, run>>

remove_path_hopping_delays_raises ==
    /\ pc = "remove_delays" /\ Release("failed")
    /\ Crash
    /\ UNCHANGED <<worldVars, localVars, session, trial, measured>>

get_and_validate_onos_topo_x(o) ==
    /\ pc = "topo" /\ o # "lost" /\ Call(o)
    /\ IF Raises(o) THEN raise ELSE Goto("address")
    /\ UNCHANGED <<worldVars, localVars, run, custody>>

(* create_sender_receiver_pair, and the create_virtual_host it calls for   *)
(* the sender and for the receiver.  When the receiver's raises, the       *)
(* sender is destroyed; the caller's variables are still None.             *)
SenderKept == raise  \* mutant: the except block does not destroy the sender
CreationFailed == IF h = 1 THEN raise ELSE Goto("pair_uninstall")

initialize_local_network_interface(o) ==
    /\ pc = "address"
    /\ VH!_initialize_local_network_interface(trial, h, o)
    /\ IF addresses[h] # 0 THEN UNCHANGED <<failures, custody>> ELSE Acquire(o)
    /\ IF Raises(o) THEN CreationFailed ELSE pc' = "install" /\ UNCHANGED h
    /\ UNCHANGED <<complete, probes, files, localVars, run>>

install_virtual_host(o) ==
    /\ pc = "install" /\ Acquire(o)
    /\ VH!_install_virtual_host(trial, h, o)
    /\ CASE Raises(o) -> pc' = "undo" /\ UNCHANGED <<h, sender, receiver>>
         [] ~Raises(o) /\ h = 1 -> pc' = "address" /\ h' = 2 /\ UNCHANGED <<sender, receiver>>
         [] ~Raises(o) /\ h = 2 -> Goto("start_capture") /\ sender' = TRUE /\ receiver' = TRUE
    /\ UNCHANGED <<complete, probes, files, started, packets, hopping_times, run>>

(* The except block of initialize_virtual_host_persistent_state.           *)
undo_address(o) ==
    /\ pc = "undo" /\ Release(o)
    /\ VH!_remove_local_network_interface(h, o)
    /\ CreationFailed
    /\ UNCHANGED <<complete, probes, files, localVars, run>>

(* destroy_sender_receiver_pair(sender_host, None); an exception leaves it *)
(* as the one it was called for does.                                      *)
pair_uninstall(o) ==
    /\ pc = "pair_uninstall" /\ Release(o)
    /\ VH!_uninstall_virtual_host(trial, 1, o)
    /\ IF Raises(o) THEN raise ELSE Goto("pair_remove")
    /\ UNCHANGED <<complete, probes, files, localVars, run>>

pair_remove(o) ==
    /\ pc = "pair_remove" /\ Release(o)
    /\ VH!_remove_local_network_interface(1, o)
    /\ raise
    /\ UNCHANGED <<complete, probes, files, localVars, run>>
-----------------------------------------------------------------------------
start_capture(o) ==
    /\ pc = "start_capture" /\ o # "lost" /\ Call(o)
    /\ captures' = IF Raises(o) THEN captures ELSE captures \cup {trial}
    /\ IF Raises(o) THEN raise ELSE Goto("start_monitor")
    /\ UNCHANGED <<complete, hostVars, monitors, qdisc, files, localVars, run, custody>>

start_monitor(o) ==
    /\ pc = "start_monitor" /\ Call(o)
    /\ monitors' = IF VH!TakesEffect(o) THEN monitors \cup {trial} ELSE monitors
    /\ IF Raises(o) THEN raise ELSE Goto("start")
    /\ UNCHANGED <<complete, hostVars, captures, qdisc, files, localVars, run, custody>>

(* start_path_hopping_sender, then start_path_hopping_receiver.            *)
start_path_hopping(o) ==
    /\ pc = "start" /\ Call(o)
    /\ VH!start_traffic_generation(trial, h, Program[h], o)
    /\ started' = IF Raises(o) THEN started ELSE started \cup {h}
    /\ CASE Raises(o) -> raise
         [] ~Raises(o) /\ h = 1 -> h' = 2 /\ UNCHANGED pc
         [] ~Raises(o) /\ h = 2 -> Goto("wait")
    /\ UNCHANGED <<complete, probes, files, sender, receiver, packets, hopping_times, run, custody>>

(* The endpoint programs.  A sender records its hopping times as it sends, *)
(* and ends when the receiver has acknowledged everything; the receiver    *)
(* then ends too.  Either may also end too early, and a receiver whose     *)
(* sender did goes on listening.                                           *)
SenderHops(t) ==
    /\ <<t, 1, "sender">> \in endpoints
    /\ record' = t
    /\ UNCHANGED <<complete, hostVars, probes, output, localVars, run, pc, h, custody, failures>>

SenderEnds(t) ==
    /\ <<t, 1, "sender">> \in endpoints /\ <<t, 2, "receiver">> \in endpoints /\ record = t
    /\ endpoints' = endpoints \ {<<t, 1, "sender">>}
    /\ complete' = complete \cup {t}
    /\ UNCHANGED <<addresses, virtual_hosts, probes, files, localVars, run, pc, h, custody, failures>>

ReceiverEnds(t) ==
    /\ <<t, 2, "receiver">> \in endpoints /\ t \in complete
    /\ endpoints' = endpoints \ {<<t, 2, "receiver">>}
    /\ UNCHANGED <<addresses, virtual_hosts, complete, probes, files, localVars, run, pc, h, custody, failures>>

ProgramFails(p) ==
    /\ p \in endpoints /\ Call("failed")
    /\ endpoints' = endpoints \ {p}
    /\ UNCHANGED <<addresses, virtual_hosts, complete, probes, files, localVars, run, pc, h, custody>>

(* Its exit code is not looked at.                                         *)
WaitsForBoth ==  \* mutant: the sender's end is waited for too
    /\ pc = "wait" /\ \A i \in {1, 2} : <<trial, i, Program[i]>> \notin endpoints
    /\ Goto("stop_monitor")
    /\ UNCHANGED <<worldVars, localVars, run, custody, failures>>
wait_until_done ==
    /\ pc = "wait" /\ <<trial, 2, "receiver">> \notin endpoints
    /\ Goto("stop_monitor")
    /\ UNCHANGED <<worldVars, localVars, run, custody, failures>>

stop_monitor(o) ==
    /\ pc = "stop_monitor" /\ Call(o)
    /\ monitors' = IF VH!TakesEffect(o) THEN monitors \ {trial} ELSE monitors
    /\ IF Raises(o) THEN raise ELSE Goto("stop_capture")
    /\ UNCHANGED <<complete, hostVars, captures, qdisc, files, localVars, run, custody>>

process_capture_data(o) ==
    /\ pc = "stop_capture" /\ o # "lost" /\ Call(o)
    /\ captures' = captures \ {trial}
    /\ output' = IF Raises(o) THEN output ELSE trial
    /\ packets' = output'
    /\ IF output' = 0 THEN raise ELSE Goto("hopping_times")
    /\ UNCHANGED <<complete, hostVars, monitors, qdisc, record, sender, receiver, started, hopping_times,
                   run, custody>>

RecordKept ==  \* mutant: the record is not unlinked
    /\ pc = "hopping_times"
    /\ hopping_times' = record
    /\ IF record = 0 THEN raise ELSE Goto("record")
    /\ UNCHANGED <<worldVars, sender, receiver, started, packets, run, custody, failures>>
collect_mpc_sender_hopping_times ==
    /\ pc = "hopping_times"
    /\ hopping_times' = record /\ record' = 0
    /\ IF record = 0 THEN raise ELSE Goto("record")
    /\ UNCHANGED <<complete, hostVars, probes, output, sender, receiver, started, packets, run, custody, failures>>

(* The add_parameter calls.                                                *)
add_parameters ==
    /\ pc = "record"
    /\ measured' = measured \cup
          {[trial |-> trial, packets |-> packets, hopping_times |-> hopping_times]}
    /\ Finally(sender, receiver)
    /\ UNCHANGED <<worldVars, localVars, session, trial, crashed, custody, failures>>
-----------------------------------------------------------------------------
PressEnter ==
    /\ pc = "enter"
    /\ Finally(sender, receiver)
    /\ UNCHANGED <<worldVars, localVars, run, custody, failures>>

destroy_uninstall(o) ==
    /\ pc = "destroy" /\ Call(o)
    /\ VH!_uninstall_virtual_host(trial, h, o)
    /\ IF Raises(o) THEN Crash ELSE pc' = "destroy_remove" /\ UNCHANGED <<h, crashed>>
    /\ UNCHANGED <<complete, probes, files, localVars, session, trial, measured, custody>>

(* With the removal of the address goes the end of destroy_virtual_host:   *)
(* terminate and communicate, if the program was started.                  *)
destroy_remove(o) ==
    /\ pc = "destroy_remove" /\ Call(o)
    /\ addresses' = IF VH!TakesEffect(o) THEN [addresses EXCEPT ![h] = 0] ELSE addresses
    /\ endpoints' = IF Raises(o) \/ h \notin started THEN endpoints
                    ELSE endpoints \ {<<trial, h, Program[h]>>}
    /\ IF Raises(o) THEN Crash
       ELSE /\ IF h = 1 THEN pc' = "destroy" /\ h' = 2 ELSE Goto("capture_check")
            /\ UNCHANGED crashed
    /\ UNCHANGED <<virtual_hosts, complete, probes, files, localVars, session, trial, measured, custody>>

FreshLocals ==
    /\ sender' = FALSE /\ receiver' = FALSE /\ started' = {}
    /\ packets' = 0 /\ hopping_times' = 0

EndTrial ==
    /\ pc = "capture_check"
    /\ captures' = captures \ {trial}
    /\ FreshLocals
    /\ IF trial % TrialsPerSession = 0 THEN Goto("remove_delays") /\ UNCHANGED trial
       ELSE Goto("topo") /\ trial' = trial + 1
    /\ UNCHANGED <<complete, hostVars, monitors, qdisc, files, session, measured, crashed, custody, failures>>

NewSession ==
    /\ pc \in {"done", "crashed"} /\ session < NumSessions
    /\ session' = session + 1 /\ trial' = session * TrialsPerSession + 1
    /\ Goto("delays") /\ FreshLocals
    /\ UNCHANGED <<worldVars, measured, crashed, custody, failures>>

Programs ==
    \/ \E t \in 1 .. TotalTrials : SenderHops(t) \/ SenderEnds(t) \/ ReceiverEnds(t)
    \/ \E p \in endpoints : ProgramFails(p)

Main ==
    \/ \E o \in Outcomes :
          \/ add_path_hopping_delays(o) \/ remove_path_hopping_delays(o)
          \/ add_path_hopping_delays_raises(o)
          \/ get_and_validate_onos_topo_x(o)
          \/ initialize_local_network_interface(o) \/ install_virtual_host(o)
          \/ undo_address(o) \/ pair_uninstall(o) \/ pair_remove(o)
          \/ start_capture(o) \/ start_monitor(o) \/ start_path_hopping(o)
          \/ stop_monitor(o) \/ process_capture_data(o)
          \/ destroy_uninstall(o) \/ destroy_remove(o)
    \/ remove_path_hopping_delays_raises
    \/ wait_until_done \/ collect_mpc_sender_hopping_times \/ add_parameters
    \/ PressEnter \/ EndTrial \/ NewSession

Next == Main \/ Programs
Spec == Init /\ [][Next]_vars

SomeSenderHops == \E t \in 1 .. TotalTrials : SenderHops(t) /\ record # t
SomeSenderEnds == \E t \in 1 .. TotalTrials : SenderEnds(t)
SomeReceiverEnds == \E t \in 1 .. TotalTrials : ReceiverEnds(t)

(* The program goes on while it can, somebody presses Enter, and a pair of *)
(* endpoint programs that nothing happens to gets its data across.         *)
FairSpec ==
    /\ Spec /\ WF_vars(Main) /\ WF_vars(SomeSenderHops)
    /\ SF_vars(SomeSenderEnds) /\ SF_vars(SomeReceiverEnds)
-----------------------------------------------------------------------------
(* Every variable has the values the trials can give it; a session only    *)
(* numbers its own trials, and only the two endpoint programs run, each on *)
(* its own host.                                                           *)
TypeOK ==
    /\ VH!Hosts = 1 .. 2 /\ addresses \in [1 .. 2 -> 0 .. TotalTrials]
    /\ virtual_hosts \subseteq VH!Trials \X VH!Hosts
    /\ endpoints \subseteq {<<t, i, Program[i]>> : t \in VH!Trials, i \in VH!Hosts}
    /\ complete \subseteq VH!Trials /\ captures \subseteq VH!Trials /\ monitors \subseteq VH!Trials
    /\ qdisc \in 0 .. NumSessions /\ record \in 0 .. TotalTrials /\ output \in 0 .. TotalTrials
    /\ session \in 1 .. NumSessions /\ trial \in 1 .. TotalTrials /\ h \in 1 .. 2
    /\ trial \in (session - 1) * TrialsPerSession + 1 .. session * TrialsPerSession
    /\ sender \in BOOLEAN /\ receiver \in BOOLEAN /\ started \subseteq VH!Hosts
    /\ \A m \in measured : {m.trial, m.packets, m.hopping_times} \subseteq VH!Trials
    /\ crashed \subseteq 1 .. NumSessions /\ custody \in {"kept", "lost"}
    /\ failures \in 0 .. MaxFailures

(* What the sessions look like from outside.                               *)
Held ==
    {<<addresses[i], <<"address", i>>>> : i \in {k \in VH!Hosts : addresses[k] # 0}}
    \cup {<<v[1], <<"virtual_host", v[2]>>>> : v \in virtual_hosts}

Stage ==
    CASE pc \in {"enter", "undo", "pair_uninstall", "pair_remove", "destroy", "destroy_remove",
                 "capture_check"} -> "down"
      [] pc \in {"remove_delays", "done"} -> "over"
      [] pc = "crashed" -> "crashed"
      [] OTHER -> "up"

L == INSTANCE TrialLifecycle WITH
        Needed <- {"address", "virtual_host"} \X VH!Hosts,
        current <- trial, stage <- Stage, held <- Held, watched <- monitors,
        measured <- {m.trial : m \in measured},
        custody <- IF crashed = {} THEN custody ELSE "lost", faults <- failures

(* The sessions keep the promise of a trial program, as path_hopping.py's  *)
(* run does: up to a crash in finally, whose session gives back no more.   *)
(* A session started after a crash meets the addresses and table entries   *)
(* the crash left, and touches none of them.                               *)
TestingLifecycle == L!Spec

(* What a trial is recorded with is its own.  As long as nothing has       *)
(* failed, packets and hopping times are not those the last trial left in  *)
(* the two fixed files; with one failure the hopping times of one trial    *)
(* are still not taken for those of another, since reading the record      *)
(* removes it; and the delays in force are those of this session, unless a *)
(* session crashed or a tc command failed.                                 *)
OwnMeasurements ==
    /\ failures = 0 => \A m \in measured : m.packets = m.trial /\ m.hopping_times = m.trial
    /\ failures < 2 => \A m, n \in measured : m.hopping_times = n.hopping_times => m = n
    /\ custody = "kept" /\ crashed = {} =>
          qdisc = IF pc \in {"delays", "done"} THEN 0 ELSE session

(* The receiver is listening for a sender that is gone and has not got     *)
(* everything across.                                                      *)
Abandoned ==
    /\ pc = "wait" /\ trial \notin complete
    /\ <<trial, 1, "sender">> \notin endpoints
    /\ <<trial, 2, "receiver">> \in endpoints

(* A session comes to its end, unless it waits for ever for a receiver     *)
(* whose sender died before everything was across: wait_until_done has no  *)
(* timeout, but nothing else keeps a session from its end.                 *)
SessionsEnd == (pc = "delays") ~> (pc \in {"done", "crashed"} \/ []Abandoned)
=============================================================================
