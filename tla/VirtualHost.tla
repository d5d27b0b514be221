---------------------------- MODULE VirtualHost ----------------------------
(***************************************************************************)
(* The virtual hosts of the testbed (virtual_hosts/virtual_host.py).  A    *)
(* virtual host is made of three things outside the program: an address on *)
(* the local network interface, an entry of the controller's virtual-host  *)
(* table, and the traffic server and client processes.  Each is acquired   *)
(* and released by a call that can fail; this module has one operator per  *)
(* call, and what the callers do with a failure is in the module that uses *)
(* them.                                                                   *)
(*                                                                         *)
(* A call has one of three outcomes.  "ok": it took effect and returned.   *)
(* "failed": it had no effect and raised (a status that is not 2xx, a      *)
(* non-zero exit code).  "lost": it took effect and raised all the same (a *)
(* connection dropped after the controller acted, a reply that does not    *)
(* parse, netifaces failing after `ip addr add`).                          *)
(***************************************************************************)
EXTENDS Integers

CONSTANTS NumHosts,     \* range(1, 11) in create_virtual_hosts
          NumTrials     \* trials of the provider, conducted in sequence

ASSUME VirtualHostAssumption == NumHosts \in Nat \ {0} /\ NumTrials \in Nat \ {0}

VARIABLES addresses,        \* host -> the trial that put its address there, 0 if absent
          virtual_hosts,    \* the controller's table: <<trial, host>>
          processes         \* running processes: <<trial, host, "server" or "client">>

hostVars == <<addresses, virtual_hosts, processes>>

Hosts == 1 .. NumHosts
Trials == 1 .. NumTrials
Outcomes == {"ok", "failed", "lost"}
TakesEffect(o) == o # "failed"
Raises(o) == o # "ok"

HostTypeOK ==
    /\ addresses \in [Hosts -> 0 .. NumTrials]
    /\ virtual_hosts \subseteq Trials \X Hosts
    /\ processes \subseteq Trials \X Hosts \X {"server", "client"}

HostInit ==
    /\ addresses = [h \in Hosts |-> 0]
    /\ virtual_hosts = {}
    /\ processes = {}

(* `ip addr add` exits with an error when the address is already there.    *)
ExitCodeIgnored(t, h, o) ==  \* mutant
    /\ o = "ok"
    /\ addresses' = IF addresses[h] = 0 THEN [addresses EXCEPT ![h] = t] ELSE addresses
    /\ UNCHANGED <<virtual_hosts, processes>>
_initialize_local_network_interface(t, h, o) ==
    /\ addresses[h] # 0 => o = "failed"
    /\ addresses' = IF TakesEffect(o) THEN [addresses EXCEPT ![h] = t] ELSE addresses
    /\ UNCHANGED <<virtual_hosts, processes>>

_remove_local_network_interface(h, o) ==
    /\ addresses' = IF TakesEffect(o) THEN [addresses EXCEPT ![h] = 0] ELSE addresses
    /\ UNCHANGED <<virtual_hosts, processes>>

(* The controller's answer carries the token: a host whose creation raised *)
(* has none.                                                               *)
_install_virtual_host(t, h, o) ==
    /\ virtual_hosts' = IF TakesEffect(o) THEN virtual_hosts \cup {<<t, h>>} ELSE virtual_hosts
    /\ UNCHANGED <<addresses, processes>>

_uninstall_virtual_host(t, h, o) ==
    /\ virtual_hosts' = IF TakesEffect(o) THEN virtual_hosts \ {<<t, h>>} ELSE virtual_hosts
    /\ UNCHANGED <<addresses, processes>>

(* Popen either starts the process or raises.                              *)
start_traffic_generation(t, h, program, o) ==
    /\ o # "lost"
    /\ processes' = IF TakesEffect(o) THEN processes \cup {<<t, h, program>>} ELSE processes
    /\ UNCHANGED <<addresses, virtual_hosts>>

(* The end of destroy_virtual_host: whichever of the two was started gets  *)
(* a SIGINT.                                                               *)
stop_traffic_generation(t, h) ==
    /\ processes' = processes \ {<<t, h, "client">>, <<t, h, "server">>}
    /\ UNCHANGED <<addresses, virtual_hosts>>
============================================================================
