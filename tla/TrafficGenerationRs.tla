------------------------- MODULE TrafficGenerationRs -------------------------
(***************************************************************************)
(* The traffic generator in Rust (traffic-generation-rs/src/main.rs): it   *)
(* reads its flows from the standard input, binds a socket for each and    *)
(* starts a thread for each, which sends ten packets, sleeps, and does so  *)
(* until the process is killed.  A send that fails is not noticed.         *)
(*                                                                         *)
(* A second has Second ticks of the clock.  The duration of a sleep is     *)
(* computed in floating point and cast to u64, which truncates, turns      *)
(* infinity into the largest duration there is and NaN into zero.          *)
(***************************************************************************)
EXTENDS Integers, Sequences

CONSTANTS Flows,      \* of the input: [tx_rate, packet_len], packets in bytes
          Second,     \* ticks in a second
          MaxTime,    \* bound: ticks the process is watched for
          MaxBursts   \* bound: bursts of a thread that never sleeps

GeneratorAssumption ==
    /\ Second \in Nat \ {0} /\ MaxTime \in Nat /\ MaxBursts \in Nat
    /\ \A f \in DOMAIN Flows : Flows[f].tx_rate \in Nat /\ Flows[f].packet_len \in Nat

Ids == DOMAIN Flows
Forever == MaxTime + 1    \* stands for u64::MAX nanoseconds

VARIABLES pc,       \* of main
          sockets,  \* flows whose FlowTxBlock has been made
          threads,  \* flows whose thread has been spawned
          wake,     \* when the thread of a flow goes on
          sent,     \* calls of transmit
          now, killed

vars == <<pc, sockets, threads, wake, sent, now, killed>>

Init ==
    /\ pc = "read" /\ sockets = {} /\ threads = {}
    /\ wake = [f \in Ids |-> 0] /\ sent = [f \in Ids |-> 0]
    /\ now = 0 /\ killed = FALSE

(* Reading and parsing the input; a failure ends main.                     *)
parse_args(ok) ==
    /\ pc = "read" /\ ~ killed
    /\ pc' = IF ok THEN "bind" ELSE "returned"
    /\ UNCHANGED <<sockets, threads, wake, sent, now, killed>>

Unbound == {f \in Ids : \A g \in sockets : g < f}

FlowTxBlock_new(ok) ==
    /\ pc = "bind" /\ ~ killed /\ Unbound # {}
    /\ IF ok THEN /\ sockets' = sockets \cup {CHOOSE f \in Unbound : \A g \in Unbound : f <= g}
                  /\ pc' = pc
       ELSE pc' = "returned" /\ sockets' = sockets
    /\ UNCHANGED <<threads, wake, sent, now, killed>>

spawn(f) ==
    /\ pc = "bind" /\ ~ killed /\ Unbound = {} /\ f \notin threads
    /\ \A g \in Ids : g < f => g \in threads
    /\ threads' = threads \cup {f} /\ wake' = [wake EXCEPT ![f] = now]
    /\ pc' = IF threads' = Ids THEN "join" ELSE pc
    /\ UNCHANGED <<sockets, sent, now, killed>>

burst_tx_duration(f) ==
    IF Flows[f].tx_rate # 0 THEN (Flows[f].packet_len * Second) \div Flows[f].tx_rate
    ELSE IF Flows[f].packet_len # 0 THEN Forever ELSE 0

Burst == 10

NoSleep(f) == TRUE  \* mutant: the thread does not sleep between its bursts
Awake(f) == wake[f] <= now

(* A round of the loop, unless main has returned and the process is gone.  *)
generate_traffic(f) ==
    /\ f \in threads /\ ~ killed /\ pc \in {"bind", "join"} /\ Awake(f)
    /\ sent[f] < Burst * MaxBursts
    /\ sent' = [sent EXCEPT ![f] = @ + Burst]
    /\ wake' = [wake EXCEPT ![f] = now + burst_tx_duration(f)]
    /\ UNCHANGED <<pc, sockets, threads, now, killed>>

(* A thread that should be running may be late by any number of ticks.     *)
Tick ==
    /\ now < MaxTime /\ ~ killed
    /\ now' = now + 1
    /\ UNCHANGED <<pc, sockets, threads, wake, sent, killed>>

Kill ==
    /\ ~ killed /\ killed' = TRUE
    /\ UNCHANGED <<pc, sockets, threads, wake, sent, now>>

Next ==
    \/ \E ok \in BOOLEAN : parse_args(ok) \/ FlowTxBlock_new(ok)
    \/ \E f \in Ids : spawn(f) \/ generate_traffic(f)
    \/ Tick
    \/ Kill

Spec == Init /\ [][Next]_vars
-----------------------------------------------------------------------------
(* Every variable has the values the code can give it; a thread owns the   *)
(* socket it sends on.                                                     *)
TypeOK ==
    /\ pc \in {"read", "bind", "join", "returned"}
    /\ threads \subseteq sockets /\ sockets \subseteq Ids
    /\ \A f \in Ids : sent[f] % Burst = 0 /\ wake[f] \in 0 .. 2 * MaxTime + 1
    /\ now \in 0 .. MaxTime /\ killed \in BOOLEAN

(* However late its thread is run, a flow is never ahead of ten times its  *)
(* rate by more than one burst and what the truncated sleeps left out:     *)
(* the sleep is the time that one packet takes, and ten are sent.          *)
NeverAheadOfTenTimes ==
    \A f \in Ids :
        sent[f] > 0 => (sent[f] - Burst) * burst_tx_duration(f) <= Burst * now
=============================================================================
