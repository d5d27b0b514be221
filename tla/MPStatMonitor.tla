--------------------------- MODULE MPStatMonitor ---------------------------
(***************************************************************************)
(* MPStatMonitor of rest_client/mp_routing/multipath_orchestrator.py: a    *)
(* chain of threading.Timer threads that samples the port counters of all  *)
(* switches once per period, and the main thread that starts it, sleeps    *)
(* for the length of the trial, and stops it through an Event that the     *)
(* chain itself clears.  Each start_monitor begins a new chain; a timer    *)
(* that starts its successor hands its chain on.                           *)
(***************************************************************************)
EXTENDS Integers, FiniteSets

CONSTANTS
  NumDpids,    \* length of _mon_dpids, sampled in this order
  MaxRounds,   \* how often the main thread starts and stops the monitor
  MaxPeriods   \* how many periods fit into the trial the main thread sleeps for

ASSUME MonitorAssumption ==
  /\ NumDpids \in Nat \ {0}
  /\ MaxRounds \in Nat \ {0}
  /\ MaxPeriods \in Nat

Dpids == 1..NumDpids
Chains == 1..MaxRounds

VARIABLES
  main,        \* where the main thread is
  round,       \* number of start_monitor calls so far
  stop_event,  \* _stop_event.isSet()
  chain,       \* per chain: where its timer thread is
  next_dpid,   \* per chain: the switch _update_stat_lists asks next
  samples,     \* per switch: how many samples its lists hold
  periods      \* periods begun since the last start

vars == <<main, round, stop_event, chain, next_dpid, samples, periods>>

Alive == {"armed", "updating", "testing", "restarting", "clearing"}

(* The constructor takes the first sample of every switch. *)
Init ==
  /\ main = "idle"
  /\ round = 0
  /\ stop_event = FALSE
  /\ chain = [c \in Chains |-> "none"]
  /\ next_dpid = [c \in Chains |-> 1]
  /\ samples = [d \in Dpids |-> 1]
  /\ periods = 0

-----------------------------------------------------------------------------
(* The main thread. *)
start_monitor ==
  /\ main = "idle"
  /\ round < MaxRounds
  /\ round' = round + 1
  /\ chain' = [chain EXCEPT ![round + 1] = "armed"]
  /\ periods' = 0
  /\ main' = "sleeping"
  /\ UNCHANGED <<stop_event, next_dpid, samples>>

stop_monitor ==
  /\ main = "sleeping"
  /\ stop_event' = TRUE
  /\ main' = "spinning"
  /\ UNCHANGED <<round, chain, next_dpid, samples, periods>>

SpinOnEvent ==
  /\ main = "spinning"
  /\ main' = IF stop_event THEN "spinning" ELSE "reading"
  /\ UNCHANGED <<round, stop_event, chain, next_dpid, samples, periods>>

(* retrieve_results hands out the lists themselves; the caller is done with  *)
(* them later.                                                               *)
retrieve_results ==
  /\ main = "reading"
  /\ main' = "idle"
  /\ UNCHANGED <<round, stop_event, chain, next_dpid, samples, periods>>

(* All rounds are over. *)
MainDone ==
  /\ main = "idle"
  /\ round = MaxRounds
  /\ UNCHANGED vars

-----------------------------------------------------------------------------
(* A timer thread: _retrieve_stats. *)

(* The period is over; while the main thread sleeps only MaxPeriods of them  *)
(* fit in.                                                                   *)
TimerFires(c) ==
  /\ chain[c] = "armed"
  /\ stop_event \/ periods < MaxPeriods
  /\ periods' = IF periods < MaxPeriods THEN periods + 1 ELSE periods
  /\ chain' = [chain EXCEPT ![c] = "updating"]
  /\ next_dpid' = [next_dpid EXCEPT ![c] = 1]
  /\ UNCHANGED <<main, round, stop_event, samples>>

StopsHalfWay(c) ==  \* mutant: the event is looked at after every switch
  /\ chain[c] = "updating"
  /\ samples' = [samples EXCEPT ![next_dpid[c]] = @ + 1]
  /\ next_dpid' = [next_dpid EXCEPT ![c] = @ + 1]
  /\ chain' = [chain EXCEPT ![c] = IF stop_event THEN "clearing"
                                   ELSE IF next_dpid[c] = NumDpids THEN "testing" ELSE "updating"]
  /\ UNCHANGED <<main, round, stop_event, periods>>
_update_stat_lists(c) ==
  /\ chain[c] = "updating"
  /\ samples' = [samples EXCEPT ![next_dpid[c]] = @ + 1]
  /\ next_dpid' = [next_dpid EXCEPT ![c] = @ + 1]
  /\ chain' = [chain EXCEPT ![c] = IF next_dpid[c] = NumDpids THEN "testing" ELSE "updating"]
  /\ UNCHANGED <<main, round, stop_event, periods>>

(* The request or the parsing of its answer raises: the thread is gone.      *)
RequestFails(c) ==
  /\ chain[c] = "updating"
  /\ chain' = [chain EXCEPT ![c] = "failed"]
  /\ UNCHANGED <<main, round, stop_event, next_dpid, samples, periods>>

(* if not self._stop_event.isSet() *)
TestEvent(c) ==
  /\ chain[c] = "testing"
  /\ chain' = [chain EXCEPT ![c] = IF stop_event THEN "clearing" ELSE "restarting"]
  /\ UNCHANGED <<main, round, stop_event, next_dpid, samples, periods>>

RestartTimer(c) ==
  /\ chain[c] = "restarting"
  /\ chain' = [chain EXCEPT ![c] = "armed"]
  /\ UNCHANGED <<main, round, stop_event, next_dpid, samples, periods>>

ClearsAndRearms(c) ==  \* mutant: the timer is restarted in both branches
  /\ chain[c] = "clearing"
  /\ stop_event' = FALSE
  /\ chain' = [chain EXCEPT ![c] = "armed"]
  /\ UNCHANGED <<main, round, next_dpid, samples, periods>>
EventNotCleared(c) ==  \* mutant
  /\ chain[c] = "clearing"
  /\ chain' = [chain EXCEPT ![c] = "ended"]
  /\ UNCHANGED <<main, round, stop_event, next_dpid, samples, periods>>
ClearEvent(c) ==
  /\ chain[c] = "clearing"
  /\ stop_event' = FALSE
  /\ chain' = [chain EXCEPT ![c] = "ended"]
  /\ UNCHANGED <<main, round, next_dpid, samples, periods>>

MainThread == start_monitor \/ stop_monitor \/ SpinOnEvent \/ retrieve_results \/ MainDone

TimerThread(c) ==
  \/ TimerFires(c) \/ _update_stat_lists(c) \/ RequestFails(c)
  \/ TestEvent(c) \/ RestartTimer(c) \/ ClearEvent(c)

Next == MainThread \/ \E c \in Chains : TimerThread(c)

Spec == Init /\ [][Next]_vars

(* Threads are scheduled, timers fire and the main thread's sleep ends. *)
FairSpec == Spec /\ WF_vars(MainThread) /\ \A c \in Chains : WF_vars(TimerThread(c))

-----------------------------------------------------------------------------
(* Every variable of the monitor and its caller has its type. *)
TypeOK ==
  /\ main \in {"idle", "sleeping", "spinning", "reading"}
  /\ round \in 0..MaxRounds
  /\ stop_event \in BOOLEAN
  /\ chain \in [Chains -> Alive \cup {"none", "ended", "failed"}]
  /\ next_dpid \in [Chains -> 1..(NumDpids + 1)]
  /\ samples \in [Dpids -> Nat]
  /\ periods \in 0..MaxPeriods

(* Once stop_monitor has returned no timer of this monitor is left that      *)
(* could still append to the lists retrieve_results hands out, and a later   *)
(* start begins with the event clear.  The chain clears the event as the     *)
(* last thing it does, after the test it cannot take back.                   *)
QuietAfterStop ==
  main \in {"idle", "reading"} =>
    /\ \A c \in Chains : chain[c] \notin Alive
    /\ ~ stop_event

(* The caller never reads a torn sample: after a stop that returned every    *)
(* switch has the same number of samples, although the lists grow one switch *)
(* at a time and a request may have failed half-way.                         *)
NoTornSample ==
  main \in {"idle", "reading"} => \A d, e \in Dpids : samples[d] = samples[e]

(* At most one chain of timers is alive, whenever the event was set between  *)
(* the chain's test and its new timer.                                       *)
OneChain ==
  \A c, b \in Chains : chain[c] \in Alive /\ chain[b] \in Alive => c = b

(* stop_monitor returns, unless a request of a timer thread has failed: then *)
(* nobody is left to clear the event.                                        *)
StopTerminates ==
  main = "spinning" ~> (main # "spinning" \/ \E c \in Chains : chain[c] = "failed")

(* ... and in that case it never returns: the busy-wait has no way out.      *)
FailureHangsStop ==
  [][(\E c \in Chains : chain[c] = "failed") /\ main = "spinning" => main' = "spinning"]_vars
=============================================================================
