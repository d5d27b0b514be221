----------------------------- MODULE TuitiTrial -----------------------------
(***************************************************************************)
(* tuiti/tuiti_trial.py: the trials of the bulk transfer experiments are   *)
(* made from a directory of solver files.  A file has, for every path, the *)
(* volume of each request in each timeslot and the capacity that remains   *)
(* in each timeslot; a trial has, for every path, a flow of bulk traffic   *)
(* and one of background traffic, with a rate for every second.  The       *)
(* directory is read in an arbitrary order and the batch ends with the     *)
(* first file that raises.                                                 *)
(*                                                                         *)
(* Volumes are integers in units of TX_RATE_SCALING_FACTOR bytes.  Rates   *)
(* are volumes divided by the duration of a timeslot, and kept as the      *)
(* numerator of that fraction.                                             *)
(***************************************************************************)
EXTENDS Integers, Sequences, FiniteSets, SequencesExt, FiniteSetsExt, Functions

CONSTANTS NetworkPaths,   \* node-disjoint paths of the network
          Bandwidth,      \* total_path_volume_per_second
          Names,          \* files of the directory
          Contents        \* what a solver file may hold

TuitiAssumption ==
    /\ NetworkPaths \in Nat /\ Bandwidth \in Nat
    /\ \A c \in Contents :
          /\ c.slot_duration \in Nat \ {0}
          /\ Len(c.allocations) = c.number_of_paths /\ Len(c.capacities) = c.number_of_paths

VARIABLES directory,  \* name -> content
          todo,       \* files the iteration has yet to yield
          trials,     \* name of the file of each trial made, and the trial
          provider,   \* trials of the provider main() runs through
          pc

vars == <<directory, todo, trials, provider, pc>>

Init ==
    /\ directory \in [Names -> Contents]
    /\ todo = Names /\ trials = << >> /\ provider = << >> /\ pc = "read"
-----------------------------------------------------------------------------
Timeslots(c, path_id) ==
    IF c.allocations[path_id] = << >> THEN 0 ELSE Len(c.allocations[path_id][1])

LastRequest(c) ==  \* mutant: the volumes of the requests are not added up
    [path_id \in 1 .. c.number_of_paths |->
        [slot \in 1 .. Timeslots(c, path_id) |-> Last(c.allocations[path_id])[slot]]]
prune_flow_allocations_list(c) ==
    [path_id \in 1 .. c.number_of_paths |->
        [slot \in 1 .. Timeslots(c, path_id) |->
            SumFunction([r \in DOMAIN c.allocations[path_id] |-> c.allocations[path_id][r][slot]])]]

prune_path_capacity_list(c) == c.capacities

(* A rate holds for as many seconds as a timeslot has.                     *)
PerSecond(tx_rate_list, duration) ==
    [s \in 1 .. Len(tx_rate_list) * duration |-> tx_rate_list[((s - 1) \div duration) + 1]]

BulkFlow(c, path_id) == PerSecond(prune_flow_allocations_list(c)[path_id], c.slot_duration)

remaining_capacities(c, path_id) ==
    PerSecond(prune_path_capacity_list(c)[path_id], c.slot_duration)

BackgroundFlow(c, path_id) ==
    LET scaled_capacity == remaining_capacities(c, path_id)
    IN  [s \in DOMAIN scaled_capacity |-> Bandwidth * c.slot_duration - scaled_capacity[s]]

(* Too few disjoint paths, or a division by a remaining capacity of zero.  *)
Raises(c) ==
    \/ NetworkPaths < c.number_of_paths
    \/ \E path_id \in 1 .. c.number_of_paths : Max(ToSet(c.capacities[path_id])) = 0

from_solver_file(c) ==
    [flow_set |-> [path_id \in 1 .. c.number_of_paths |-> BulkFlow(c, path_id)],
     background |-> [path_id \in 1 .. c.number_of_paths |-> BackgroundFlow(c, path_id)],
     remaining |-> [path_id \in 1 .. c.number_of_paths |-> remaining_capacities(c, path_id)]]

AfterFile(c) == IF Raises(c) THEN "raised" ELSE "read"

batch_from_directory(name) ==
    /\ pc = "read" /\ name \in todo
    /\ todo' = todo \ {name}
    /\ trials' = IF Raises(directory[name]) THEN trials
                 ELSE Append(trials, [file |-> name, trial |-> from_solver_file(directory[name])])
    /\ pc' = AfterFile(directory[name])
    /\ UNCHANGED <<directory, provider>>

build_tuiti_trial_provider ==
    /\ pc = "read" /\ todo = {}
    /\ provider' = trials /\ pc' = "done"
    /\ UNCHANGED <<directory, todo, trials>>

Next ==
    \/ \E name \in Names : batch_from_directory(name)
    \/ build_tuiti_trial_provider

Spec == Init /\ [][Next]_vars
-----------------------------------------------------------------------------
(* Every variable has the values the code can give it; a trial has both    *)
(* kinds of flow for each path.                                            *)
TypeOK ==
    /\ pc \in {"read", "raised", "done"} /\ todo \subseteq Names
    /\ Len(trials) + Cardinality(todo) + (IF pc = "raised" THEN 1 ELSE 0) = Cardinality(Names)

Total(f) == SumFunction(f)

(* The bulk flow of a path carries the volume that the solver gave all     *)
(* requests on that path together, no more and no less, and carries a      *)
(* timeslot's volume during the seconds of that timeslot.                  *)
VolumeInItsTimeslot ==
    \A i \in DOMAIN trials :
        LET c == directory[trials[i].file]
            d == c.slot_duration
        IN  \A path_id \in 1 .. c.number_of_paths :
                LET rates == trials[i].trial.flow_set[path_id]
                IN  \A slot \in 1 .. Timeslots(c, path_id) :
                        Total([s \in (slot - 1) * d + 1 .. slot * d |-> rates[s]])
                        = d * Total([r \in DOMAIN c.allocations[path_id] |->
                                        c.allocations[path_id][r][slot]])
=============================================================================
