---------------------------- MODULE SolverTrials ----------------------------
(***************************************************************************)
(* Trials made by the virtual-link-embedding solver.  Two programs use it: *)
(* mp_routing.py, whose VleTrial (mp_routing/vle_trial.py) reads a trial   *)
(* of flows and paths (mp_routing/trial.py), and simulations.py, whose     *)
(* SimulationTrial (simulations/simulation_trial.py) reads a solution      *)
(* time.  Both write their parameters to the one file flow-params.txt, run *)
(* the solver, whose exit code neither looks at, and read the file it      *)
(* names after the seed; both keep what they read in a results repository, *)
(* which refuses to write a path twice.                                    *)
(*                                                                         *)
(* The solver is external: it solves the parameters it finds, or fails and *)
(* leaves its former outputs alone.  Fractions of a flow's demand are in   *)
(* units of 1 / Unit.                                                      *)
(***************************************************************************)
EXTENDS Integers, Sequences, FiniteSets, Functions

CONSTANTS TrialTypes,      \* the blocks of mp_routing.main one of which is not commented out
          VleSeeds,        \* its seed_numbers
          SeedLists,       \* what rand.randint may give simulations.main
          FlowCounts, NodeCounts, LargeNodeCounts,
          SolverFlows,     \* the lists of flows the solver may write
          Unit,            \* fractions that make a whole flow
          MaxRuns,         \* bound: how often a program is started
          MaxFailures      \* bound: solver runs that fail

SolverTrialsAssumption ==
    /\ Unit \in Nat \ {0} /\ MaxRuns \in Nat \ {0} /\ MaxFailures \in Nat
    /\ \A flows \in SolverFlows : \A i \in DOMAIN flows :
          \A j \in DOMAIN flows[i].paths : flows[i].paths[j].fraction \in Nat

VARIABLES params,     \* flow-params.txt
          outputs,    \* trial-<seed>.json and simulation-<seed>.json
          pc,         \* where each program is
          asked, idx, \* the requests of its current run, and the one it is at
          result,     \* what it read last
          kept,       \* the repositories: request -> result
          runs,       \* how often a program was started
          failures    \* solver runs that failed

vars == <<params, outputs, pc, asked, idx, result, kept, runs, failures>>

Programs == {"trial", "simulation"}

vle_request(type, seed) == [mode |-> "trial", seed |-> seed, label |-> <<type, 0, 0>>]
simulation_request(seed, flows, nodes) ==
    [mode |-> "simulation", seed |-> seed, label |-> <<"none", flows, nodes>>]

None == [mode |-> "none", seed |-> 0, label |-> <<"none", 0, 0>>]
NoFile == [of |-> None, flows |-> << >>]
-----------------------------------------------------------------------------
add_path_accepts(flow, path) ==
    /\ Len(path.nodes) >= 2
    /\ path.nodes[1] = flow.source_node
    /\ path.nodes[Len(path.nodes)] = flow.destination_node

Transported(flow) == SumFunction([j \in DOMAIN flow.paths |-> flow.paths[j].fraction])

(* 1**-10 is 1.0: a flow is refused from twice its demand on. *)
verify_flow(flow) == Transported(flow) - Unit < Unit

from_json_accepts(flow) == \A j \in DOMAIN flow.paths : add_path_accepts(flow, flow.paths[j])
add_flow_accepts(flow) == verify_flow(flow)
from_dict_accepts(flows) ==
    \A i \in DOMAIN flows : from_json_accepts(flows[i]) /\ add_flow_accepts(flows[i])

(* What the two output files hold, with the request that was solved. *)
Trial(r, flows) == [of |-> r, flows |-> flows]
Simulation(r) == [of |-> r, flows |-> << >>]
-----------------------------------------------------------------------------
Init ==
    /\ params = None
    /\ outputs = << >>
    /\ pc = [p \in Programs |-> "idle"]
    /\ asked = [p \in Programs |-> << >>]
    /\ idx = [p \in Programs |-> 1]
    /\ result = [p \in Programs |-> NoFile]
    /\ kept = << >>
    /\ runs = 0
    /\ failures = 0

(* A dictionary, or a directory, with y under the name x.                  *)
Put(f, x, y) == [z \in DOMAIN f \cup {x} |-> IF z = x THEN y ELSE f[z]]

goto(p, l) == pc' = [pc EXCEPT ![p] = l]

Start(p, requests) ==
    /\ pc[p] \in {"idle", "done", "raised"} /\ runs < MaxRuns
    /\ runs' = runs + 1
    /\ asked' = [asked EXCEPT ![p] = requests]
    /\ idx' = [idx EXCEPT ![p] = 1]
    /\ goto(p, "create")
    /\ UNCHANGED <<params, outputs, result, kept, failures>>

mp_routing_main ==
    \E type \in TrialTypes :
        Start("trial", [i \in DOMAIN VleSeeds |-> vle_request(type, VleSeeds[i])])

(* The requests of main's loop over the seeds, the numbers of flows and,   *)
(* in conduct_simulations, the numbers of nodes, each faster than the last.*)
Nth(list, n) == list[1 + (n % Len(list))]
conduct_simulations(seeds, node_counts) ==
    LET nodes == Len(node_counts)
        runs_of_seed == Len(FlowCounts) * nodes
    IN  [i \in 1 .. Len(seeds) * runs_of_seed |->
            simulation_request(Nth(seeds, (i - 1) \div runs_of_seed),
                               Nth(FlowCounts, (i - 1) \div nodes), Nth(node_counts, i - 1))]

simulations_main ==
    \E seeds \in SeedLists :
        Start("simulation", conduct_simulations(seeds, NodeCounts)
                             \o conduct_simulations(seeds, LargeNodeCounts))

request(p) == asked[p][idx[p]]

More(p) == idx[p] <= Len(asked[p])

Parameters(p) == request(p)

(* create_solver_cmd writes the parameters. *)
create_solver_cmd(p) ==
    /\ pc[p] = "create" /\ More(p)
    /\ params' = Parameters(p)
    /\ goto(p, "solve")
    /\ UNCHANGED <<outputs, asked, idx, result, kept, runs, failures>>

(* The file the solver writes for a request, and the program reads. *)
SeedDropped(r) ==  \* mutant: one output file for all seeds
    r.mode
file_of(r) == <<r.mode, r.seed>>

(* subprocess.run: the solver takes the parameters it finds. *)
run_solver(p) ==
    /\ pc[p] = "solve"
    /\ \E solved \in IF params.mode = "trial" THEN {Trial(params, f) : f \in SolverFlows}
                      ELSE {Simulation(params)} :
          outputs' = Put(outputs, file_of(params), solved)
    /\ goto(p, "read")
    /\ UNCHANGED <<params, asked, idx, result, kept, runs, failures>>

solver_fails(p) ==
    /\ pc[p] = "solve" /\ failures < MaxFailures
    /\ failures' = failures + 1
    /\ goto(p, "read")
    /\ UNCHANGED <<params, outputs, asked, idx, result, kept, runs>>

(* A missing file, or a flow that Trial.from_dict refuses, ends the program. *)
invoke_solver_with_params(p) ==
    LET file == file_of(request(p))
        raises == \/ file \notin DOMAIN outputs
                  \/ ~ from_dict_accepts(outputs[file].flows)
    IN  /\ pc[p] = "read"
        /\ result' = IF raises THEN result ELSE [result EXCEPT ![p] = outputs[file]]
        /\ goto(p, IF raises THEN "raised" ELSE "keep")
        /\ UNCHANGED <<params, outputs, asked, idx, kept, runs, failures>>

Refused(p) == request(p) \in DOMAIN kept

(* write_trial_results, for mp_routing.py once the trial is conducted. *)
write_trial_results(p) ==
    /\ pc[p] = "keep"
    /\ IF Refused(p)
       THEN goto(p, "raised") /\ UNCHANGED <<kept, idx>>
       ELSE /\ kept' = Put(kept, request(p), result[p])
            /\ idx' = [idx EXCEPT ![p] = @ + 1]
            /\ goto(p, "create")
    /\ UNCHANGED <<params, outputs, asked, result, runs, failures>>

finish(p) ==
    /\ pc[p] = "create" /\ ~ More(p)
    /\ goto(p, "done")
    /\ UNCHANGED <<params, outputs, asked, idx, result, kept, runs, failures>>

AllRunsOver ==
    /\ runs = MaxRuns /\ \A p \in Programs : pc[p] \in {"idle", "done", "raised"}
    /\ UNCHANGED vars

Next ==
    \/ AllRunsOver
    \/ mp_routing_main
    \/ simulations_main
    \/ \E p \in Programs :
          \/ create_solver_cmd(p)
          \/ run_solver(p)
          \/ solver_fails(p)
          \/ invoke_solver_with_params(p)
          \/ write_trial_results(p)
          \/ finish(p)

Spec == Init /\ [][Next]_vars
-----------------------------------------------------------------------------
(* Every variable has the values the code can give it. *)
TypeOK ==
    /\ pc \in [Programs -> {"idle", "create", "solve", "read", "keep", "done", "raised"}]
    /\ \A p \in Programs : pc[p] \in {"solve", "read", "keep"} => idx[p] \in DOMAIN asked[p]
    /\ \A r \in DOMAIN kept : kept[r].of.mode \in Programs
    /\ failures \in 0 .. MaxFailures
    /\ runs \in 0 .. MaxRuns

(* Whatever went wrong, a result read from a former output is one of the   *)
(* same program and seed.                                                  *)
StaleOnlyWithinSeed ==
    \A r \in DOMAIN kept : kept[r].of.mode = r.mode /\ kept[r].of.seed = r.seed
=============================================================================
