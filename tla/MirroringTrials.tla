--------------------------- MODULE MirroringTrials ---------------------------
(***************************************************************************)
(* The trials of the mirroring experiments: flow mirroring                 *)
(* (trials/flow_mirroring_trial.py) and port mirroring                     *)
(* (trials/port_mirroring_trial.py), collected in the providers of         *)
(* port_mirroring/trials.py.  create_trial runs an external solver, whose  *)
(* exit code nobody looks at, and reads the files it leaves in a fixed     *)
(* directory.  A provider yields each trial once per solution type, set to *)
(* that type; its consumer keeps the trial's files in the repository,      *)
(* under the type, and a port mirroring trial can be read back from there. *)
(*                                                                         *)
(* A file is modelled by the solver run that wrote it and the flows it     *)
(* speaks of, flow ids being 1 to n.                                       *)
(***************************************************************************)
EXTENDS Integers, Sequences, FiniteSets, Functions

CONSTANTS NumRuns,       \* providers, "run-0" and on
          FlowCounts,    \* num_flows of the trials of a provider
          Passes,        \* how often each provider is iterated over
          MaxFailures    \* bound: solver runs that fail or leave a flow out

TrialsAssumption ==
    /\ NumRuns \in Nat \ {0} /\ Passes \in Nat \ {0} /\ MaxFailures \in Nat
    /\ FlowCounts \in Seq(Nat \ {0}) /\ FlowCounts # <<>>

NumTrials == NumRuns * Len(FlowCounts)
NumFlows(t) == FlowCounts[((t - 1) % Len(FlowCounts)) + 1]

VARIABLES kind,     \* "flow" or "port"
          verifies, \* trials are created anew until they verify
          files,    \* the solver's directory
          solves,   \* solver runs so far
          trials,   \* the trials created, in order
          pc, trial, type_idx, pass,   \* where the iteration is
          results,  \* what was kept: label and files
          reread,   \* a trial created from files of the repository
          failures

vars == <<kind, verifies, files, solves, trials, pc, trial, type_idx, pass, results, reread, failures>>

get_solution_types(k) ==
    IF k = "flow" THEN <<"approx", "optimal">> ELSE <<"det", "df", "greedy", "optimal", "rnd">>
Types == Range(get_solution_types(kind))

None == [solve |-> 0, type |-> "none", flows |-> 0]
Solution(n, ty, c) == [solve |-> n, type |-> ty, flows |-> c]
-----------------------------------------------------------------------------
(* Files of an earlier session may be there, or none.  Only                *)
(* multi_provider_flow_mirroring verifies its trials.                      *)
Init ==
    /\ kind \in {"flow", "port"} /\ verifies \in BOOLEAN /\ (verifies => kind = "flow")
    /\ \E c \in Range(FlowCounts) \cup {0} :
          files = [flows |-> [solve |-> 0, count |-> c],
                   sol |-> [ty \in Types |-> IF c = 0 THEN None ELSE Solution(0, ty, c)]]
    /\ solves = 0 /\ trials = <<>>
    /\ pc = "create" /\ trial = 1 /\ type_idx = 1 /\ pass = 1
    /\ results = {} /\ reread = {} /\ failures = 0

(* The solver writes the flows and then a solution of each type; it stops  *)
(* after k files, and its solutions have flows 1 to c.                     *)
invoke_solver_with_params(k, n, c) ==
    [flows |-> IF k >= 1 THEN [solve |-> solves + 1, count |-> n] ELSE files.flows,
     sol |-> [ty \in Types |->
                 IF \E i \in 1 .. k - 1 : get_solution_types(kind)[i] = ty
                 THEN Solution(solves + 1, ty, c) ELSE files.sol[ty]]]

(* The objects' __init__: a trial starts with its approximate (flow) or    *)
(* optimal (port) solutions.                                               *)
DefaultType == IF kind = "flow" THEN "approx" ELSE "optimal"

NewTrial(f, s, ts) ==
    [flows |-> f, sol |-> s, types |-> ts, solutions |-> s[DefaultType], type |-> DefaultType]

verify_trial(t) == \A ty \in Types : t.sol[ty].flows >= t.flows.count

AllCreated(ts) == Len(ts) = NumTrials

Readable(f) == f.flows.count > 0 /\ \A ty \in Types : f.sol[ty] # None

(* One round of the loops of multi_provider_flow_mirroring, which asks for *)
(* the trial again until it verifies, and of the other providers.  A file  *)
(* that is not there ends the program.                                     *)
create_trial(k, c) ==
    LET n == NumFlows(Len(trials) + 1)
        f == invoke_solver_with_params(k, n, c)
        t == NewTrial(f.flows, f.sol, get_solution_types(kind))
        added == Readable(f) /\ (verifies => verify_trial(t))
        fails == k <= Cardinality(Types) \/ c < n
    IN  /\ pc = "create" /\ c \in {n - 1, n}
        /\ fails => failures < MaxFailures
        /\ failures' = IF fails THEN failures + 1 ELSE failures
        /\ files' = f /\ solves' = solves + 1
        /\ trials' = IF added THEN Append(trials, t) ELSE trials
        /\ pc' = IF ~ Readable(f) THEN "raised" ELSE IF AllCreated(trials') THEN "iterate" ELSE pc
        /\ UNCHANGED <<kind, verifies, trial, type_idx, pass, results, reread>>
-----------------------------------------------------------------------------
SolutionsKept(t, ty) == [t EXCEPT !.type = ty]  \* mutant: only the label is set

(* FlowMirroringTrial assigns the approximate solutions to a local name,   *)
(* self_solutions, and keeps the solutions it had.                         *)
flow_set_solution_type(t, ty) ==
    [t EXCEPT !.type = ty, !.solutions = IF ty = "approx" THEN t.solutions ELSE t.sol[ty]]
port_set_solution_type(t, ty) == [t EXCEPT !.type = ty, !.solutions = t.sol[ty]]
set_solution_type(t, ty) ==
    IF kind = "flow" THEN flow_set_solution_type(t, ty) ELSE port_set_solution_type(t, ty)

(* build_results_files, kept under the trial's solution type.              *)
build_results_files(t) ==
    [label |-> t.type, solutions |-> t.solutions, flows |-> t.flows]

(* One step of TrialProvider.__iter__, and its consumer.                   *)
Yield ==
    /\ pc = "iterate"
    /\ LET ts == trials[trial].types
           t == set_solution_type(trials[trial], ts[type_idx])
       IN  /\ trials' = [trials EXCEPT ![trial] = t]
           /\ results' = results \cup {[trial |-> trial, pass |-> pass, files |-> build_results_files(t)]}
           /\ \/ /\ type_idx < Len(ts)
                 /\ type_idx' = type_idx + 1 /\ UNCHANGED <<trial, pass, pc>>
              \/ /\ type_idx = Len(ts) /\ trial < Len(trials)
                 /\ type_idx' = 1 /\ trial' = trial + 1 /\ UNCHANGED <<pass, pc>>
              \/ /\ type_idx = Len(ts) /\ trial = Len(trials)
                 /\ type_idx' = 1 /\ trial' = 1
                 /\ IF pass < Passes THEN pass' = pass + 1 /\ pc' = pc
                    ELSE pass' = pass /\ pc' = "repository"
    /\ UNCHANGED <<kind, verifies, files, solves, reread, failures>>

from_repository_files(r) ==
    NewTrial(r.files.flows, [ty \in Types |-> IF ty = r.files.label THEN r.files.solutions ELSE None],
             <<r.files.label>>)

(* re_run_trials: the trial read back is yielded by a provider of its own. *)
ReRun(r) ==
    /\ pc = "repository" /\ kind = "port" /\ r \in results
    /\ LET t == from_repository_files(r)
       IN  reread' = {[from |-> r, as |-> set_solution_type(t, t.types[i])] : i \in DOMAIN t.types}
    /\ pc' = "done"
    /\ UNCHANGED <<kind, verifies, files, solves, trials, trial, type_idx, pass, results, failures>>

Finished == (pc \in {"done", "raised"} \/ (pc = "repository" /\ kind = "flow")) /\ UNCHANGED vars

Next ==
    \/ Finished
    \/ \E k \in 0 .. Cardinality(Types) + 1, c \in 0 .. NumFlows(Len(trials) + 1) : create_trial(k, c)
    \/ Yield
    \/ \E r \in results : ReRun(r)

Spec == Init /\ [][Next]_vars
-----------------------------------------------------------------------------
(* Every variable has the values the trials and providers can give it; a   *)
(* file of the solver has solutions of its own type, and a provider never  *)
(* gets more trials than were asked for.                                   *)
TypeOK ==
    /\ kind \in {"flow", "port"}
    /\ \A ty \in Types : files.sol[ty].type \in {ty, "none"}
    /\ Len(trials) <= NumTrials
    /\ \A i \in DOMAIN trials : trials[i].type \in Types /\ trials[i].types = get_solution_types(kind)
    /\ pc \in {"create", "iterate", "repository", "done", "raised"}
    /\ trial \in 1 .. NumTrials /\ type_idx \in 1 .. Cardinality(Types) /\ pass \in 1 .. Passes
    /\ failures \in 0 .. MaxFailures
    /\ \A r \in results : r.trial \in 1 .. NumTrials /\ r.files.label \in Types

(* What is kept under a solution type is that trial's solution of the      *)
(* type, as a trial goes through its types, with one exception: from the   *)
(* second pass over a provider on, what a flow mirroring trial keeps as    *)
(* approximate are its optimal solutions.  And where trials are verified   *)
(* it solves every flow of the trial, whatever the solver did and left in  *)
(* its directory, so that add_flow_mirroring_flows finds                   *)
(* solutions[flow_id].                                                     *)
LabelledAsSolved ==
    \A r \in results :
        LET type == IF kind = "flow" /\ r.files.label = "approx" /\ r.pass > 1
                    THEN "optimal" ELSE r.files.label
        IN  /\ r.files.solutions = trials[r.trial].sol[type]
            /\ verifies => r.files.solutions.flows >= r.files.flows.count
=============================================================================
