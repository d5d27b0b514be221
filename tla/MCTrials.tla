------------------------------ MODULE MCTrials ------------------------------
(***************************************************************************)
(* The programs that run traffic on remote hosts, mp_routing.py and        *)
(* mininet_tuiti.py, and those that have the solver make their trials,     *)
(* mp_routing.py and simulations.py. A behaviour is one of MultipathTrial, *)
(* of MininetTrial or of SolverTrials, as `part' says.                     *)
(***************************************************************************)
EXTENDS MultipathTrial, TrialPrograms, TLC

(* Two multipath trials over the same hosts, the first with two parallel   *)
(* flows, the second with a flow each way.                                 *)
CONSTANTS a, b
Flow(s, d, n) == [source_node |-> s, destination_node |-> d, paths |-> n]
MCFlows == << <<Flow(a, b, 1), Flow(a, b, 2)>>, <<Flow(a, b, 2), Flow(b, a, 1)>> >>

(* Two mininet trials on two hosts: one host sends two flows, then one;    *)
(* the other only receives.                                                *)
MCFlowCount == << 0 :> 2 @@ 1 :> 0, 0 :> 1 @@ 1 :> 0 >>

(* Two trial types with a seed each program may use; simulations of two    *)
(* seeds, which may be the same, of one flow count, one small and one      *)
(* large node count.  The solver writes a flow over two paths, as it       *)
(* should, with one of them ending at another node, or with twice the      *)
(* flow's demand.                                                          *)
MCVleSeeds == <<1, 2>>
MCSeedLists == {<<1, 2>>, <<1, 1>>}
MCFlowCounts == <<100>>
MCNodeCounts == <<100>>
MCLargeNodeCounts == <<2500>>

Via(n, last, fraction) == [nodes |-> <<1, n, last>>, fraction |-> fraction]
OneFlow(paths) == <<[source_node |-> 1, destination_node |-> 2, paths |-> paths]>>
MCSolverFlows ==
    {OneFlow(<<Via(3, 2, 1), Via(4, 2, 1)>>), OneFlow(<<Via(3, 2, 1), Via(4, 3, 1)>>),
     OneFlow(<<Via(3, 2, 2), Via(4, 2, 2)>>)}

ASSUME M!MininetAssumption /\ V!SolverTrialsAssumption

VARIABLE part
mininetVars ==
    <<m_trial, m_pc, host, server_proc, client_procs, last_proc, alive, ready,
      signalled, host_files, dumped, end_host_results, recorded, lost, m_failures>>
solverVars ==
    <<params, outputs, s_pc, asked, idx, result, kept, runs, s_failures>>

Mininet == part = "mininet"
MCInit == Init /\ M!Init /\ V!Init /\ part \in {"multipath", "mininet", "solver"}
MCNext ==
    \/ part = "multipath" /\ Next /\ UNCHANGED <<part, mininetVars, solverVars>>
    \/ Mininet /\ M!Next /\ UNCHANGED <<part, vars, solverVars>>
    \/ part = "solver" /\ V!Next /\ UNCHANGED <<part, vars, mininetVars>>
MCSpec ==
    /\ MCInit /\ [][MCNext]_<<part, vars, mininetVars, solverVars>>
    /\ WF_mininetVars(Mininet /\ M!Driver) /\ WF_mininetVars(Mininet /\ M!Processes)
-----------------------------------------------------------------------------
(* The variables of each program have the values the code can give them.   *)
TypesOK == TypeOK /\ M!TypeOK /\ V!TypeOK

(* MininetTrial: every process the driver got the pid of is gone in the    *)
(* end, unless finally itself raises.                                      *)
HeldProcessesStopped == Mininet => M!HeldProcessesStopped
=============================================================================
