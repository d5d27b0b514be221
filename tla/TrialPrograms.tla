--------------------------- MODULE TrialPrograms ----------------------------
(***************************************************************************)
(* The programs beside the multipath trials themselves: the trials on      *)
(* mininet hosts (MininetTrial), and the two programs that have the solver *)
(* make their trials (SolverTrials).                                       *)
(***************************************************************************)
CONSTANTS MininetTrials, HostCount, FlowCount, MaxLost, MininetFailures
VARIABLES m_trial, m_pc, host, server_proc, client_procs, last_proc, alive, ready, signalled,
          host_files, dumped, end_host_results, recorded, lost, m_failures

M == INSTANCE MininetTrial WITH
        MaxTrials <- MininetTrials, MaxFailures <- MininetFailures,
        trial <- m_trial, pc <- m_pc, files <- host_files, failures <- m_failures

CONSTANTS TrialTypes, VleSeeds, SeedLists, FlowCounts, NodeCounts, LargeNodeCounts,
          SolverFlows, Unit, SolverRuns, SolverFailures
VARIABLES params, outputs, s_pc, asked, idx, result, kept, runs, s_failures

V == INSTANCE SolverTrials WITH
        MaxRuns <- SolverRuns, MaxFailures <- SolverFailures, pc <- s_pc, failures <- s_failures
-----------------------------------------------------------------------------
(* MininetTrial: results of another trial are recorded only in place of a  *)
(* file that was not written in time, or through a process that was lost.  *)
OwnUnlessUnwritten == M!OwnUnlessUnwritten

(* SolverTrials: whatever went wrong, a result read from a former output is*)
(* one of the same program and seed.                                       *)
StaleOnlyWithinSeed == V!StaleOnlyWithinSeed
=============================================================================
