----------------------------- MODULE Mirroring ------------------------------
(***************************************************************************)
(* The mirroring experiments: the flows of a trial in the network          *)
(* (PortMirroring), and the trials themselves (MirroringTrials).           *)
(***************************************************************************)
EXTENDS PortMirroring

CONSTANTS NumRuns, FlowCounts, Passes, MaxFailures   \* of the trials
VARIABLES t_kind, verifies, files, solves, trials, t_pc, trial, type_idx, pass, results, reread, failures

T == INSTANCE MirroringTrials WITH kind <- t_kind, pc <- t_pc
-----------------------------------------------------------------------------
(* MirroringTrials: what is kept under a solution type is that trial's     *)
(* solution of the type, for every flow where trials are verified, except  *)
(* that the approximate ones of a flow mirroring trial are its optimal     *)
(* ones from the second pass on.                                           *)
LabelledAsSolved == T!LabelledAsSolved
=============================================================================
