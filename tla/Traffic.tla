------------------------------ MODULE Traffic -------------------------------
(***************************************************************************)
(* The two traffic generators: the one in Python with its server           *)
(* (TrafficGeneration) and the one in Rust (TrafficGenerationRs).          *)
(***************************************************************************)
EXTENDS TrafficGeneration

CONSTANTS RustFlows, Second, MaxTime, RustBursts   \* of the generator in Rust
VARIABLES pc, sockets, threads, wake, sent, clock, killed

RS == INSTANCE TrafficGenerationRs WITH Flows <- RustFlows, MaxBursts <- RustBursts, now <- clock
-----------------------------------------------------------------------------
(* TrafficGenerationRs: however late its thread is run, a flow is never    *)
(* ahead of ten times its rate by more than a burst.                       *)
NeverAheadOfTenTimes == RS!NeverAheadOfTenTimes
=============================================================================
