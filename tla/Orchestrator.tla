---------------------------- MODULE Orchestrator ----------------------------
(***************************************************************************)
(* multipath_orchestrator.py: its monitor (MPStatMonitor) and its route    *)
(* adder (RouteInstallation), which share no state.                        *)
(***************************************************************************)
EXTENDS MPStatMonitor

CONSTANTS Switches, Wiring, Routes, MaxTrials, MaxDisruptions
VARIABLES connected, links, tables, trial, pc, sw_list, todo, adj_mat, route, hop,
          installed_routes, disruptions

R == INSTANCE RouteInstallation
-----------------------------------------------------------------------------
(* RouteInstallation: no packet goes round in circles while the traffic    *)
(* runs, if all switches were reset and no two routes share a match or no  *)
(* link is missing.                                                        *)
NoForwardingLoop == R!NoForwardingLoop

(* RouteInstallation: after remove_routes no entry of the trial is left.   *)
RemovedCompletely == R!RemovedCompletely
=============================================================================
