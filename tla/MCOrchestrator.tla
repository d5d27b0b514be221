--------------------------- MODULE MCOrchestrator ---------------------------
(***************************************************************************)
(* The two parts of multipath_orchestrator.py, its monitor and its route   *)
(* adder, which share no state: a behaviour is one of MPStatMonitor or one *)
(* of RouteInstallation, as `part' says.                                   *)
(***************************************************************************)
EXTENDS Orchestrator, Sequences, TLC

(* Four switches in a ring with a diagonal.  In the first trial two        *)
(* parallel flows have a path with the same match, crossing the diagonal   *)
(* both ways; in the second a flow has two paths.                          *)
CONSTANTS s1, s2, s3, s4

MCWiring == s1 :> <<s2, s3>> @@ s2 :> <<s1, s4, s3>> @@ s3 :> <<s2, s4, s1>> @@ s4 :> <<s3, s2>>
Path(id, nodes) == [path_id |-> id, nodes |-> nodes]
MCRoutes == << <<Path(0, <<s1, s2, s3, s4>>), Path(0, <<s1, s3, s2, s4>>)>>,
               <<Path(0, <<s1, s3, s4>>), Path(1, <<s1, s2, s4>>)>> >>

VARIABLE part
routeVars == <<connected, links, tables, trial, pc, sw_list, todo, adj_mat, route, hop,
               installed_routes, disruptions>>

ASSUME R!RoutesAssumption

MCInit == Init /\ R!Init /\ part \in {"monitor", "routes"}
MCNext ==
    \/ part = "monitor" /\ Next /\ UNCHANGED <<part, routeVars>>
    \/ part = "routes" /\ R!Next /\ UNCHANGED <<part, vars>>
MCSpec ==
    /\ MCInit /\ [][MCNext]_<<part, vars, routeVars>>
    /\ WF_vars(part = "monitor" /\ MainThread)
    /\ \A c \in Chains : WF_vars(part = "monitor" /\ TimerThread(c))
-----------------------------------------------------------------------------
(* The variables of both parts have the values the code can give them.     *)
TypesOK == TypeOK /\ R!TypeOK
=============================================================================
