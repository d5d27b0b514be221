--------------------------- MODULE MCVirtualHosts ---------------------------
(***************************************************************************)
(* The two programs that use virtual hosts, path_hopping.py and            *)
(* path_hopping_attacker_testing.py.  A behaviour is one of                *)
(* PathHoppingTrial or one of AttackerTesting, as `part' says.             *)
(***************************************************************************)
EXTENDS PathHoppingTrial

(* Three flows between two hosts, two of them over the same pair: two      *)
(* paths and one path one way, one path back.                              *)
MCFlows == [k \in 1 .. 3 |->
                [source |-> IF k = 3 THEN 2 ELSE 1, destination |-> IF k = 3 THEN 1 ELSE 2,
                 paths |-> IF k = 1 THEN 2 ELSE 1]]

VARIABLES part, t_addresses, t_virtual_hosts, endpoints, complete, captures, t_monitors, qdisc, record,
          output, session, t_trial, t_pc, h, sender, receiver, started, packets, hopping_times,
          measured, crashed, t_custody, t_failures
testingVars ==
    <<t_addresses, t_virtual_hosts, endpoints, complete, captures, t_monitors, qdisc, record,
      output, session, t_trial, t_pc, h, sender, receiver, started, packets, hopping_times,
      measured, crashed, t_custody, t_failures>>

A == INSTANCE AttackerTesting WITH
        TrialsPerSession <- 2, NumSessions <- 2, MaxFailures <- 3,
        addresses <- t_addresses, virtual_hosts <- t_virtual_hosts, monitors <- t_monitors,
        trial <- t_trial, pc <- t_pc, custody <- t_custody, failures <- t_failures
ASSUME A!TestingAssumption

Testing == part = "testing"
MCInit == Init /\ A!Init /\ part \in {"hopping", "testing"}
MCNext ==
    \/ ~Testing /\ Next /\ UNCHANGED <<part, testingVars>>
    \/ Testing /\ A!Next /\ UNCHANGED <<part, vars>>
MCSpec ==
    /\ MCInit /\ [][MCNext]_<<part, vars, testingVars>>
    /\ WF_vars(~Testing /\ Next)
    /\ WF_testingVars(Testing /\ A!Main) /\ WF_testingVars(Testing /\ A!SomeSenderHops)
    /\ SF_testingVars(Testing /\ A!SomeSenderEnds) /\ SF_testingVars(Testing /\ A!SomeReceiverEnds)
-----------------------------------------------------------------------------
(* The variables of both programs have the values the code can give them.  *)
TypesOK == TypeOK /\ A!TypeOK

(* AttackerTesting: a session gives back what is its trials' own, records  *)
(* results only of a trial with both hosts and a stopped monitor, and      *)
(* after a crash the next session leaves alone what it finds.              *)
TestingLifecycle == A!TestingLifecycle

(* AttackerTesting: packets, hopping times and delays a trial is recorded  *)
(* with are its own and its session's, as far as failures allow.           *)
OwnMeasurements == A!OwnMeasurements

(* Both programs come to their end.  PathHoppingTrial: main gets through   *)
(* all trials, however the calls fail.  AttackerTesting: so does a         *)
(* session, unless it waits for ever for a receiver whose sender died.     *)
ProgramsEnd == (~Testing => RunEnds) /\ (Testing => A!SessionsEnd)
=============================================================================
