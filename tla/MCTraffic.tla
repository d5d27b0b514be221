----------------------------- MODULE MCTraffic -----------------------------
(***************************************************************************)
(* The two traffic generators, in Python and in Rust.  A behaviour is one  *)
(* of TrafficGeneration or one of TrafficGenerationRs, as `part' says.     *)
(***************************************************************************)
EXTENDS Traffic

(* Two flows: one is silent every other slice, the rate of the other is    *)
(* negative every other slice.  The shares of one add up to 1.             *)
MCFlows == {1, 2}
MCRates == [f \in MCFlows |-> IF f = 1 THEN <<4, 0>> ELSE <<2, -4>>]
MCProbMat == [f \in MCFlows |-> IF f = 1 THEN <<0, 2, 1>> ELSE <<1, 1>>]

(* A flow that sleeps a tick and a half, which is truncated to one, one    *)
(* that never gets to sleep, and one with a rate of zero.                  *)
MCRustFlows == <<[tx_rate |-> 4, packet_len |-> 3],
                 [tx_rate |-> 8, packet_len |-> 3],
                 [tx_rate |-> 0, packet_len |-> 3]>>

VARIABLE part
rustVars == <<pc, sockets, threads, wake, sent, clock, killed>>

ASSUME RS!GeneratorAssumption

Rust == part = "rust"
MCInit == Init /\ RS!Init /\ part \in {"python", "rust"}
MCNext ==
    \/ ~Rust /\ Next /\ UNCHANGED <<part, rustVars>>
    \/ Rust /\ RS!Next /\ UNCHANGED <<part, vars>>
MCSpec == MCInit /\ [][MCNext]_<<part, vars, rustVars>>
-----------------------------------------------------------------------------
(* The variables of both generators have the values the code can give.     *)
TypesOK == TypeOK /\ RS!TypeOK
=============================================================================
