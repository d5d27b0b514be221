---------------------------- MODULE MCMirroring ----------------------------
(***************************************************************************)
(* The mirroring experiments: the flows of a trial in the network          *)
(* (PortMirroring), and the trials themselves (MirroringTrials).  A        *)
(* behaviour is one of the two, as `part' says.                            *)
(***************************************************************************)
EXTENDS Mirroring, Sequences, TLC

(* A triangle of switches with a fourth one attached to it: two            *)
(* isomorphisms.  Every switch has a host; the name server and the cable   *)
(* to the collector's switch are on the fourth.  The port ids of a switch  *)
(* are not its port numbers.  Three flows, two of which cross mirrored     *)
(* ports.                                                                  *)
CONSTANTS a, b, c, d, z

MCTargetEdges == {{1, 2}, {2, 3}, {1, 3}, {3, 4}}
MCPortMap == << 2 :> 1 @@ 3 :> 2, 1 :> 1 @@ 3 :> 2, 1 :> 1 @@ 2 :> 2 @@ 4 :> 3, 3 :> 1 >>
MCPaths == << <<1, 2>>, <<4, 3, 2>>, <<4, 3, 1>> >>
MCMirrorPorts == {<<1, 1>>, <<3, 2>>}
MCMirrorSwitch == <<1, 3, 3>>

Cable(s, p, t, q) == LET l == [src |-> s, src_port |-> p, dst |-> t, dst_port |-> q]
                     IN  {l, Reversed(l)}
MCCabling == Cable(a, 3, b, 3) \cup Cable(b, 4, c, 2) \cup Cable(a, 4, c, 3) \cup Cable(c, 4, d, 3)
             \cup Cable(d, 2, z, 2)
MCAttached == {[switch |-> s, port |-> 1, is |-> "host"] : s \in {a, b, c, d}}
              \cup {[switch |-> z, port |-> 1, is |-> "collector"], [switch |-> d, port |-> 4, is |-> "dns"]}

(* Two providers of two trials, the second with more flows than the first, *)
(* iterated over twice.                                                    *)
MCFlowCounts == <<1, 2>>

VARIABLE part
trialVars == <<t_kind, verifies, files, solves, trials, t_pc, trial, type_idx, pass, results, reread, failures>>

ASSUME T!TrialsAssumption

MCInit ==
    /\ Init /\ T!Init
    /\ \/ part = "network" /\ t_kind = "flow" /\ verifies /\ files.flows.count = 1
       \/ part = "trials" /\ kind = "flow"
MCNext ==
    \/ part = "network" /\ Next /\ UNCHANGED <<part, trialVars>>
    \/ part = "trials" /\ T!Next /\ UNCHANGED <<part, vars>>
MCSpec == MCInit /\ [][MCNext]_<<part, vars, trialVars>>
-----------------------------------------------------------------------------
(* The variables of both parts have the values the code can give them.     *)
TypesOK == TypeOK /\ T!TypeOK
=============================================================================
