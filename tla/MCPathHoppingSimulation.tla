---------------------- MODULE MCPathHoppingSimulation ----------------------
(* Two flows that cross: they share node 2, flow 0 has three paths of three *)
(* different lengths and flow 1 has two.                                    *)
EXTENDS PathHoppingSimulation

MCFlows == {0, 1}
MCNodes == 0..7
MCPaths ==
  [f \in MCFlows |->
     IF f = 0 THEN << <<0, 1>>, <<0, 2, 1>>, <<0, 3, 4, 1>> >>
              ELSE << <<5, 2, 6>>, <<5, 7, 4, 6>> >>]
=============================================================================
