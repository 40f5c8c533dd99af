--------------------------- MODULE MCPaxosPipeline ---------------------------
(***************************************************************************)
(* Values for the constants of PaxosPipeline: small topologies of          *)
(* src/network.rs (full_mesh, line) and loss schedules.                    *)
(***************************************************************************)
EXTENDS PaxosPipeline

Line3 == {<<0, 1>>, <<1, 2>>}
Line4 == {<<0, 1>>, <<1, 2>>, <<2, 3>>}
Mesh3 == {<<0, 1>>, <<1, 2>>, <<0, 2>>}
Mesh4 == {e \in (0 .. 3) \X (0 .. 3) : e[1] < e[2]}
NeverLossy == -1
=============================================================================
