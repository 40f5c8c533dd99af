--------------------------- MODULE MCCeSimulator ---------------------------
(***************************************************************************)
(* CeSimulator where every node may hear every other: with losses that     *)
(* includes what any other graph on the same nodes allows.                 *)
(***************************************************************************)
EXTENDS CeSimulator

FullMesh == {<<i, j>> \in Node \X Node : i < j}
=============================================================================
