--------------------------- MODULE MCTwoPcPipeline ---------------------------
(***************************************************************************)
(* TwoPcPipeline on a full mesh, in which a flood may end with any set of  *)
(* nodes around the initiator: every smaller graph allows fewer.           *)
(***************************************************************************)
EXTENDS TwoPcPipeline

FullMesh == {<<u, v>> \in Node \X Node : u < v}
=============================================================================
