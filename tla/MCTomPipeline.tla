--------------------------- MODULE MCTomPipeline ---------------------------
(***************************************************************************)
(* TomPipeline on a full mesh, in which a flood may end with any set of    *)
(* nodes around the initiator: every smaller graph allows fewer.           *)
(***************************************************************************)
EXTENDS TomPipeline

FullMesh == {<<u, v>> \in Node \X Node : u < v}
=============================================================================
