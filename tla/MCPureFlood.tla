----------------------------- MODULE MCPureFlood -----------------------------
(***************************************************************************)
(* PureFlood on a small graph: 0, 2, 3 and 4 hear each other and 1 hears 3 *)
(* only.  Successive initiators are not neighbours, and under loss a wave  *)
(* may take the long way, 1-3-0-2-4, and be cut by the round bound.        *)
(***************************************************************************)
EXTENDS PureFlood

Kite5 == {<<0, 2>>, <<0, 3>>, <<0, 4>>, <<1, 3>>, <<2, 3>>, <<2, 4>>, <<3, 4>>}
DefaultLength == None
=============================================================================
