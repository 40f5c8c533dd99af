------------------------------ MODULE Topology ------------------------------
(***************************************************************************)
(* Hop distances in the network of src/network.rs: the breadth-first       *)
(* search of NetworkGraph::diameter, from which the CI engine derives the  *)
(* length of a round.  Recursion is written as a function, so that the     *)
(* modules built on this one can be reasoned about as well as run.         *)
(***************************************************************************)
EXTENDS Network, FiniteSetsExt

\* WithinHops(i)[k]: the nodes the search from i has found once the k-th layer is done.
WithinHops(i) ==
    LET B[k \in 0 .. N-1] ==
            IF k = 0 THEN {i} ELSE B[k-1] \cup UNION {Neighbors(u) : u \in B[k-1]}
    IN  B

\* The nodes whose dist the search lowers from usize::MAX.
Component(i) == WithinHops(i)[N-1]

Distance(i, j) == Min({k \in 0 .. N-1 : j \in WithinHops(i)[k]})

\* A node the search does not find is left out: the eccentricity is within the component.
Eccentricity(i) == Max({Distance(i, j) : j \in Component(i)})

Diameter == Max({Eccentricity(i) : i \in Node})
=============================================================================
