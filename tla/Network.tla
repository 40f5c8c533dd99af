------------------------------ MODULE Network ------------------------------
(***************************************************************************)
(* The static radio network of src/network.rs: an undirected graph over    *)
(* the nodes 0..N-1.  Nothing changes it during a run, so it is a          *)
(* parameter: any graph a builder makes (TopologyBuilders) or a graph file *)
(* holds.                                                                  *)
(***************************************************************************)
EXTENDS Integers, FiniteSets

CONSTANTS
    N,          \* number of nodes (config.network.num_nodes)
    Edges       \* the links, as ordered pairs; either direction names the link

ASSUME NAssumption == N \in Nat /\ N >= 2       \* SimConfig::validate
ASSUME EdgesAssumption == Edges \subseteq (0 .. N-1) \X (0 .. N-1)

Node == 0 .. N-1

\* An absent Option<u64>, and an empty byte vector.
None == -1

\* add_edge stores both directions; a self-loop is never a link to another node.
Adjacent(u, v) == u # v /\ (<<u, v>> \in Edges \/ <<v, u>> \in Edges)

Neighbors(u) == {v \in Node : Adjacent(u, v)}

\* S hangs together around i: no proper part of S that holds i is cut off from the rest.
ConnectedAround(S, i) ==
    /\ i \in S
    /\ \A X \in SUBSET S :
          i \in X /\ X # S => \E u \in X, v \in S \ X : Adjacent(u, v)
=============================================================================
