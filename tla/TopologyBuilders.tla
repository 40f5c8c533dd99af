-------------------------- MODULE TopologyBuilders --------------------------
(***************************************************************************)
(* build_graph of src/main.rs and the builders of src/network.rs it calls. *)
(* The fixed shapes are operators; the random ones are drawn link by link, *)
(* from a generator of which nothing is known but that it may give any     *)
(* value.  adj[i] is the set of nodes that node i can hear.                *)
(***************************************************************************)
EXTENDS Integers, Sequences, FiniteSets, FiniteSetsExt, SequencesExt

CONSTANTS
    NumNodes,      \* config.network.num_nodes
    MinNeighbors, MaxNeighbors,   \* of random_topology, 2 and 5 in build_graph
    M              \* of scale_free, 2 in build_graph

\* gen_range of an empty range panics, and so does choose from an empty list
\* of nodes, which m = 1 would make of the initial clique.
ASSUME BuildersAssumption ==
    /\ NumNodes \in Nat /\ NumNodes >= 2
    /\ MinNeighbors \in Nat /\ MaxNeighbors \in Nat /\ MinNeighbors <= MaxNeighbors
    /\ M \in Nat /\ M >= 2

VARIABLES
    topology,        \* config.network.topology
    pc,              \* where the builder is
    adj,             \* the graph so far
    i,               \* the node of the current loop
    num_neighbors,   \* random_topology: what was drawn for node i
    repeated_nodes,  \* scale_free: the list candidates are drawn from
    targets          \* scale_free: what was drawn for node i

vars == <<topology, pc, adj, i, num_neighbors, repeated_nodes, targets>>

Fixed == {"full_mesh", "line", "star", "grid", "ring", "tree"}
Drawn == {"scale_free", "random", "partial_mesh"}
BranchingFactor == 3

Links(n, Linked(_, _)) ==
    [u \in 0 .. n - 1 |-> {v \in 0 .. n - 1 : Linked(u, v) \/ Linked(v, u)}]
Link(graph, u, v) == [graph EXCEPT ![u] = @ \cup {v}, ![v] = @ \cup {u}]
NoLinks == Links(NumNodes, LAMBDA u, v : FALSE)

----------------------------------------------------------------------------
full_mesh(n) == Links(n, LAMBDA u, v : u # v)
line(n) == Links(n, LAMBDA u, v : v = u + 1)
star(n) == Links(n, LAMBDA u, v : u = 0 /\ v > 0)
\* A mutation of grid: the last node of a row is linked to the first of the next.
wrapped_grid(rows, cols) == Links(rows * cols, LAMBDA u, v : v = u + 1 \/ v = u + cols)
grid(rows, cols) ==
    Links(rows * cols,
          LAMBDA u, v : \/ v = u + 1 /\ (u % cols) + 1 < cols
                        \/ v = u + cols /\ (u \div cols) + 1 < rows)
ring(n) == Links(n, LAMBDA u, v : v = u + 1 \/ (n > 2 /\ u = 0 /\ v = n - 1))
tree(n, branching_factor) ==
    Links(n, LAMBDA u, v :
               v \in u * branching_factor + 1 .. u * branching_factor + branching_factor)

\* The square grid that holds num_nodes nodes may hold more.
Side == Min({s \in 1 .. NumNodes : s * s >= NumNodes})
Shape ==
    CASE topology = "full_mesh" -> full_mesh(NumNodes)
      [] topology = "line" -> line(NumNodes)
      [] topology = "star" -> star(NumNodes)
      [] topology = "grid" -> grid(Side, Side)
      [] topology = "ring" -> ring(NumNodes)
      [] topology = "tree" -> tree(NumNodes, BranchingFactor)

TypeOK ==
    /\ topology \in Fixed \cup Drawn
    /\ pc \in {"start", "attach", "coins", "quota", "neighbors", "targets", "done"}
    /\ \A u \in DOMAIN adj : adj[u] \subseteq DOMAIN adj \ {u}
    /\ i \in 0 .. NumNodes /\ num_neighbors \in 0 .. MaxNeighbors
    /\ repeated_nodes \in Seq(0 .. NumNodes - 1)
    /\ targets \subseteq 0 .. NumNodes - 1 /\ Cardinality(targets) <= M

Init ==
    /\ topology \in Fixed \cup Drawn
    /\ pc = "start" /\ adj = NoLinks /\ i = 0
    /\ num_neighbors = 0 /\ repeated_nodes = <<>> /\ targets = {}

BuildShape ==
    /\ pc = "start" /\ topology \in Fixed
    /\ adj' = Shape /\ pc' = "done"
    /\ UNCHANGED <<topology, i, num_neighbors, repeated_nodes, targets>>

----------------------------------------------------------------------------
(***************************************************************************)
(* random_topology and partial_mesh: a tree first, each node attached to   *)
(* an earlier one, so that the graph is connected.                         *)
(***************************************************************************)
StartTree ==
    /\ pc = "start" /\ topology \in {"random", "partial_mesh"}
    /\ i' = 1 /\ pc' = "attach"
    /\ UNCHANGED <<topology, adj, num_neighbors, repeated_nodes, targets>>
\* A mutation of Earlier: a node may be attached to itself, which is no link.
EarlierOrSame == 0 .. i
Earlier == 0 .. i - 1
Attach ==
    /\ pc = "attach"
    /\ \E neighbor \in Earlier : adj' = Link(adj, i, neighbor)
    /\ IF i + 1 < NumNodes
       THEN i' = i + 1 /\ UNCHANGED pc
       ELSE i' = 0 /\ pc' = IF topology = "random" THEN "quota" ELSE "coins"
    /\ UNCHANGED <<topology, num_neighbors, repeated_nodes, targets>>

\* One draw against prob for every pair, in one step: nothing looks at the graph meanwhile.
TossCoins ==
    /\ pc = "coins"
    /\ \E heads \in SUBSET {p \in (DOMAIN adj) \X (DOMAIN adj) : p[1] < p[2]} :
         adj' = [u \in DOMAIN adj |->
                   adj[u] \cup {v \in DOMAIN adj : <<u, v>> \in heads \/ <<v, u>> \in heads}]
    /\ pc' = "done"
    /\ UNCHANGED <<topology, i, num_neighbors, repeated_nodes, targets>>

DrawQuota ==
    /\ pc = "quota"
    /\ num_neighbors' \in MinNeighbors .. MaxNeighbors
    /\ pc' = "neighbors"
    /\ UNCHANGED <<topology, adj, i, repeated_nodes, targets>>
\* The while loop draws again when it hits i or a node it already has, so this
\* action may stutter.
\* A mutation of Candidates: only later nodes are drawn.
LaterNodes == i + 1 .. NumNodes - 1
Candidates == 0 .. NumNodes - 1
AddNeighbor ==
    /\ pc = "neighbors" /\ Cardinality(adj[i]) < num_neighbors
    /\ \E neighbor \in Candidates : neighbor # i /\ adj' = Link(adj, i, neighbor)
    /\ UNCHANGED <<topology, pc, i, num_neighbors, repeated_nodes, targets>>
NextNode ==
    /\ pc = "neighbors" /\ Cardinality(adj[i]) >= num_neighbors
    /\ num_neighbors' = 0
    /\ IF i + 1 < NumNodes THEN i' = i + 1 /\ pc' = "quota" ELSE pc' = "done" /\ UNCHANGED i
    /\ UNCHANGED <<topology, adj, repeated_nodes, targets>>

----------------------------------------------------------------------------
(***************************************************************************)
(* scale_free: each new node takes m different targets from a list that    *)
(* holds every node once for each of its links.                            *)
(***************************************************************************)
Copies(u, n) == [k \in 1 .. n |-> u]
SeedClique ==
    /\ pc = "start" /\ topology = "scale_free"
    /\ IF NumNodes <= M
       THEN adj' = full_mesh(NumNodes) /\ pc' = "done" /\ UNCHANGED <<i, repeated_nodes>>
       ELSE /\ adj' = [u \in DOMAIN adj |-> IF u < M THEN (0 .. M - 1) \ {u} ELSE {}]
            /\ repeated_nodes' = FlattenSeq([k \in 1 .. M |-> Copies(k - 1, M - 1)])
            /\ i' = M /\ pc' = "targets"
    /\ UNCHANGED <<topology, num_neighbors, targets>>
DrawTarget ==
    /\ pc = "targets" /\ Cardinality(targets) < M
    /\ \E candidate \in ToSet(repeated_nodes) : targets' = targets \cup {candidate}
    /\ UNCHANGED <<topology, pc, adj, i, num_neighbors, repeated_nodes>>
Weights == SetToSortSeq(targets, <) \o Copies(i, M)
Wire ==
    /\ pc = "targets" /\ Cardinality(targets) = M
    /\ adj' = [u \in DOMAIN adj |->
                 IF u = i THEN adj[u] \cup targets
                 ELSE IF u \in targets THEN adj[u] \cup {i} ELSE adj[u]]
    /\ repeated_nodes' = repeated_nodes \o Weights
    /\ targets' = {}
    /\ IF i + 1 < NumNodes THEN i' = i + 1 /\ UNCHANGED pc ELSE pc' = "done" /\ UNCHANGED i
    /\ UNCHANGED <<topology, num_neighbors>>

Built == pc = "done" /\ UNCHANGED vars

Next ==
    \/ BuildShape \/ StartTree \/ Attach \/ TossCoins \/ DrawQuota \/ AddNeighbor \/ NextNode
    \/ SeedClique \/ DrawTarget \/ Wire \/ Built

Spec == Init /\ [][Next]_vars

\* The generator does not repeat itself for ever: a loop that draws until it
\* hits something new, hits something new if there is anything.
FairSpec == Spec /\ WF_vars(Next)

----------------------------------------------------------------------------
(***************************************************************************)
(* Properties.                                                             *)
(***************************************************************************)
EdgesOf(graph) == {e \in (DOMAIN graph) \X (DOMAIN graph) : e[2] \in graph[e[1]]}
edge_count(graph) == Cardinality(EdgesOf(graph)) \div 2
Graph == INSTANCE Topology WITH N <- Cardinality(DOMAIN adj), Edges <- EdgesOf(adj)

(***************************************************************************)
(* Whatever is drawn, the engines get what they rely on (diameter(), from  *)
(* which round lengths and drain limits follow, leaves unreachable nodes   *)
(* out): at least num_nodes nodes, each hearing those that hear it, and    *)
(* all of them connected; and each topology has its own number of links    *)
(* and, where it is fixed, the diameter of its shape.                      *)
(***************************************************************************)
GraphIsUsable ==
    pc = "done" =>
        /\ (DOMAIN adj) = 0 .. Cardinality(DOMAIN adj) - 1 /\ Cardinality(DOMAIN adj) >= NumNodes
        /\ \A u \in DOMAIN adj : \A v \in adj[u] : u \in adj[v]
        /\ Graph!Component(0) = DOMAIN adj
ShapeIsRight ==
    pc = "done" =>
        CASE topology = "full_mesh" -> Graph!Diameter = 1
          [] topology \in {"line", "tree"} ->
               /\ edge_count(adj) = NumNodes - 1
               /\ topology = "line" => Graph!Diameter = NumNodes - 1
               /\ topology = "tree" => \A u \in DOMAIN adj \ {0} :
                    Cardinality({v \in adj[u] : v < u}) = 1
          [] topology = "star" -> Graph!Diameter = Min({NumNodes - 1, 2})
          [] topology = "grid" ->
               Graph!Diameter = 2 * (Side - 1) /\ edge_count(adj) = 2 * Side * (Side - 1)
          [] topology = "ring" -> Graph!Diameter = Max({NumNodes \div 2, 1})
          [] topology = "scale_free" ->
               NumNodes > M => edge_count(adj) = ((M * (M - 1)) \div 2) + (NumNodes - M) * M
          [] topology = "random" -> \A u \in DOMAIN adj : Cardinality(adj[u]) >= MinNeighbors
          [] topology = "partial_mesh" -> edge_count(adj) >= NumNodes - 1

(***************************************************************************)
(* Attachment in scale_free is preferential: between two nodes, the list   *)
(* the targets are drawn from holds every node as often as it has links.   *)
(***************************************************************************)
AttachmentByDegree ==
    topology = "scale_free" /\ pc # "start" /\ NumNodes > M =>
        \A u \in DOMAIN adj :
            Cardinality({k \in DOMAIN repeated_nodes : repeated_nodes[k] = u})
              = Cardinality(adj[u])

\* Whatever is drawn, the graph is fit for use and of its kind when it is done,
\* and grows by the rule of its kind until then.
BuiltGraphIsSound == GraphIsUsable /\ ShapeIsRight /\ AttachmentByDegree

(***************************************************************************)
(* Every builder ends, provided that random_topology does not ask a node   *)
(* for more neighbours than there are; nothing in the code sees to that.   *)
(***************************************************************************)
BuildersEnd == MaxNeighbors < NumNodes => <>(pc = "done")

----------------------------------------------------------------------------
(***************************************************************************)
(* docs/simulator.md: "`random` | min/max degree 2-5".  The loop tests the *)
(* degree of the node it is at, and each link also raises that of the      *)
(* other end.                                                              *)
(***************************************************************************)
DegreeWithinBounds ==
    pc = "done" /\ topology = "random" =>
        \A u \in DOMAIN adj : Cardinality(adj[u]) \in MinNeighbors .. MaxNeighbors
=============================================================================
