---------------------------- MODULE CiFloodProofs ----------------------------
(***************************************************************************)
(* Theorems about the CI engine for every graph, every round length and    *)
(* every loss schedule: the accountings of slots agree, a flood serves     *)
(* nodes that hang together around the initiator and exactly these hold    *)
(* its packet, and without loss the wave is a breadth-first search in      *)
(* time, which the default round length never cuts.                        *)
(***************************************************************************)
EXTENDS PureFlood, FiniteIntegerSets

-----------------------------------------------------------------------------
(***************************************************************************)
(* The breadth-first search of Topology: its layers exist, grow, and at    *)
(* the latest after N - 1 steps hold all that the search can find.         *)
(***************************************************************************)

\* One more layer around a set of nodes.
Widen(S) == S \cup UNION {Neighbors(u) : u \in S}

\* The equation of the search; L is the array of layers up to the n-th.
Search(i, n, L) == L = [k \in 0 .. n |-> IF k = 0 THEN {i} ELSE Widen(L[k-1])]

\* The nodes are a finite set of N integers.
LEMMA NodeFacts ==
    IsFiniteSet(Node) /\ Cardinality(Node) = N /\ N \in Nat /\ N >= 2 /\ Node \in SUBSET Int
<1>1. IsFiniteSet(Node) /\ Cardinality(Node) = N
  BY NAssumption, FS_Interval DEF Node
<1> QED
  BY <1>1, NAssumption DEF Node

\* The search can be carried on from any layer to the next.
LEMMA SearchExists ==
    ASSUME NEW i \in Node
    PROVE  \E L : Search(i, N-1, L)
<1> DEFINE Good == {n \in 0 .. N-1 : \E L : Search(i, n, L)}
<1>1. 0 \in Good
  <2> DEFINE L == [k \in 0 .. 0 |-> {i}]
  <2>1. L = [k \in 0 .. 0 |-> IF k = 0 THEN {i} ELSE Widen(L[k-1])]
    OBVIOUS
  <2>2. Search(i, 0, L)
    BY <2>1 DEF Search
  <2> QED
    BY <2>2, NodeFacts
<1>2. ASSUME NEW n \in 0 .. N-2, n \in Good
      PROVE  n + 1 \in Good
  <2>1. PICK g : Search(i, n, g)
    BY <1>2
  <2> DEFINE m == n + 1
             L == [k \in 0 .. m |-> IF k < m THEN g[k] ELSE Widen(g[n])]
             M == [k \in 0 .. m |-> IF k = 0 THEN {i} ELSE Widen(L[k-1])]
  <2>2. \A k \in 0 .. n : g[k] = IF k = 0 THEN {i} ELSE Widen(g[k-1])
    BY <2>1 DEF Search
  <2>3. ASSUME NEW k \in 0 .. m
        PROVE  L[k] = M[k]
    <3>1. CASE k < m
      <4>1. L[k] = g[k] /\ k \in 0 .. n
        BY <3>1
      <4>2. k # 0 => L[k-1] = g[k-1]
        BY <3>1
      <4> QED
        BY <2>2, <4>1, <4>2
    <3>2. CASE ~(k < m)
      <4>1. k = m /\ k # 0
        BY <3>2
      <4>2. L[k] = Widen(g[n]) /\ L[k-1] = g[n]
        BY <4>1
      <4> QED
        BY <4>1, <4>2
    <3> QED
      BY <3>1, <3>2
  <2>4. L = [k \in 0 .. m |-> L[k]] /\ M = [k \in 0 .. m |-> M[k]]
    OBVIOUS
  <2>5. M = [k \in 0 .. m |-> IF k = 0 THEN {i} ELSE Widen(L[k-1])]
    OBVIOUS
  <2> HIDE DEF L, M
  <2>6. L = M
    BY <2>3, <2>4
  <2>7. Search(i, m, L)
    BY <2>5, <2>6 DEF Search
  <2> QED
    BY <2>7, NodeFacts
<1>3. N - 1 \in Nat /\ (N - 1) - 1 = N - 2 /\ N - 1 \in 0 .. N-1
  BY NodeFacts
<1> HIDE DEF Good
<1>4. 0 .. N-1 \subseteq Good
  BY <1>1, <1>2, <1>3, UpToN
<1> QED
  BY <1>3, <1>4 DEF Good

\* The layers of WithinHops satisfy the recursion they are declared by.
LEMMA Layers ==
    ASSUME NEW i \in Node
    PROVE  /\ WithinHops(i)[0] = {i}
           /\ \A k \in 1 .. N-1 : WithinHops(i)[k] = Widen(WithinHops(i)[k-1])
<1> DEFINE W == WithinHops(i)
<1>1. W = CHOOSE L : Search(i, N-1, L)
  BY DEF WithinHops, Search, Widen
<1> HIDE DEF W
<1>2. Search(i, N-1, W)
  BY <1>1, SearchExists
<1>3. \A k \in 0 .. N-1 : W[k] = IF k = 0 THEN {i} ELSE Widen(W[k-1])
  BY <1>2 DEF Search
<1>4. 0 \in 0 .. N-1 /\ \A k \in 1 .. N-1 : k \in 0 .. N-1 /\ k # 0
  BY NodeFacts
<1>5. W[0] = {i} /\ \A k \in 1 .. N-1 : W[k] = Widen(W[k-1])
  BY <1>3, <1>4
<1> QED
  BY <1>5 DEF W

\* Nothing of the graph sticks out of S.
Closed(S) == \A u \in S, v \in Node : Adjacent(u, v) => v \in S

\* The layers are sets of nodes around i, each within the next.
LEMMA LayersGrow ==
    ASSUME NEW i \in Node
    PROVE  \A k \in 0 .. N-1 :
              /\ WithinHops(i)[k] \subseteq Node /\ i \in WithinHops(i)[k]
              /\ \A j \in 0 .. k : WithinHops(i)[j] \subseteq WithinHops(i)[k]
<1> DEFINE W == WithinHops(i)
           Good == {k \in 0 .. N-1 : /\ W[k] \subseteq Node /\ i \in W[k]
                                     /\ \A j \in 0 .. k : W[j] \subseteq W[k]}
<1>1. W[0] = {i} /\ \A k \in 1 .. N-1 : W[k] = Widen(W[k-1])
  BY Layers
<1> HIDE DEF W
<1>2. 0 \in Good
  BY <1>1, NodeFacts
<1>3. ASSUME NEW k \in 0 .. N-2, k \in Good
      PROVE  k + 1 \in Good
  <2>1. W[k+1] = Widen(W[k])
    BY <1>1, NodeFacts
  <2>2. W[k] \subseteq Node /\ i \in W[k] /\ \A j \in 0 .. k : W[j] \subseteq W[k]
    BY <1>3
  <2>3. W[k] \subseteq W[k+1] /\ W[k+1] \subseteq Node
    BY <2>1, <2>2 DEF Widen, Neighbors
  <2>4. \A j \in 0 .. k+1 : j \in 0 .. k \/ j = k+1
    OBVIOUS
  <2>5. \A j \in 0 .. k+1 : W[j] \subseteq W[k+1]
    BY <2>2, <2>3, <2>4
  <2>6. k + 1 \in 0 .. N-1
    BY NodeFacts
  <2> QED
    BY <2>2, <2>3, <2>5, <2>6
<1>4. N - 1 \in Nat /\ (N - 1) - 1 = N - 2
  BY NodeFacts
<1> HIDE DEF Good
<1>5. 0 .. N-1 \subseteq Good
  BY <1>2, <1>3, <1>4, UpToN
<1> QED
  BY <1>5 DEF Good, W

\* A layer that adds nothing is closed, and a closed layer is the last.
LEMMA ClosedLayer ==
    ASSUME NEW i \in Node, NEW k \in 0 .. N-1
    PROVE  /\ k < N-1 /\ WithinHops(i)[k+1] = WithinHops(i)[k] => Closed(WithinHops(i)[k])
           /\ Closed(WithinHops(i)[k]) =>
                 \A m \in k .. N-1 : WithinHops(i)[m] = WithinHops(i)[k]
<1> DEFINE W == WithinHops(i)
<1>1. \A m \in 1 .. N-1 : W[m] = Widen(W[m-1])
  BY Layers
<1>2. W[k] \subseteq Node
  BY LayersGrow
<1> HIDE DEF W
<1>3. ASSUME k < N-1, W[k+1] = W[k]
      PROVE  Closed(W[k])
  <2>1. W[k] = Widen(W[k])
    BY <1>1, <1>3, NodeFacts
  <2> QED
    BY <2>1 DEF Widen, Neighbors, Closed
<1>4. ASSUME Closed(W[k]), NEW m \in k .. N-1
      PROVE  W[m] = W[k]
  <2>1. Widen(W[k]) = W[k]
    BY <1>2, <1>4 DEF Widen, Neighbors, Closed
  <2> DEFINE Good == {n \in 0 .. N-1-k : W[k+n] = W[k]}
  <2>2. 0 \in Good
    BY NodeFacts
  <2>3. ASSUME NEW n \in 0 .. (N-1-k)-1, n \in Good
        PROVE  n + 1 \in Good
    <3>1. k + n + 1 \in 1 .. N-1 /\ (k + n + 1) - 1 = k + n /\ k + (n + 1) = k + n + 1
      BY NodeFacts
    <3>2. W[k+n+1] = Widen(W[k+n])
      BY <1>1, <3>1
    <3>3. W[k+n] = W[k]
      BY <2>3
    <3>4. n + 1 \in 0 .. N-1-k
      BY NodeFacts
    <3> QED
      BY <2>1, <3>1, <3>2, <3>3, <3>4
  <2>4. N-1-k \in Nat /\ m - k \in 0 .. N-1-k /\ k + (m - k) = m
    BY NodeFacts
  <2> HIDE DEF Good
  <2>5. 0 .. N-1-k \subseteq Good
    BY <2>2, <2>3, <2>4, UpToN
  <2>6. m - k \in Good
    BY <2>4, <2>5
  <2> QED
    BY <2>4, <2>6 DEF Good
<1> QED
  BY <1>3, <1>4 DEF W

(***************************************************************************)
(* The search finds everything connected to i: as long as a layer is not   *)
(* closed the next one is larger, so after N - 1 of them either one was    *)
(* closed or all nodes are in.                                             *)
(***************************************************************************)
LEMMA ComponentClosed ==
    ASSUME NEW i \in Node
    PROVE  Closed(Component(i)) /\ i \in Component(i) /\ Component(i) \subseteq Node
<1> DEFINE W == WithinHops(i)
           Good == {k \in 0 .. N-1 : Closed(W[k]) \/ Cardinality(W[k]) >= k + 1}
<1>0. \A k \in 0 .. N-1 :
         /\ W[k] \subseteq Node /\ i \in W[k] /\ \A j \in 0 .. k : W[j] \subseteq W[k]
  BY LayersGrow
<1>1. \A k \in 0 .. N-1 :
         /\ k < N-1 /\ W[k+1] = W[k] => Closed(W[k])
         /\ Closed(W[k]) => \A m \in k .. N-1 : W[m] = W[k]
  BY ClosedLayer
<1>2. W[0] = {i} /\ Component(i) = W[N-1]
  BY Layers DEF Component
<1> HIDE DEF W
<1>3. \A k \in 0 .. N-1 : IsFiniteSet(W[k]) /\ Cardinality(W[k]) \in Nat
  BY <1>0, NodeFacts, FS_Subset, FS_CardinalityType
<1>4. 0 \in Good
  <2>1. Cardinality(W[0]) = 1 /\ 0 \in 0 .. N-1
    <3>1. Cardinality({i}) = 1
      BY FS_Singleton
    <3> QED
      BY <1>2, <3>1, NodeFacts
  <2> QED
    BY <2>1
<1>5. ASSUME NEW k \in 0 .. N-2, k \in Good
      PROVE  k + 1 \in Good
  <2>1. k \in 0 .. N-1 /\ k + 1 \in 0 .. N-1 /\ k < N-1 /\ k + 1 \in k .. N-1 /\ k \in 0 .. k+1
    BY NodeFacts
  <2>2. CASE Closed(W[k])
    <3>1. W[k+1] = W[k]
      BY <1>1, <2>1, <2>2
    <3> QED
      BY <2>1, <2>2, <3>1
  <2>3. CASE ~Closed(W[k])
    <3>1. W[k+1] # W[k] /\ W[k] \subseteq W[k+1]
      BY <1>0, <1>1, <2>1, <2>3
    <3>2. Cardinality(W[k]) <= Cardinality(W[k+1]) /\ Cardinality(W[k]) # Cardinality(W[k+1])
      BY <1>3, <2>1, <3>1, FS_Subset
    <3>3. Cardinality(W[k]) >= k + 1
      BY <1>5, <2>3
    <3>4. Cardinality(W[k+1]) >= (k + 1) + 1
      BY <1>3, <2>1, <3>2, <3>3
    <3> QED
      BY <2>1, <3>4
  <2> QED
    BY <2>2, <2>3
<1>6. N - 1 \in Nat /\ (N - 1) - 1 = N - 2 /\ N - 1 \in 0 .. N-1
  BY NodeFacts
<1>7. N - 1 \in Good
  <2> HIDE DEF Good
  <2> QED
    BY <1>4, <1>5, <1>6, UpToN
<1>8. CASE Cardinality(W[N-1]) >= N
  <2>1. W[N-1] \subseteq Node /\ Cardinality(W[N-1]) \in Nat
    BY <1>0, <1>3, <1>6
  <2>2. Cardinality(W[N-1]) <= Cardinality(Node) /\ (Cardinality(Node) = Cardinality(W[N-1]) => Node = W[N-1])
    BY <2>1, NodeFacts, FS_Subset
  <2>3. W[N-1] = Node
    BY <1>8, <2>1, <2>2, NodeFacts
  <2> QED
    BY <1>2, <2>3 DEF Closed
<1>9. CASE Closed(W[N-1])
  BY <1>0, <1>2, <1>6, <1>9
<1>10. Closed(W[N-1]) \/ Cardinality(W[N-1]) >= N
  <2>1. Closed(W[N-1]) \/ Cardinality(W[N-1]) >= (N - 1) + 1
    BY <1>7
  <2> QED
    BY <2>1, NodeFacts
<1> QED
  BY <1>8, <1>9, <1>10

\* The distance is the number of the first layer a node is in; it is in all later ones.
LEMMA DistanceIsLayer ==
    ASSUME NEW i \in Node, NEW j \in Component(i)
    PROVE  /\ Distance(i, j) \in 0 .. N-1
           /\ \A k \in 0 .. N-1 : j \in WithinHops(i)[k] <=> Distance(i, j) <= k
<1> DEFINE W == WithinHops(i)
           K == {k \in 0 .. N-1 : j \in W[k]}
<1>1. N - 1 \in K
  BY NodeFacts DEF Component
<1>2. K \in SUBSET Int
  BY NodeFacts
<1>3. IsFiniteSet(K)
  <2>1. IsFiniteSet(0 .. N-1)
    BY NodeFacts, FS_Interval
  <2> QED
    BY <2>1, FS_Subset
<1>4. Distance(i, j) = Min(K)
  BY DEF Distance
<1>5. \A k \in 0 .. N-1 : \A m \in 0 .. k : W[m] \subseteq W[k]
  BY LayersGrow
<1>6. Min(K) \in K /\ \A y \in K : Min(K) <= y
  <2> HIDE DEF K
  <2> QED
    BY <1>1, <1>2, <1>3, MinOfFinite
<1> DEFINE d == Min(K)
<1> HIDE DEF d, W
<1>7. d \in 0 .. N-1 /\ j \in W[d] /\ \A k \in 0 .. N-1 : j \in W[k] => d <= k
  BY <1>6 DEF d
<1>8. \A k \in 0 .. N-1 : d <= k => j \in W[k]
  BY <1>5, <1>7
<1> QED
  BY <1>4, <1>7, <1>8 DEF d, W

(***************************************************************************)
(* What the distances from i are: none but i is at distance 0, neighbours  *)
(* differ by one at most, and every other node has a neighbour one closer. *)
(***************************************************************************)
LEMMA DistanceFacts ==
    ASSUME NEW i \in Node, NEW j \in Component(i)
    PROVE  /\ Distance(i, j) \in 0 .. N-1
           /\ Distance(i, j) = 0 <=> j = i
           /\ \A u \in Component(i) : Adjacent(u, j) => Distance(i, j) <= Distance(i, u) + 1
           /\ j # i => \E u \in Component(i) : Adjacent(u, j) /\ Distance(i, u) = Distance(i, j) - 1
<1> DEFINE W == WithinHops(i)
           d == Distance(i, j)
<1>1. \A u \in Component(i) :
         /\ Distance(i, u) \in 0 .. N-1
         /\ \A k \in 0 .. N-1 : u \in W[k] <=> Distance(i, u) <= k
  BY DistanceIsLayer
<1>2. W[0] = {i} /\ \A k \in 1 .. N-1 : W[k] = Widen(W[k-1])
  BY Layers
<1>3. \A k \in 0 .. N-1 : W[k] \subseteq Node
  BY LayersGrow
<1>4. i \in Component(i) /\ Component(i) \subseteq Node /\ Component(i) = W[N-1] /\ Closed(Component(i))
  BY ComponentClosed DEF Component
<1>5. \A k \in 0 .. N-1 : W[k] \subseteq W[N-1]
  BY LayersGrow, NodeFacts
<1> HIDE DEF W
<1>6. d \in 0 .. N-1 /\ \A k \in 0 .. N-1 : j \in W[k] <=> d <= k
  BY <1>1
<1> HIDE DEF d
<1>7. d = 0 <=> j = i
  BY <1>2, <1>6, NodeFacts
<1>8. ASSUME NEW u \in Component(i), Adjacent(u, j)
      PROVE  d <= Distance(i, u) + 1
  <2> DEFINE e == Distance(i, u)
  <2>1. e \in 0 .. N-1 /\ \A k \in 0 .. N-1 : u \in W[k] <=> e <= k
    BY <1>1
  <2> HIDE DEF e
  <2>2. CASE e = N-1
    BY <1>6, <2>2, NodeFacts DEF e
  <2>3. CASE e # N-1
    <3>1. e + 1 \in 1 .. N-1 /\ (e + 1) - 1 = e /\ e + 1 \in 0 .. N-1 /\ e <= e
      BY <2>1, <2>3, NodeFacts
    <3>2. u \in W[e] /\ W[e+1] = Widen(W[e])
      BY <1>2, <2>1, <3>1
    <3>3. j \in Neighbors(u)
      BY <1>4, <1>8 DEF Neighbors
    <3>4. j \in W[e+1]
      BY <3>2, <3>3 DEF Widen
    <3> QED
      BY <1>6, <3>1, <3>4 DEF e
  <2> QED
    BY <2>2, <2>3
<1>9. ASSUME j # i
      PROVE  \E u \in Component(i) : Adjacent(u, j) /\ Distance(i, u) = d - 1
  <2>1. d \in 1 .. N-1 /\ d - 1 \in 0 .. N-1 /\ d \in 0 .. N-1 /\ d <= d /\ ~(d <= d - 1)
    BY <1>6, <1>7, <1>9, NodeFacts
  <2>2. j \in W[d] /\ j \notin W[d-1] /\ W[d] = Widen(W[d-1])
    BY <1>2, <1>6, <2>1
  <2>3. PICK u \in W[d-1] : j \in Neighbors(u)
    BY <2>2 DEF Widen
  <2>4. Adjacent(u, j) /\ u \in Component(i)
    BY <1>4, <1>5, <2>1, <2>3 DEF Neighbors
  <2>5. Distance(i, u) <= d - 1 /\ Distance(i, u) \in 0 .. N-1
    BY <1>1, <2>1, <2>3, <2>4
  <2>6. d <= Distance(i, u) + 1
    BY <1>8, <2>4
  <2>7. Distance(i, u) = d - 1
    BY <2>1, <2>5, <2>6
  <2> QED
    BY <2>4, <2>7
<1> QED
  BY <1>6, <1>7, <1>8, <1>9 DEF d

(***************************************************************************)
(* The eccentricity is the greatest distance, every distance up to it is   *)
(* taken, and the diameter is no smaller.                                  *)
(***************************************************************************)
LEMMA EccentricityFacts ==
    ASSUME NEW i \in Node
    PROVE  /\ Eccentricity(i) \in 0 .. N-1
           /\ \A j \in Component(i) : Distance(i, j) <= Eccentricity(i)
           /\ \A k \in 0 .. Eccentricity(i) : \E j \in Component(i) : Distance(i, j) = k
<1> DEFINE C == Component(i)
           D == {Distance(i, j) : j \in C}
           e == Max(D)
<1>1. /\ \A j \in C : Distance(i, j) \in 0 .. N-1
      /\ \A j \in C : Distance(i, j) = 0 <=> j = i
      /\ \A j \in C : j # i => \E u \in C : Distance(i, u) = Distance(i, j) - 1
  BY DistanceFacts
<1>2. i \in C
  BY ComponentClosed
<1>3. D \in SUBSET (0 .. N-1) /\ D # {}
  BY <1>1, <1>2
<1>4. IsFiniteSet(D) /\ D \in SUBSET Int
  <2>1. IsFiniteSet(0 .. N-1)
    BY NodeFacts, FS_Interval
  <2>2. IsFiniteSet(D)
    <3> HIDE DEF D
    <3> QED
      BY <1>3, <2>1, FS_Subset
  <2> QED
    BY <1>3, <2>2, NodeFacts
<1>5. e \in D /\ \A y \in D : e >= y
  <2> HIDE DEF D
  <2> QED
    BY <1>3, <1>4, MaxOfFinite
<1>6. Eccentricity(i) = e
  BY DEF Eccentricity
<1> HIDE DEF e, C
<1>7. e \in 0 .. N-1 /\ (\A j \in C : Distance(i, j) <= e) /\ \E j \in C : Distance(i, j) = e
  BY <1>1, <1>3, <1>5
<1> HIDE DEF D
<1> DEFINE Good == {k \in 0 .. e : \E j \in C : Distance(i, j) = e - k}
<1>8. 0 \in Good
  BY <1>7
<1>9. ASSUME NEW k \in 0 .. e-1, k \in Good
      PROVE  k + 1 \in Good
  <2>1. PICK j \in C : Distance(i, j) = e - k
    BY <1>9
  <2>2. j # i
    BY <1>1, <1>7, <2>1
  <2>3. PICK u \in C : Distance(i, u) = (e - k) - 1
    BY <1>1, <2>1, <2>2
  <2>4. (e - k) - 1 = e - (k + 1) /\ k + 1 \in 0 .. e
    BY <1>7
  <2> QED
    BY <2>3, <2>4
<1>10. 0 .. e \subseteq Good
  <2> HIDE DEF Good
  <2>1. e \in Nat
    BY <1>7
  <2> QED
    BY <1>8, <1>9, <2>1, UpToN
<1>11. ASSUME NEW k \in 0 .. e
       PROVE  \E j \in C : Distance(i, j) = k
  <2>1. e - k \in 0 .. e /\ e - (e - k) = k
    BY <1>7
  <2>2. e - k \in Good
    BY <1>10, <2>1
  <2> QED
    BY <2>1, <2>2
<1> QED
  BY <1>6, <1>7, <1>11 DEF C

\* The default round is long enough for the farthest node to hear and to repeat.
LEMMA DefaultLengthSuffices ==
    ASSUME NEW i \in Node, RoundSlots = None
    PROVE  RoundLength \in Nat /\ RoundLength >= Eccentricity(i) + FloodRepeats /\ RoundLength > 0
<1> DEFINE D == {Eccentricity(j) : j \in Node}
           f == [j \in Node |-> Eccentricity(j)]
<1>1. \A j \in Node : Eccentricity(j) \in 0 .. N-1
  BY EccentricityFacts
<1>2. D \in SUBSET Int /\ D # {} /\ D \in SUBSET Nat
  BY <1>1, NodeFacts
<1>3. IsFiniteSet(D)
  <2>1. f \in Surjection(Node, D)
    BY DEF Surjection
  <2> HIDE DEF f, D
  <2> QED
    BY <2>1, NodeFacts, FS_Surjection
<1>4. Max(D) \in D /\ \A y \in D : Max(D) >= y
  <2> HIDE DEF D
  <2> QED
    BY <1>2, <1>3, MaxOfFinite
<1>5. Diameter = Max(D)
  BY DEF Diameter
<1>6. Diameter \in Nat /\ Diameter >= Eccentricity(i)
  <2> DEFINE m == Max(D)
  <2> HIDE DEF m
  <2>1. m \in Nat
    BY <1>2, <1>4 DEF m
  <2>2. m >= Eccentricity(i)
    BY <1>4 DEF m
  <2> QED
    BY <1>5, <2>1, <2>2 DEF m
<1>7. FloodRepeats \in Nat /\ FloodRepeats >= 1
  BY FloodAssumption
<1>8. (Diameter + 2) * FloodRepeats >= Diameter + FloodRepeats
  <2>1. \A a, b \in Nat : b >= 1 => a * b >= a
    OBVIOUS
  <2>2. Diameter * FloodRepeats >= Diameter
    BY <1>6, <1>7, <2>1
  <2>3. (Diameter + 2) * FloodRepeats = Diameter * FloodRepeats + 2 * FloodRepeats
    BY <1>6, <1>7
  <2>4. Diameter * FloodRepeats \in Nat
    BY <1>6, <1>7
  <2> QED
    BY <1>6, <1>7, <2>2, <2>3, <2>4
<1>9. (Diameter + 2) * FloodRepeats \in Nat
  BY <1>6, <1>7
<1>10. RoundLength = LargerOf(3, (Diameter + 2) * FloodRepeats)
  BY DEF RoundLength
<1>11. Eccentricity(i) \in Nat
  BY <1>1
<1> HIDE DEF D
<1> QED
  BY <1>6, <1>7, <1>8, <1>9, <1>10, <1>11 DEF LargerOf

-----------------------------------------------------------------------------
(***************************************************************************)
(* The inductive invariant of the engine and of the loops above it.        *)
(***************************************************************************)

\* A flood has started and its round is not over.
Running == pc \in {"slots", "deliver", "process"}

\* While the loop runs it has no reason to stop, and the flood is within its bound.
LoopInv ==
    /\ TypeOK
    /\ pc # "stopped" => stopped_by = "none" /\ round_num <= MaxRounds
    /\ pc = "slots" => AnyFlood /\ current_slot < RoundEnd

\* The driver of pure_flood.rs numbers its floods by the round.
DriverInv ==
    /\ driver \in {"protocol", "pure_flood"} /\ floods_done \in Nat
    /\ driver = "pure_flood" /\ pc # "stopped" => floods_done = round_num /\ round_num < NumFloods

\* A node has repeats left exactly while it floods, and the initiator does not listen.
RadioInv ==
    /\ \A i \in Node : flood_remaining[i] > 0 <=> state[i] = "Flood"
    /\ Running => state[Initiator] # "Listen"

\* The nodes that have at most k repeats left, those that are done included.
Ahead(k) == {i \in Node : i = Initiator \/ (state[i] # "Listen" /\ flood_remaining[i] <= k)}

(***************************************************************************)
(* Whenever the bound cuts the wave, the nodes that are done hang together *)
(* around the initiator: a node starts after the one it heard, so those    *)
(* with few repeats left are cut off by none with more.                    *)
(***************************************************************************)
ConnectedInv == Running => \A k \in 0 .. FloodRepeats : ConnectedAround(Ahead(k), Initiator)

\* The packet of a round is at its initiator only, until the tail hands it to those that are done.
PayloadInv ==
    /\ pc = "prepare" => \A i \in Node : payload[i] < round_num
    /\ pc \in {"flood", "slots", "deliver"} =>
          \A i \in Node : payload[i] = round_num <=> i = Initiator
    /\ pc \in {"flood", "slots", "deliver", "process"} => \A i \in Node : payload[i] <= round_num
    /\ IdenticalPayload

\* The next snapshot is the first multiple of the interval that is not in the past.
MeterInv ==
    /\ next_snapshot = rows * SnapshotInterval
    /\ current_slot <= next_snapshot /\ next_snapshot < current_slot + SnapshotInterval
    /\ ticks["Listen"] + ticks["Flood"] + ticks["Sleep"] = N * current_slot
    /\ sampled["Listen"] + sampled["Flood"] + sampled["Sleep"] = N * rows
    /\ SnapshotInterval = 1 => sampled = ticks

\* What a node d hops from the initiator does k slots into a flood that loses nothing.
OnTime(j, k) ==
    IF j \notin Component(Initiator) \/ k < Distance(Initiator, j)
    THEN state[j] = "Listen"
    ELSE IF k < Distance(Initiator, j) + FloodRepeats
    THEN /\ state[j] = "Flood"
         /\ flood_remaining[j] = FloodRepeats - (k - Distance(Initiator, j))
    ELSE state[j] = "Sleep"

(***************************************************************************)
(* A flood that loses nothing is a breadth-first search in time, and the   *)
(* default round length lets it end by itself.                             *)
(***************************************************************************)
WaveInv ==
    Running /\ round_num > LastLossyRound =>
        /\ \A j \in Node : OnTime(j, current_slot - round_start)
        /\ pc # "slots" /\ RoundSlots = None =>
              current_slot - round_start = Eccentricity(Initiator) + FloodRepeats

\* All of it: what holds in every state of the engine under either loop.
FloodInv ==
    /\ LoopInv /\ DriverInv
    /\ RadioInv /\ ConnectedInv /\ PayloadInv
    /\ MeterInv /\ WaveInv

\* The round-robin turn always falls on a node.
LEMMA InitiatorIsNode ==
    ASSUME TypeOK
    PROVE  Initiator \in Node
BY NAssumption DEF TypeOK, Initiator, Node

\* In which state a node is partitions the nodes.
LEMMA StatesPartition ==
    ASSUME TypeOK
    PROVE  /\ \A s \in NodeState : InState(s) \in Nat
           /\ InState("Listen") + InState("Flood") + InState("Sleep") = N
<1> DEFINE In(s) == {i \in Node : state[i] = s}
<1>1. \A s : In(s) \subseteq Node
  OBVIOUS
<1>2. \A s : IsFiniteSet(In(s)) /\ Cardinality(In(s)) \in Nat
  BY <1>1, NodeFacts, FS_Subset, FS_CardinalityType
<1>3. In("Listen") \cap In("Flood") = {} /\ (In("Listen") \cup In("Flood")) \cap In("Sleep") = {}
  OBVIOUS
<1>4. (In("Listen") \cup In("Flood")) \cup In("Sleep") = Node
  BY DEF TypeOK, NodeState
<1> DEFINE A == In("Listen")
           B == In("Flood")
           C == In("Sleep")
<1>5. IsFiniteSet(A) /\ IsFiniteSet(B) /\ IsFiniteSet(C)
  BY <1>2
<1>6. Cardinality(A) \in Nat /\ Cardinality(B) \in Nat /\ Cardinality(C) \in Nat
  BY <1>2
<1>7. A \cap B = {} /\ (A \cup B) \cap C = {} /\ (A \cup B) \cup C = Node
  BY <1>3, <1>4
<1> HIDE DEF A, B, C
<1>8. IsFiniteSet(A \cup B) /\ Cardinality(A \cup B) = Cardinality(A) + Cardinality(B)
  <2>1. Cardinality(A \cap B) = 0
    BY <1>7, FS_EmptySet
  <2>2. /\ IsFiniteSet(A \cup B)
        /\ Cardinality(A \cup B) = Cardinality(A) + Cardinality(B) - Cardinality(A \cap B)
    BY <1>5, FS_Union
  <2> QED
    BY <1>6, <2>1, <2>2
<1>9. N = Cardinality(A) + Cardinality(B) + Cardinality(C)
  <2>1. Cardinality((A \cup B) \cap C) = 0
    BY <1>7, FS_EmptySet
  <2>2. Cardinality((A \cup B) \cup C) =
          Cardinality(A \cup B) + Cardinality(C) - Cardinality((A \cup B) \cap C)
    BY <1>5, <1>8, FS_Union
  <2>3. Cardinality((A \cup B) \cup C) = N
    BY <1>7, NodeFacts
  <2> QED
    BY <1>6, <1>8, <2>1, <2>2, <2>3
<1>10. InState("Listen") = Cardinality(A) /\ InState("Flood") = Cardinality(B)
       /\ InState("Sleep") = Cardinality(C)
  BY DEF InState, A, B, C
<1> QED
  BY <1>6, <1>9, <1>10 DEF NodeState

\* The loop of take_snapshot is due once, at a multiple of the interval, or not at all.
LEMMA DueOnce ==
    ASSUME TypeOK, MeterInv
    PROVE  Due = IF next_snapshot = current_slot THEN 1 ELSE 0
<1>1. SnapshotInterval \in Nat /\ SnapshotInterval >= 1
  BY FloodAssumption
<1>2. 0 \div SnapshotInterval = 0
  BY <1>1
<1>3. current_slot \in Nat /\ next_snapshot \in Nat /\ current_slot <= next_snapshot
  BY DEF TypeOK, MeterInv
<1>4. CASE next_snapshot = current_slot
  <2>1. current_slot - next_snapshot = 0 /\ ~(next_snapshot > current_slot)
    BY <1>3, <1>4
  <2> QED
    BY <1>2, <1>4, <2>1 DEF Due
<1>5. CASE next_snapshot # current_slot
  BY <1>3, <1>5 DEF Due
<1> QED
  BY <1>4, <1>5

\* What the driver does is a step of the engine, or of one of the two loops above it.
LEMMA EngineSteps ==
    ASSUME [DriverNext]_all_vars
    PROVE  \/ Prepare \/ PreparePure \/ OutOfSlots \/ StartFlood \/ Slot \/ Deliver
           \/ Process \/ (driver = "pure_flood" /\ Count) \/ UNCHANGED vars
<1>1. CASE UNCHANGED all_vars
  BY <1>1 DEF all_vars
<1>2. CASE driver = "protocol" /\ Next
  BY <1>2 DEF Next, Stopped
<1>3. CASE driver = "pure_flood" /\ PureNext
  BY <1>3 DEF PureNext, SlotPure, Stopped
<1> QED
  BY <1>1, <1>2, <1>3 DEF DriverNext

-----------------------------------------------------------------------------
(***************************************************************************)
(* One step of the invariant, part by part.                                *)
(***************************************************************************)

\* What becomes of every node in a slot in which the nodes of got receive.
Moved(got) ==
    \A i \in Node :
        /\ state[i] = "Flood" =>
              /\ flood_remaining'[i] = flood_remaining[i] - 1
              /\ state'[i] = IF flood_remaining[i] = 1 THEN "Sleep" ELSE "Flood"
        /\ state[i] # "Flood" /\ i \in got =>
              flood_remaining'[i] = FloodRepeats /\ state'[i] = "Flood"
        /\ state[i] # "Flood" /\ i \notin got =>
              flood_remaining'[i] = flood_remaining[i] /\ state'[i] = state[i]

\* The first test of the slot loop never ends it: somebody floods in every slot.
LEMMA SlotMoves ==
    ASSUME LoopInv, RadioInv, Slot
    PROVE  /\ pc = "slots" /\ Meter /\ current_slot' = current_slot + 1
           /\ pc' = IF WaveOver \/ current_slot' >= RoundEnd THEN "deliver" ELSE "slots"
           /\ UNCHANGED <<round_num, stopped_by, round_start, payload>>
           /\ state' \in [Node -> NodeState] /\ flood_remaining' \in [Node -> 0 .. FloodRepeats]
           /\ \E got \in SUBSET InRange :
                 Moved(got) /\ (round_num > LastLossyRound => got = InRange)
<1>1. pc = "slots" /\ AnyFlood
  BY DEF LoopInv, Slot
<1>2. /\ \E got \in Receptions : Transition(got)
      /\ current_slot' = current_slot + 1
      /\ pc' = IF WaveOver \/ current_slot' >= RoundEnd THEN "deliver" ELSE "slots"
  BY <1>1 DEF Slot
<1>3. PICK got \in Receptions : Transition(got)
  BY <1>2
<1>4. got \in SUBSET InRange /\ (round_num > LastLossyRound => got = InRange)
  BY DEF Receptions
<1>5. FloodRepeats \in Nat /\ FloodRepeats >= 1
  BY FloodAssumption
<1>6. /\ state \in [Node -> NodeState] /\ flood_remaining \in [Node -> 0 .. FloodRepeats]
      /\ \A i \in Node : flood_remaining[i] > 0 <=> state[i] = "Flood"
  BY DEF LoopInv, RadioInv, TypeOK
<1>7. \A i \in Node :
         /\ flood_remaining'[i] = IF state[i] = "Flood" THEN flood_remaining[i] - 1
                                  ELSE IF i \in got THEN FloodRepeats ELSE flood_remaining[i]
         /\ state'[i] = IF state[i] = "Flood"
                        THEN (IF flood_remaining'[i] = 0 THEN "Sleep" ELSE "Flood")
                        ELSE IF i \in got THEN "Flood" ELSE state[i]
  BY <1>3 DEF Transition
<1>8. Moved(got)
  <2> SUFFICES ASSUME NEW i \in Node
               PROVE  /\ state[i] = "Flood" =>
                            /\ flood_remaining'[i] = flood_remaining[i] - 1
                            /\ state'[i] = IF flood_remaining[i] = 1 THEN "Sleep" ELSE "Flood"
                      /\ state[i] # "Flood" /\ i \in got =>
                            flood_remaining'[i] = FloodRepeats /\ state'[i] = "Flood"
                      /\ state[i] # "Flood" /\ i \notin got =>
                            flood_remaining'[i] = flood_remaining[i] /\ state'[i] = state[i]
    BY DEF Moved
  <2>1. flood_remaining[i] - 1 = 0 <=> flood_remaining[i] = 1
    BY <1>5, <1>6
  <2> QED
    BY <1>7, <2>1
<1>9. \A i \in Node : flood_remaining'[i] \in 0 .. FloodRepeats /\ state'[i] \in NodeState
  BY <1>5, <1>6, <1>7 DEF NodeState
<1>10. /\ state' = [i \in Node |-> state'[i]]
       /\ flood_remaining' = [i \in Node |-> flood_remaining'[i]]
  BY <1>3 DEF Transition
<1>11. state' \in [Node -> NodeState] /\ flood_remaining' \in [Node -> 0 .. FloodRepeats]
  BY <1>9, <1>10
<1>12. Meter /\ UNCHANGED <<round_num, stopped_by, round_start, payload>>
  BY DEF Slot
<1> QED
  BY <1>1, <1>2, <1>4, <1>8, <1>11, <1>12

\* The counters of a slot keep their types, and the three states together are charged to all nodes.
LEMMA MeterStep ==
    ASSUME TypeOK, MeterInv, Meter, current_slot' = current_slot + 1
    PROVE  /\ MeterInv'
           /\ ticks' \in [NodeState -> Nat] /\ sampled' \in [NodeState -> Nat]
           /\ next_snapshot' \in Nat /\ rows' \in Nat
<1>1. SnapshotInterval \in Nat /\ SnapshotInterval >= 1
  BY FloodAssumption
<1>2. N \in Nat
  BY NAssumption
<1>3. /\ current_slot \in Nat /\ next_snapshot \in Nat /\ rows \in Nat
      /\ \A s \in NodeState : ticks[s] \in Nat /\ sampled[s] \in Nat
      /\ ticks \in [NodeState -> Nat] /\ sampled \in [NodeState -> Nat]
  BY DEF TypeOK
<1> DEFINE due == IF next_snapshot = current_slot THEN 1 ELSE 0
<1>4. Due = due
  BY DueOnce
<1>5. /\ \A s \in NodeState : InState(s) \in Nat
      /\ InState("Listen") + InState("Flood") + InState("Sleep") = N
  BY StatesPartition
<1>6. /\ ticks' = [s \in NodeState |-> ticks[s] + InState(s)]
      /\ rows' = rows + due
      /\ next_snapshot' = next_snapshot + due * SnapshotInterval
      /\ sampled' = [s \in NodeState |-> sampled[s] + due * InState(s)]
  BY <1>4 DEF Meter
<1>7. ticks' \in [NodeState -> Nat] /\ sampled' \in [NodeState -> Nat]
  <2>1. \A s \in NodeState : ticks[s] + InState(s) \in Nat
    BY <1>3, <1>5
  <2>2. \A s \in NodeState : sampled[s] + due * InState(s) \in Nat
    BY <1>3, <1>5
  <2> QED
    BY <1>6, <2>1, <2>2
<1>8. NodeState = {"Listen", "Flood", "Sleep"}
  BY DEF NodeState
<1>9. ticks'["Listen"] + ticks'["Flood"] + ticks'["Sleep"] = N * current_slot'
  <2>1. /\ ticks'["Listen"] = ticks["Listen"] + InState("Listen")
        /\ ticks'["Flood"] = ticks["Flood"] + InState("Flood")
        /\ ticks'["Sleep"] = ticks["Sleep"] + InState("Sleep")
    BY <1>6, <1>8
  <2>2. N * (current_slot + 1) = N * current_slot + N
    BY <1>2, <1>3
  <2>3. ticks["Listen"] + ticks["Flood"] + ticks["Sleep"] = N * current_slot
    BY DEF MeterInv
  <2>4. N * current_slot \in Nat
    BY <1>2, <1>3
  <2> QED
    BY <1>2, <1>3, <1>5, <1>8, <2>1, <2>2, <2>3, <2>4
<1>10. sampled'["Listen"] + sampled'["Flood"] + sampled'["Sleep"] = N * rows'
  <2>1. /\ sampled'["Listen"] = sampled["Listen"] + due * InState("Listen")
        /\ sampled'["Flood"] = sampled["Flood"] + due * InState("Flood")
        /\ sampled'["Sleep"] = sampled["Sleep"] + due * InState("Sleep")
    BY <1>6, <1>8
  <2>2. N * (rows + 1) = N * rows + N
    BY <1>2, <1>3
  <2>3. sampled["Listen"] + sampled["Flood"] + sampled["Sleep"] = N * rows
    BY DEF MeterInv
  <2>4. N * rows \in Nat
    BY <1>2, <1>3
  <2>5. CASE due = 1
    BY <1>2, <1>3, <1>5, <1>6, <1>8, <2>1, <2>2, <2>3, <2>4, <2>5
  <2>6. CASE due = 0
    BY <1>2, <1>3, <1>5, <1>6, <1>8, <2>1, <2>2, <2>3, <2>4, <2>6
  <2> QED
    BY <2>5, <2>6
<1>11. next_snapshot' = rows' * SnapshotInterval
  <2>1. next_snapshot = rows * SnapshotInterval
    BY DEF MeterInv
  <2>2. (rows + 1) * SnapshotInterval = rows * SnapshotInterval + SnapshotInterval
    BY <1>1, <1>3
  <2> QED
    BY <1>1, <1>3, <1>6, <2>1, <2>2
<1>12. current_slot' <= next_snapshot' /\ next_snapshot' < current_slot' + SnapshotInterval
  <2>1. current_slot <= next_snapshot /\ next_snapshot < current_slot + SnapshotInterval
    BY DEF MeterInv
  <2> QED
    BY <1>1, <1>3, <1>6, <2>1
<1>13. SnapshotInterval = 1 => sampled' = ticks'
  <2> SUFFICES ASSUME SnapshotInterval = 1
               PROVE  sampled' = ticks'
    OBVIOUS
  <2>1. due = 1 /\ sampled = ticks
    BY <1>3 DEF MeterInv
  <2>2. \A s \in NodeState : sampled[s] + due * InState(s) = ticks[s] + InState(s)
    BY <1>5, <1>3, <2>1
  <2> QED
    BY <1>6, <2>2
<1>14. next_snapshot' \in Nat /\ rows' \in Nat
  BY <1>1, <1>3, <1>6
<1> QED
  BY <1>7, <1>9, <1>10, <1>11, <1>12, <1>13, <1>14 DEF MeterInv

\* A flood starts with one node awake.
LEMMA StartMoves ==
    ASSUME LoopInv, StartFlood
    PROVE  /\ pc = "flood" /\ round_start' = current_slot
           /\ pc' = IF RoundLength > 0 THEN "slots" ELSE "deliver"
           /\ UNCHANGED <<round_num, stopped_by, current_slot, payload, meters>>
           /\ state' \in [Node -> NodeState] /\ flood_remaining' \in [Node -> 0 .. FloodRepeats]
           /\ Initiator \in Node /\ Initiator' = Initiator
           /\ \A i \in Node :
                 /\ state'[i] = IF i = Initiator THEN "Flood" ELSE "Listen"
                 /\ flood_remaining'[i] = IF i = Initiator THEN FloodRepeats ELSE 0
<1>1. Initiator \in Node
  BY InitiatorIsNode DEF LoopInv
<1>2. FloodRepeats \in Nat /\ FloodRepeats >= 1
  BY FloodAssumption
<1>3. state' = ResetState /\ flood_remaining' = [[i \in Node |-> 0] EXCEPT ![Initiator] = FloodRepeats]
  BY DEF StartFlood
<1>4. state' \in [Node -> NodeState] /\ flood_remaining' \in [Node -> 0 .. FloodRepeats]
  BY <1>1, <1>2, <1>3 DEF ResetState, NodeState
<1>5. \A i \in Node :
         /\ state'[i] = IF i = Initiator THEN "Flood" ELSE "Listen"
         /\ flood_remaining'[i] = IF i = Initiator THEN FloodRepeats ELSE 0
  BY <1>1, <1>3 DEF ResetState
<1> QED
  BY <1>1, <1>4, <1>5 DEF StartFlood, Initiator

\* A packet is written at the initiator, and in the other loop everything else is cleared.
LEMMA PrepareMoves ==
    ASSUME LoopInv, RadioInv, Prepare \/ PreparePure
    PROVE  /\ pc = "prepare" /\ pc' = "flood"
           /\ UNCHANGED <<round_num, stopped_by, current_slot, round_start, meters>>
           /\ state' \in [Node -> NodeState] /\ flood_remaining' \in [Node -> 0 .. FloodRepeats]
           /\ payload' \in [Node -> Nat \cup {None}]
           /\ Initiator \in Node /\ Initiator' = Initiator
           /\ \A i \in Node :
                 /\ flood_remaining'[i] > 0 <=> state'[i] = "Flood"
                 /\ i = Initiator => payload'[i] = round_num
                 /\ i # Initiator => payload'[i] \in {payload[i], None}
<1>1. Initiator \in Node
  BY InitiatorIsNode DEF LoopInv
<1>2. FloodRepeats \in Nat /\ FloodRepeats >= 1 /\ round_num \in Nat
  BY FloodAssumption DEF LoopInv, TypeOK
<1>3. /\ state \in [Node -> NodeState] /\ flood_remaining \in [Node -> 0 .. FloodRepeats]
      /\ payload \in [Node -> Nat \cup {None}]
      /\ \A i \in Node : flood_remaining[i] > 0 <=> state[i] = "Flood"
  BY DEF LoopInv, RadioInv, TypeOK
<1>4. CASE Prepare
  <2>1. payload' = [payload EXCEPT ![Initiator] = round_num] /\ UNCHANGED radio
    BY <1>4 DEF Prepare
  <2>2. /\ payload' \in [Node -> Nat \cup {None}]
        /\ \A i \in Node : /\ i = Initiator => payload'[i] = round_num
                           /\ i # Initiator => payload'[i] \in {payload[i], None}
    BY <1>1, <1>2, <1>3, <2>1
  <2>3. state' = state /\ flood_remaining' = flood_remaining
    BY <2>1 DEF radio
  <2> QED
    BY <1>1, <1>3, <1>4, <2>2, <2>3 DEF Prepare, Initiator
<1>5. CASE PreparePure
  <2>1. /\ payload' = [[i \in Node |-> None] EXCEPT ![Initiator] = round_num]
        /\ state' = [i \in Node |-> "Listen"] /\ flood_remaining' = [i \in Node |-> 0]
    BY <1>5 DEF PreparePure
  <2>2. /\ payload' \in [Node -> Nat \cup {None}]
        /\ \A i \in Node : /\ i = Initiator => payload'[i] = round_num
                           /\ i # Initiator => payload'[i] \in {payload[i], None}
    BY <1>1, <1>2, <1>3, <2>1
  <2>3. state' \in [Node -> NodeState] /\ flood_remaining' \in [Node -> 0 .. FloodRepeats]
    BY <1>2, <2>1 DEF NodeState
  <2>4. \A i \in Node : flood_remaining'[i] > 0 <=> state'[i] = "Flood"
    BY <2>1
  <2> QED
    BY <1>1, <1>5, <2>2, <2>3, <2>4 DEF PreparePure, Initiator
<1> QED
  BY <1>4, <1>5

\* The tail of a flood changes nothing but the payloads.
LEMMA DeliverMoves ==
    ASSUME LoopInv, Deliver
    PROVE  /\ pc = "deliver" /\ pc' = "process"
           /\ UNCHANGED <<round_num, stopped_by, current_slot, round_start, radio, meters>>
           /\ payload' \in [Node -> Nat \cup {None}]
           /\ Initiator \in Node /\ Initiator' = Initiator /\ Participants' = Participants
           /\ \A i \in Node : payload'[i] = IF i \in Participants THEN payload[Initiator] ELSE payload[i]
<1>1. Initiator \in Node
  BY InitiatorIsNode DEF LoopInv
<1>2. payload' = [i \in Node |-> IF i \in Participants THEN payload[Initiator] ELSE payload[i]]
  BY DEF Deliver, Completed, Participants
<1>3. payload \in [Node -> Nat \cup {None}]
  BY DEF LoopInv, TypeOK
<1>4. payload' \in [Node -> Nat \cup {None}]
  BY <1>1, <1>2, <1>3
<1>5. \A i \in Node : payload'[i] = IF i \in Participants THEN payload[Initiator] ELSE payload[i]
  BY <1>2
<1>6. UNCHANGED <<round_num, stopped_by, current_slot, round_start, radio, meters>>
  BY DEF Deliver
<1>7. Initiator' = Initiator
  BY <1>6 DEF Initiator
<1>8. Participants' = Participants
  BY <1>6, <1>7 DEF Participants, radio
<1> QED
  BY <1>1, <1>4, <1>5, <1>6, <1>7, <1>8 DEF Deliver

\* After a round the loop goes on to the next, or stops.
LEMMA ProcessMoves ==
    ASSUME LoopInv, DriverInv, Process \/ (driver = "pure_flood" /\ Count)
    PROVE  /\ pc = "process" /\ pc' \in {"prepare", "stopped"}
           /\ UNCHANGED <<current_slot, round_start, radio, payload, meters>>
           /\ stopped_by' \in {"none", "all_done", "max_rounds"}
           /\ pc' # "stopped" => stopped_by' = "none" /\ round_num' <= MaxRounds
           /\ pc' = "prepare" => round_num' = round_num + 1
           /\ round_num' \in 0 .. MaxRounds + 1
           /\ \/ /\ pc' = "stopped" /\ stopped_by' = "all_done" /\ round_num' = round_num
              \/ /\ round_num' = round_num + 1
                 /\ pc' = IF round_num' > MaxRounds THEN "stopped" ELSE "prepare"
                 /\ stopped_by' = IF round_num' > MaxRounds THEN "max_rounds" ELSE "none"
<1>1. round_num \in 0 .. MaxRounds + 1 /\ MaxRounds \in Nat /\ NumFloods \in 1 .. MaxRounds + 1
  BY FloodAssumption, PureFloodAssumption DEF LoopInv, TypeOK
<1>2. CASE Process
  <2>1. pc = "process" /\ UNCHANGED <<current_slot, round_start, radio, payload, meters>>
    BY <1>2 DEF Process
  <2>2. round_num <= MaxRounds
    BY <2>1 DEF LoopInv
  <2>3. \/ /\ pc' = "stopped" /\ stopped_by' = "all_done" /\ round_num' = round_num
        \/ /\ round_num' = round_num + 1
           /\ pc' = IF round_num' > MaxRounds THEN "stopped" ELSE "prepare"
           /\ stopped_by' = IF round_num' > MaxRounds THEN "max_rounds" ELSE "none"
    BY <1>2 DEF Process
  <2> QED
    BY <1>1, <2>1, <2>2, <2>3
<1>3. CASE driver = "pure_flood" /\ Count
  <2>1. pc = "process" /\ UNCHANGED <<current_slot, round_start, radio, payload, meters>>
    BY <1>3 DEF Count
  <2>2. round_num <= MaxRounds /\ stopped_by = "none" /\ floods_done = round_num /\ round_num < NumFloods
    BY <1>3, <2>1 DEF LoopInv, DriverInv
  <2>3. \/ pc' = "stopped" /\ stopped_by' = "all_done" /\ round_num' = round_num
        \/ pc' = "prepare" /\ round_num' = round_num + 1 /\ stopped_by' = stopped_by
           /\ floods_done + 1 # NumFloods
    BY <1>3 DEF Count
  <2>4. pc' = "prepare" => round_num' <= MaxRounds
    BY <1>1, <2>2, <2>3
  <2> QED
    BY <1>1, <2>1, <2>2, <2>3, <2>4
<1> QED
  BY <1>2, <1>3

\* Whatever ci.round_slots says, the length of a round is a natural number.
LEMMA RoundLengthIsNat ==
    RoundLength \in Nat
<1>1. CASE RoundSlots = None
  <2>1. 0 \in Node
    BY NodeFacts DEF Node
  <2> QED
    BY <1>1, <2>1, DefaultLengthSuffices
<1>2. CASE RoundSlots # None
  BY <1>2, FloodAssumption DEF RoundLength
<1> QED
  BY <1>1, <1>2

\* Every action respects the types and the bounds of the loop.
LEMMA LoopStep ==
    ASSUME LoopInv, DriverInv, RadioInv, MeterInv, [DriverNext]_all_vars
    PROVE  LoopInv'
<1>1. TypeOK
  BY DEF LoopInv
<1>2. current_slot \in Nat /\ round_start \in 0 .. current_slot /\ round_num \in 0 .. MaxRounds + 1
  BY <1>1 DEF TypeOK
<1>3. CASE Prepare \/ PreparePure
  <2>1. /\ pc = "prepare" /\ pc' = "flood"
        /\ UNCHANGED <<round_num, stopped_by, current_slot, round_start, meters>>
        /\ state' \in [Node -> NodeState] /\ flood_remaining' \in [Node -> 0 .. FloodRepeats]
        /\ payload' \in [Node -> Nat \cup {None}]
    BY <1>3, PrepareMoves
  <2>2. TypeOK'
    BY <1>1, <2>1 DEF TypeOK, meters
  <2> QED
    BY <2>1, <2>2 DEF LoopInv
<1>4. CASE OutOfSlots
  <2>1. TypeOK'
    BY <1>1, <1>4 DEF OutOfSlots, TypeOK, radio, meters
  <2> QED
    BY <1>4, <2>1 DEF LoopInv, OutOfSlots
<1>5. CASE StartFlood
  <2>1. /\ pc = "flood" /\ round_start' = current_slot
        /\ pc' = IF RoundLength > 0 THEN "slots" ELSE "deliver"
        /\ UNCHANGED <<round_num, stopped_by, current_slot, payload, meters>>
        /\ state' \in [Node -> NodeState] /\ flood_remaining' \in [Node -> 0 .. FloodRepeats]
        /\ Initiator \in Node /\ Initiator' = Initiator
        /\ \A i \in Node : state'[i] = IF i = Initiator THEN "Flood" ELSE "Listen"
    BY <1>5, StartMoves
  <2>2. TypeOK'
    BY <1>1, <1>2, <2>1 DEF TypeOK, meters
  <2>3. AnyFlood'
    BY <2>1 DEF AnyFlood
  <2>4. pc' = "slots" => current_slot' < RoundEnd'
    <3>1. RoundEnd' = round_start' + RoundLength
      BY DEF RoundEnd, RoundLength, LargerOf
    <3>2. RoundLength \in Int
      BY RoundLengthIsNat
    <3> QED
      BY <1>2, <2>1, <3>1, <3>2
  <2>5. pc' # "stopped" => stopped_by' = "none" /\ round_num' <= MaxRounds
    BY <2>1 DEF LoopInv
  <2> QED
    BY <2>2, <2>3, <2>4, <2>5 DEF LoopInv
<1>6. CASE Slot
  <2>1. /\ pc = "slots" /\ Meter /\ current_slot' = current_slot + 1
        /\ pc' = IF WaveOver \/ current_slot' >= RoundEnd THEN "deliver" ELSE "slots"
        /\ UNCHANGED <<round_num, stopped_by, round_start, payload>>
        /\ state' \in [Node -> NodeState] /\ flood_remaining' \in [Node -> 0 .. FloodRepeats]
    BY <1>6, SlotMoves
  <2>2. /\ ticks' \in [NodeState -> Nat] /\ sampled' \in [NodeState -> Nat]
        /\ next_snapshot' \in Nat /\ rows' \in Nat
    BY <1>1, <2>1, MeterStep
  <2>3. TypeOK'
    BY <1>1, <1>2, <2>1, <2>2 DEF TypeOK
  <2>4. pc' = "slots" => AnyFlood'
    BY <2>1 DEF WaveOver, AnyFlood
  <2>5. pc' = "slots" => current_slot' < RoundEnd'
    <3>1. RoundEnd' = RoundEnd
      BY <2>1 DEF RoundEnd, RoundLength, LargerOf
    <3>2. RoundEnd \in Int
      BY <1>2, RoundLengthIsNat DEF RoundEnd
    <3> QED
      BY <1>2, <2>1, <3>1, <3>2
  <2>6. pc' # "stopped" => stopped_by' = "none" /\ round_num' <= MaxRounds
    BY <2>1 DEF LoopInv
  <2> QED
    BY <2>3, <2>4, <2>5, <2>6 DEF LoopInv
<1>7. CASE Deliver
  <2>1. /\ pc = "deliver" /\ pc' = "process"
        /\ UNCHANGED <<round_num, stopped_by, current_slot, round_start, radio, meters>>
        /\ payload' \in [Node -> Nat \cup {None}]
    BY <1>7, DeliverMoves
  <2>2. TypeOK'
    BY <1>1, <2>1 DEF TypeOK, radio, meters
  <2> QED
    BY <2>1, <2>2 DEF LoopInv
<1>8. CASE Process \/ (driver = "pure_flood" /\ Count)
  <2>1. /\ pc = "process" /\ pc' \in {"prepare", "stopped"}
        /\ UNCHANGED <<current_slot, round_start, radio, payload, meters>>
        /\ stopped_by' \in {"none", "all_done", "max_rounds"}
        /\ pc' # "stopped" => stopped_by' = "none" /\ round_num' <= MaxRounds
        /\ round_num' \in 0 .. MaxRounds + 1
    BY <1>8, ProcessMoves
  <2>2. TypeOK'
    BY <1>1, <2>1 DEF TypeOK, radio, meters
  <2> QED
    BY <2>1, <2>2 DEF LoopInv
<1>9. CASE UNCHANGED vars
  <2>1. AnyFlood' = AnyFlood /\ RoundEnd' = RoundEnd
    BY <1>9 DEF vars, radio, AnyFlood, RoundEnd, RoundLength, LargerOf
  <2>2. TypeOK'
    BY <1>1, <1>9 DEF TypeOK, vars, loop, radio, meters
  <2> QED
    BY <1>9, <2>1, <2>2 DEF LoopInv, vars, loop
<1> QED
  BY <1>3, <1>4, <1>5, <1>6, <1>7, <1>8, <1>9, EngineSteps

\* The driver keeps counting its floods.
LEMMA DriverStep ==
    ASSUME LoopInv, DriverInv, [DriverNext]_all_vars
    PROVE  DriverInv'
<1>1. floods_done \in Nat /\ round_num \in Nat /\ NumFloods \in Nat
  BY PureFloodAssumption, FloodAssumption DEF DriverInv, LoopInv, TypeOK
<1>2. CASE UNCHANGED all_vars
  BY <1>2 DEF DriverInv, all_vars, vars, loop, report
<1>3. CASE DriverNext
  <2>1. driver' = driver
    BY <1>3 DEF DriverNext
  <2>2. CASE driver = "protocol"
    BY <1>1, <1>3, <2>1, <2>2 DEF DriverInv, DriverNext, report
  <2>3. CASE driver = "pure_flood" /\ Count
    <3>1. pc = "process" /\ floods_done' = floods_done + 1
      BY <2>3 DEF Count
    <3>2. floods_done = round_num /\ round_num < NumFloods
      BY <2>3, <3>1 DEF DriverInv
    <3>3. pc' = "stopped" \/ (round_num' = round_num + 1 /\ floods_done + 1 # NumFloods)
      BY <2>3, <3>1 DEF Count
    <3> QED
      BY <1>1, <2>1, <2>3, <3>1, <3>2, <3>3 DEF DriverInv
  <2>4. CASE driver = "pure_flood" /\ ~Count
    <3>1. PureNext /\ ~Count
      BY <1>3, <2>4 DEF DriverNext
    <3>2. floods_done' = floods_done /\ round_num' = round_num /\ (pc' # "stopped" => pc # "stopped")
      BY <3>1 DEF PureNext, PreparePure, SlotPure, Slot, StartFlood, Deliver, OutOfSlots,
                  Stopped, report, vars, loop
    <3> QED
      BY <1>1, <2>1, <2>4, <3>2 DEF DriverInv
  <2> QED
    BY <1>3, <2>2, <2>3, <2>4 DEF DriverNext
<1> QED
  BY <1>2, <1>3

\* Outside the slots the meters rest.
LEMMA MetersStep ==
    ASSUME LoopInv, DriverInv, RadioInv, MeterInv, [DriverNext]_all_vars
    PROVE  MeterInv'
<1>1. CASE Slot
  BY <1>1, SlotMoves, MeterStep DEF LoopInv
<1>2. CASE ~Slot
  <2>1. UNCHANGED <<current_slot, meters>>
    BY <1>2, EngineSteps, PrepareMoves, StartMoves, DeliverMoves, ProcessMoves
       DEF OutOfSlots, vars
  <2> QED
    BY <2>1 DEF MeterInv, meters
<1> QED
  BY <1>1, <1>2

\* Who floods has repeats left, and the initiator of a flood never goes back to listening.
LEMMA RadioStep ==
    ASSUME LoopInv, DriverInv, RadioInv, [DriverNext]_all_vars
    PROVE  RadioInv'
<1>1. CASE Prepare \/ PreparePure
  BY <1>1, PrepareMoves DEF RadioInv, Running
<1>2. CASE StartFlood
  <2>1. FloodRepeats > 0
    BY FloodAssumption
  <2> QED
    BY <1>2, <2>1, StartMoves DEF RadioInv, Running
<1>3. CASE Slot
  <2>1. PICK got \in SUBSET InRange : Moved(got)
    BY <1>3, SlotMoves
  <2>2. pc = "slots" /\ round_num' = round_num
    BY <1>3, SlotMoves
  <2>3. Initiator' = Initiator /\ Initiator \in Node
    BY <2>2, InitiatorIsNode DEF Initiator, LoopInv
  <2>4. /\ \A i \in Node : flood_remaining[i] > 0 <=> state[i] = "Flood"
        /\ \A i \in Node : flood_remaining[i] \in 0 .. FloodRepeats
        /\ FloodRepeats \in Nat /\ FloodRepeats >= 1
    BY FloodAssumption DEF RadioInv, LoopInv, TypeOK
  <2>5. \A i \in Node : flood_remaining'[i] > 0 <=> state'[i] = "Flood"
    <3> SUFFICES ASSUME NEW i \in Node
                 PROVE  flood_remaining'[i] > 0 <=> state'[i] = "Flood"
      OBVIOUS
    <3>1. CASE state[i] = "Flood"
      BY <2>1, <2>4, <3>1 DEF Moved
    <3>2. CASE state[i] # "Flood" /\ i \in got
      BY <2>1, <2>4, <3>2 DEF Moved
    <3>3. CASE state[i] # "Flood" /\ i \notin got
      BY <2>1, <2>4, <3>3 DEF Moved
    <3> QED
      BY <3>1, <3>2, <3>3
  <2>6. state[Initiator] # "Listen"
    BY <2>2 DEF RadioInv, Running
  <2>7. state'[Initiator] # "Listen"
    BY <2>1, <2>3, <2>6 DEF Moved
  <2> QED
    BY <2>3, <2>5, <2>7 DEF RadioInv
<1>4. CASE Deliver
  <2>1. UNCHANGED radio /\ Initiator' = Initiator /\ pc = "deliver"
    BY <1>4, DeliverMoves
  <2> QED
    BY <2>1 DEF RadioInv, Running, radio
<1>5. CASE OutOfSlots \/ Process \/ (driver = "pure_flood" /\ Count)
  <2>1. UNCHANGED radio /\ pc' \in {"prepare", "stopped"}
    BY <1>5, ProcessMoves DEF OutOfSlots
  <2> QED
    BY <2>1 DEF RadioInv, Running, radio
<1>6. CASE UNCHANGED vars
  BY <1>6 DEF RadioInv, Running, Initiator, vars, loop, radio
<1>7. Prepare \/ PreparePure \/ OutOfSlots \/ StartFlood \/ Slot \/ Deliver
      \/ Process \/ (driver = "pure_flood" /\ Count) \/ UNCHANGED vars
  BY EngineSteps
<1> QED
  BY <1>1, <1>2, <1>3, <1>4, <1>5, <1>6, <1>7

\* A node that hears a member of a connected set joins it.
LEMMA JoinConnected ==
    ASSUME NEW S, NEW got, NEW i, ConnectedAround(S, i),
           \A v \in got : \E u \in S : Adjacent(u, v)
    PROVE  ConnectedAround(S \cup got, i)
<1>1. i \in S /\ \A X \in SUBSET S : i \in X /\ X # S => \E u \in X, v \in S \ X : Adjacent(u, v)
  BY DEF ConnectedAround
<1>2. ASSUME NEW X \in SUBSET (S \cup got), i \in X, X # S \cup got
      PROVE  \E u \in X, v \in (S \cup got) \ X : Adjacent(u, v)
  <2>1. CASE S \subseteq X
    <3>1. PICK v \in got : v \notin X
      BY <1>2, <2>1
    <3>2. PICK u \in S : Adjacent(u, v)
      OBVIOUS
    <3> QED
      BY <2>1, <3>1, <3>2
  <2>2. CASE ~(S \subseteq X)
    <3> DEFINE Y == X \cap S
    <3>1. Y \in SUBSET S /\ i \in Y /\ Y # S
      BY <1>1, <1>2, <2>2
    <3>2. PICK u \in Y, v \in S \ Y : Adjacent(u, v)
      BY <1>1, <3>1
    <3> QED
      BY <3>2
  <2> QED
    BY <2>1, <2>2
<1> QED
  BY <1>1, <1>2 DEF ConnectedAround

\* A single node hangs together.
LEMMA SingleConnected ==
    ASSUME NEW i
    PROVE  ConnectedAround({i}, i)
<1>1. ASSUME NEW X \in SUBSET {i}, i \in X
      PROVE  X = {i}
  BY <1>1
<1> QED
  BY <1>1 DEF ConnectedAround

(***************************************************************************)
(* A slot brings everyone who floods one repeat closer to the end, so the  *)
(* nodes with at most k repeats left are those that had at most k + 1; who *)
(* has just received has all repeats left and heard a node that has fewer. *)
(***************************************************************************)
LEMMA AheadMoves ==
    ASSUME LoopInv, RadioInv, ConnectedInv, pc = "slots", round_num' = round_num,
           NEW got \in SUBSET InRange, Moved(got), NEW k \in 0 .. FloodRepeats
    PROVE  ConnectedAround(Ahead(k)', Initiator)
<1>1. FloodRepeats \in Nat /\ FloodRepeats >= 1
  BY FloodAssumption
<1>2. Initiator' = Initiator /\ Initiator \in Node
  BY InitiatorIsNode DEF Initiator, LoopInv
<1>3. \A i \in Node : /\ flood_remaining[i] \in 0 .. FloodRepeats
                      /\ flood_remaining[i] > 0 <=> state[i] = "Flood"
                      /\ state[i] \in NodeState
  BY DEF RadioInv, LoopInv, TypeOK
<1>4. \A j \in 0 .. FloodRepeats : ConnectedAround(Ahead(j), Initiator)
  BY DEF ConnectedInv, Running
<1>5. state[Initiator] # "Listen"
  BY DEF RadioInv, Running
<1>6. got \subseteq Node /\ \A v \in got : state[v] = "Listen" /\ \E u \in Neighbors(v) : state[u] = "Flood"
  BY DEF InRange
<1>7. CASE k < FloodRepeats
  <2>1. Ahead(k)' = Ahead(k+1)
    <3> SUFFICES ASSUME NEW i \in Node
                 PROVE  (state'[i] # "Listen" /\ flood_remaining'[i] <= k)
                           <=> (state[i] # "Listen" /\ flood_remaining[i] <= k + 1)
      BY <1>2 DEF Ahead
    <3>1. CASE state[i] = "Flood"
      <4>1. flood_remaining'[i] = flood_remaining[i] - 1 /\ state'[i] # "Listen"
        BY <3>1 DEF Moved
      <4> QED
        BY <1>1, <1>3, <3>1, <4>1
    <3>2. CASE i \in got
      <4>1. state[i] = "Listen"
        BY <1>6, <3>2
      <4>2. flood_remaining'[i] = FloodRepeats
        BY <3>2, <4>1 DEF Moved
      <4> QED
        BY <1>1, <1>7, <4>1, <4>2
    <3>3. CASE state[i] # "Flood" /\ i \notin got
      <4>1. flood_remaining'[i] = flood_remaining[i] /\ state'[i] = state[i]
        BY <3>3 DEF Moved
      <4>2. flood_remaining[i] = 0
        BY <1>1, <1>3, <3>3
      <4> QED
        BY <4>1, <4>2
    <3> QED
      BY <3>1, <3>2, <3>3
  <2> QED
    BY <1>1, <1>4, <1>7, <2>1
<1>8. CASE k = FloodRepeats
  <2>1. \A i \in Node : i \in Ahead(k) <=> state[i] # "Listen"
    BY <1>1, <1>3, <1>5, <1>8 DEF Ahead
  <2>2. Ahead(k)' = Ahead(k) \cup got
    <3>1. \A i \in Node : i \in Ahead(k)' <=> (i = Initiator \/ (state'[i] # "Listen" /\ flood_remaining'[i] <= k))
      BY <1>2 DEF Ahead
    <3>2. Ahead(k)' \subseteq Node /\ Ahead(k) \subseteq Node
      BY DEF Ahead
    <3> SUFFICES ASSUME NEW i \in Node
                 PROVE  i \in Ahead(k)' <=> (i \in Ahead(k) \/ i \in got)
      BY <1>6, <3>2
    <3>3. CASE state[i] = "Flood"
      <4>1. flood_remaining'[i] = flood_remaining[i] - 1 /\ state'[i] # "Listen"
        BY <3>3 DEF Moved
      <4> QED
        BY <1>1, <1>3, <1>8, <2>1, <3>1, <3>3, <4>1
    <3>4. CASE i \in got
      <4>1. state[i] = "Listen"
        BY <1>6, <3>4
      <4>2. flood_remaining'[i] = FloodRepeats /\ state'[i] = "Flood"
        BY <3>4, <4>1 DEF Moved
      <4> QED
        BY <1>1, <1>8, <3>1, <3>4, <4>2
    <3>5. CASE state[i] # "Flood" /\ i \notin got
      <4>1. flood_remaining'[i] = flood_remaining[i] /\ state'[i] = state[i]
        BY <3>5 DEF Moved
      <4> QED
        BY <1>1, <1>3, <1>5, <1>8, <2>1, <3>1, <3>5, <4>1
    <3> QED
      BY <3>3, <3>4, <3>5
  <2>3. ASSUME NEW v \in got
        PROVE  \E u \in Ahead(k) : Adjacent(u, v)
    <3>1. PICK u \in Neighbors(v) : state[u] = "Flood"
      BY <1>6
    <3>2. u \in Node /\ Adjacent(u, v)
      BY <3>1 DEF Neighbors, Adjacent
    <3> QED
      BY <2>1, <3>1, <3>2
  <2> QED
    BY <1>4, <1>8, <2>2, <2>3, JoinConnected
<1> QED
  BY <1>1, <1>7, <1>8

\* The wave stays connected around its initiator.
LEMMA ConnectedStep ==
    ASSUME LoopInv, DriverInv, RadioInv, ConnectedInv, [DriverNext]_all_vars
    PROVE  ConnectedInv'
<1>1. CASE Prepare \/ PreparePure
  BY <1>1, PrepareMoves DEF ConnectedInv, Running
<1>2. CASE StartFlood
  <2>1. /\ Initiator \in Node /\ Initiator' = Initiator
        /\ \A i \in Node : state'[i] = IF i = Initiator THEN "Flood" ELSE "Listen"
    BY <1>2, StartMoves
  <2>2. ASSUME NEW k \in 0 .. FloodRepeats
        PROVE  Ahead(k)' = {Initiator}
    BY <2>1 DEF Ahead
  <2> QED
    BY <2>1, <2>2, SingleConnected DEF ConnectedInv
<1>3. CASE Slot
  <2>1. PICK got \in SUBSET InRange : Moved(got)
    BY <1>3, SlotMoves
  <2>2. pc = "slots" /\ round_num' = round_num
    BY <1>3, SlotMoves
  <2>3. Initiator' = Initiator
    BY <2>2 DEF Initiator
  <2> QED
    BY <2>1, <2>2, <2>3, AheadMoves DEF ConnectedInv
<1>4. CASE Deliver
  <2>1. UNCHANGED radio /\ Initiator' = Initiator /\ pc = "deliver"
    BY <1>4, DeliverMoves
  <2>2. \A k : Ahead(k)' = Ahead(k)
    BY <2>1 DEF Ahead, radio
  <2> QED
    BY <2>1, <2>2 DEF ConnectedInv, Running
<1>5. CASE OutOfSlots \/ Process \/ (driver = "pure_flood" /\ Count)
  <2>1. pc' \in {"prepare", "stopped"}
    BY <1>5, ProcessMoves DEF OutOfSlots
  <2> QED
    BY <2>1 DEF ConnectedInv, Running
<1>6. CASE UNCHANGED vars
  <2>1. \A k : Ahead(k)' = Ahead(k)
    BY <1>6 DEF Ahead, Initiator, vars, loop, radio
  <2> QED
    BY <1>6, <2>1 DEF ConnectedInv, Running, Initiator, vars, loop
<1> QED
  BY <1>1, <1>2, <1>3, <1>4, <1>5, <1>6, EngineSteps

\* Only the tail of a flood hands the packet on, and only to those that are done.
LEMMA PayloadStep ==
    ASSUME LoopInv, DriverInv, RadioInv, PayloadInv, [DriverNext]_all_vars
    PROVE  PayloadInv'
<1>0. round_num \in Nat /\ \A i \in Node : payload[i] \in Nat \cup {None}
  BY FloodAssumption DEF LoopInv, TypeOK
<1>1. CASE Prepare \/ PreparePure
  <2>1. /\ pc = "prepare" /\ pc' = "flood" /\ round_num' = round_num
        /\ Initiator \in Node /\ Initiator' = Initiator
        /\ \A i \in Node : /\ i = Initiator => payload'[i] = round_num
                           /\ i # Initiator => payload'[i] \in {payload[i], None}
    BY <1>1, PrepareMoves
  <2>2. \A i \in Node : payload[i] < round_num
    BY <2>1 DEF PayloadInv
  <2>3. \A i \in Node : payload'[i] <= round_num /\ (payload'[i] = round_num <=> i = Initiator)
    BY <1>0, <2>1, <2>2 DEF None
  <2> QED
    BY <2>1, <2>3 DEF PayloadInv, IdenticalPayload
<1>2. CASE StartFlood \/ Slot
  <2>1. /\ pc \in {"flood", "slots"} /\ pc' \in {"slots", "deliver"}
        /\ round_num' = round_num /\ payload' = payload
    BY <1>2, StartMoves, SlotMoves
  <2> QED
    BY <2>1 DEF PayloadInv, IdenticalPayload, Initiator
<1>3. CASE Deliver
  <2>1. /\ pc = "deliver" /\ pc' = "process" /\ round_num' = round_num
        /\ Initiator \in Node /\ Participants' = Participants
        /\ \A i \in Node : payload'[i] = IF i \in Participants THEN payload[Initiator] ELSE payload[i]
    BY <1>3, DeliverMoves
  <2>2. \A i \in Node : payload[i] <= round_num /\ (payload[i] = round_num <=> i = Initiator)
    BY <2>1 DEF PayloadInv
  <2>3. Initiator \in Participants
    BY <2>1 DEF Participants
  <2> QED
    BY <2>1, <2>2, <2>3 DEF PayloadInv, IdenticalPayload
<1>4. CASE OutOfSlots
  BY <1>4 DEF OutOfSlots, PayloadInv, IdenticalPayload
<1>5. CASE Process \/ (driver = "pure_flood" /\ Count)
  <2>1. /\ pc = "process" /\ pc' \in {"prepare", "stopped"} /\ payload' = payload
        /\ pc' = "prepare" => round_num' = round_num + 1
    BY <1>5, ProcessMoves
  <2>2. \A i \in Node : payload[i] <= round_num
    BY <2>1 DEF PayloadInv
  <2>3. pc' = "prepare" => \A i \in Node : payload'[i] < round_num'
    BY <1>0, <2>1, <2>2 DEF None
  <2> QED
    BY <2>1, <2>3 DEF PayloadInv, IdenticalPayload
<1>6. CASE UNCHANGED vars
  BY <1>6 DEF PayloadInv, IdenticalPayload, Participants, Initiator, vars, loop, radio
<1> QED
  BY <1>1, <1>2, <1>3, <1>4, <1>5, <1>6, EngineSteps

(***************************************************************************)
(* In a slot without loss just those receive whose distance is one more    *)
(* than the slots that have passed: closer nodes have stopped listening,   *)
(* and farther ones have no neighbour that has heard.                      *)
(***************************************************************************)
LEMMA InRangeIsNextLayer ==
    ASSUME LoopInv, NEW k \in Nat, \A j \in Node : OnTime(j, k)
    PROVE  \A j \in Node : j \in InRange <=>
                              j \in Component(Initiator) /\ Distance(Initiator, j) = k + 1
<1> DEFINE C == Component(Initiator)
           d(j) == Distance(Initiator, j)
<1>1. Initiator \in Node /\ FloodRepeats \in Nat /\ FloodRepeats >= 1
  BY InitiatorIsNode, FloodAssumption DEF LoopInv
<1>2. Closed(C) /\ Initiator \in C /\ C \subseteq Node
  BY <1>1, ComponentClosed
<1>3. \A j \in C : /\ d(j) \in 0 .. N-1 /\ (d(j) = 0 <=> j = Initiator)
                   /\ \A u \in C : Adjacent(u, j) => d(j) <= d(u) + 1
                   /\ j # Initiator => \E u \in C : Adjacent(u, j) /\ d(u) = d(j) - 1
  BY <1>1, DistanceFacts
<1>4. \A j \in Node : state[j] = "Listen" <=> j \notin C \/ k < d(j)
  BY DEF OnTime
<1>5. \A j \in Node : state[j] = "Flood" <=> j \in C /\ ~(k < d(j)) /\ k < d(j) + FloodRepeats
  BY DEF OnTime
<1> HIDE DEF C, d
<1>6. ASSUME NEW j \in Node, j \in InRange
      PROVE  j \in C /\ d(j) = k + 1
  <2>1. PICK u \in Neighbors(j) : state[u] = "Flood"
    BY <1>6 DEF InRange
  <2>2. u \in Node /\ Adjacent(u, j)
    BY <2>1 DEF Neighbors, Adjacent
  <2>3. u \in C /\ ~(k < d(u))
    BY <1>5, <2>1, <2>2
  <2>4. j \in C
    BY <1>2, <2>2, <2>3 DEF Closed
  <2>5. d(j) <= d(u) + 1 /\ k < d(j)
    BY <1>3, <1>4, <1>6, <2>2, <2>3, <2>4 DEF InRange
  <2>6. d(j) \in Nat /\ d(u) \in Nat
    BY <1>3, <2>3, <2>4, NodeFacts
  <2> QED
    BY <2>3, <2>4, <2>5, <2>6
<1>7. ASSUME NEW j \in C, d(j) = k + 1
      PROVE  j \in InRange
  <2>1. j # Initiator /\ j \in Node
    BY <1>2, <1>3, <1>7
  <2>2. PICK u \in C : Adjacent(u, j) /\ d(u) = d(j) - 1
    BY <1>3, <2>1
  <2>3. u \in Node /\ d(u) = k
    BY <1>2, <1>7, <2>2
  <2>4. state[u] = "Flood"
    BY <1>1, <1>5, <2>3
  <2>5. state[j] = "Listen"
    BY <1>4, <1>7, <2>1
  <2>6. u \in Neighbors(j)
    BY <2>2, <2>3 DEF Neighbors, Adjacent
  <2> QED
    BY <2>1, <2>4, <2>5, <2>6 DEF InRange
<1> QED
  BY <1>6, <1>7 DEF C, d

(***************************************************************************)
(* If, k slots into a flood from i, those of the states st flood whose     *)
(* time it is, then somebody does until the last repeat of the farthest    *)
(* node, and nobody after it.                                              *)
(***************************************************************************)
LEMMA WaveLasts ==
    ASSUME NEW i \in Node, NEW k \in Nat, NEW st,
           \A j \in Node : st[j] = "Flood" <=>
              /\ j \in Component(i) /\ ~(k < Distance(i, j))
              /\ k < Distance(i, j) + FloodRepeats
    PROVE  (\E j \in Node : st[j] = "Flood") <=> k < Eccentricity(i) + FloodRepeats
<1> DEFINE C == Component(i)
           d(j) == Distance(i, j)
           e == Eccentricity(i)
<1>1. FloodRepeats \in Nat /\ FloodRepeats >= 1
  BY FloodAssumption
<1>2. C \subseteq Node /\ \A j \in C : d(j) \in Nat
  BY ComponentClosed, DistanceFacts, NodeFacts
<1>3. /\ e \in 0 .. N-1 /\ \A j \in C : d(j) <= e
      /\ \A n \in 0 .. e : \E j \in C : d(j) = n
  BY EccentricityFacts
<1>4. e \in Nat
  BY <1>3, NodeFacts
<1>5. \A j \in Node : st[j] = "Flood" <=> j \in C /\ ~(k < d(j)) /\ k < d(j) + FloodRepeats
  OBVIOUS
<1> HIDE DEF C, d, e
<1>6. ASSUME NEW j \in Node, st[j] = "Flood"
      PROVE  k < e + FloodRepeats
  <2>1. j \in C /\ k < d(j) + FloodRepeats
    BY <1>5, <1>6
  <2>2. d(j) \in Nat /\ d(j) <= e
    BY <1>2, <1>3, <2>1
  <2> QED
    BY <1>1, <1>4, <2>1, <2>2
<1>7. ASSUME k < e + FloodRepeats
      PROVE  \E j \in Node : st[j] = "Flood"
  <2> DEFINE n == IF k <= e THEN k ELSE e
  <2>1. n \in 0 .. e /\ n <= k /\ k < n + FloodRepeats
    BY <1>1, <1>4, <1>7
  <2>2. PICK j \in C : d(j) = n
    BY <1>3, <2>1
  <2>3. st[j] = "Flood" /\ j \in Node
    BY <1>2, <1>5, <2>1, <2>2
  <2> QED
    BY <2>3
<1> QED
  BY <1>6, <1>7 DEF e

\* A slot without loss carries the search on by one layer.
LEMMA OnTimeMoves ==
    ASSUME LoopInv, RadioInv, NEW k \in Nat, \A j \in Node : OnTime(j, k),
           Moved(InRange), Initiator' = Initiator, NEW j \in Node
    PROVE  OnTime(j, k + 1)'
<1> DEFINE d == Distance(Initiator, j)
           Far == j \notin Component(Initiator)
<1>1. FloodRepeats \in Nat /\ FloodRepeats >= 1
  BY FloodAssumption
<1>2. Initiator \in Node
  BY InitiatorIsNode DEF LoopInv
<1>3. ~Far => d \in Nat
  BY <1>2, DistanceFacts, NodeFacts
<1>4. j \in InRange <=> ~Far /\ d = k + 1
  BY InRangeIsNextLayer
<1>5. OnTime(j, k)
  OBVIOUS
<1>6. /\ Far \/ k < d => state[j] = "Listen"
      /\ ~Far /\ ~(k < d) /\ k < d + FloodRepeats =>
            state[j] = "Flood" /\ flood_remaining[j] = FloodRepeats - (k - d)
      /\ ~Far /\ ~(k < d) /\ ~(k < d + FloodRepeats) => state[j] = "Sleep"
  BY <1>5 DEF OnTime
<1>7. OnTime(j, k + 1)' <=>
        IF Far \/ k + 1 < d THEN state'[j] = "Listen"
        ELSE IF k + 1 < d + FloodRepeats
        THEN state'[j] = "Flood" /\ flood_remaining'[j] = FloodRepeats - ((k + 1) - d)
        ELSE state'[j] = "Sleep"
  <2>1. (Component(Initiator))' = Component(Initiator) /\ (Distance(Initiator, j))' = Distance(Initiator, j)
    BY DEF Component, Distance, WithinHops, Neighbors, Adjacent, Node
  <2> QED
    BY <2>1 DEF OnTime
<1> HIDE DEF d, Far
<1>8. CASE Far \/ k < d
  <2>1. state[j] = "Listen"
    BY <1>6, <1>8
  <2>2. CASE ~Far /\ d = k + 1
    <3>1. state'[j] = "Flood" /\ flood_remaining'[j] = FloodRepeats
      BY <1>4, <2>1, <2>2 DEF Moved
    <3> QED
      BY <1>1, <1>3, <1>7, <2>2, <3>1
  <2>3. CASE Far \/ d # k + 1
    <3>1. state'[j] = "Listen"
      BY <1>4, <2>1, <2>3 DEF Moved
    <3>2. Far \/ k + 1 < d
      BY <1>3, <1>8, <2>3
    <3> QED
      BY <1>7, <3>1, <3>2
  <2> QED
    BY <2>2, <2>3
<1>9. CASE ~Far /\ ~(k < d) /\ k < d + FloodRepeats
  <2>1. state[j] = "Flood" /\ flood_remaining[j] = FloodRepeats - (k - d)
    BY <1>6, <1>9
  <2>2. /\ flood_remaining'[j] = flood_remaining[j] - 1
        /\ state'[j] = IF flood_remaining[j] = 1 THEN "Sleep" ELSE "Flood"
    BY <2>1 DEF Moved
  <2>3. d \in Nat
    BY <1>3, <1>9
  <2>4. flood_remaining[j] = 1 <=> ~(k + 1 < d + FloodRepeats)
    BY <1>1, <1>9, <2>1, <2>3
  <2>5. flood_remaining'[j] = FloodRepeats - ((k + 1) - d)
    BY <1>1, <2>1, <2>2, <2>3
  <2>6. ~(k + 1 < d)
    BY <1>9, <2>3
  <2> QED
    BY <1>7, <1>9, <2>2, <2>4, <2>5, <2>6
<1>10. CASE ~Far /\ ~(k < d) /\ ~(k < d + FloodRepeats)
  <2>1. state[j] = "Sleep" /\ d \in Nat
    BY <1>3, <1>6, <1>10
  <2>2. j \notin InRange
    BY <2>1 DEF InRange
  <2>3. state'[j] = "Sleep"
    BY <2>1, <2>2 DEF Moved
  <2>4. ~(k + 1 < d) /\ ~(k + 1 < d + FloodRepeats)
    BY <1>1, <1>10, <2>1
  <2> QED
    BY <1>7, <1>10, <2>3, <2>4
<1> QED
  BY <1>8, <1>9, <1>10

\* The wave keeps its time from the first slot of a flood to the end of its round.
LEMMA WaveStep ==
    ASSUME LoopInv, DriverInv, RadioInv, WaveInv, [DriverNext]_all_vars
    PROVE  WaveInv'
<1>0. FloodRepeats \in Nat /\ FloodRepeats >= 1
  BY FloodAssumption
<1>00. current_slot \in Nat /\ round_start \in 0 .. current_slot
  BY DEF LoopInv, TypeOK
<1>1. CASE Prepare \/ PreparePure
  BY <1>1, PrepareMoves DEF WaveInv, Running
<1>2. CASE StartFlood
  <2>1. /\ Initiator \in Node /\ Initiator' = Initiator /\ current_slot' = current_slot
        /\ round_start' = current_slot
        /\ pc' = IF RoundLength > 0 THEN "slots" ELSE "deliver"
        /\ \A i \in Node :
              /\ state'[i] = IF i = Initiator THEN "Flood" ELSE "Listen"
              /\ flood_remaining'[i] = IF i = Initiator THEN FloodRepeats ELSE 0
    BY <1>2, StartMoves
  <2>2. current_slot' - round_start' = 0
    BY <1>00, <2>1
  <2>3. ASSUME NEW j \in Node
        PROVE  OnTime(j, 0)'
    <3> DEFINE d == Distance(Initiator, j)
               Far == j \notin Component(Initiator)
    <3>1. ~Far => d \in Nat /\ (d = 0 <=> j = Initiator)
      BY <2>1, DistanceFacts, NodeFacts
    <3>2. Initiator \in Component(Initiator)
      BY <2>1, ComponentClosed
    <3>3. OnTime(j, 0)' <=>
            IF Far \/ 0 < d THEN state'[j] = "Listen"
            ELSE IF 0 < d + FloodRepeats
            THEN state'[j] = "Flood" /\ flood_remaining'[j] = FloodRepeats - (0 - d)
            ELSE state'[j] = "Sleep"
      <4>1. (Component(Initiator))' = Component(Initiator) /\ (Distance(Initiator, j))' = Distance(Initiator, j)
        BY <2>1 DEF Component, Distance, WithinHops, Neighbors, Adjacent, Node
      <4> QED
        BY <4>1 DEF OnTime
    <3>4. j = Initiator <=> ~Far /\ d = 0
      BY <3>1, <3>2
    <3> HIDE DEF d, Far
    <3>5. CASE j = Initiator
      BY <1>0, <2>1, <3>3, <3>4, <3>5
    <3>6. CASE j # Initiator
      BY <2>1, <3>1, <3>3, <3>4, <3>6
    <3> QED
      BY <3>5, <3>6
  <2>4. RoundSlots = None => pc' = "slots"
    BY <2>1, DefaultLengthSuffices
  <2> QED
    BY <2>2, <2>3, <2>4 DEF WaveInv
<1>3. CASE Slot
  <2>1. /\ pc = "slots" /\ current_slot' = current_slot + 1
        /\ pc' = IF WaveOver \/ current_slot' >= RoundEnd THEN "deliver" ELSE "slots"
        /\ round_num' = round_num /\ round_start' = round_start
    BY <1>3, SlotMoves
  <2>2. Initiator' = Initiator /\ Initiator \in Node
    BY <2>1, InitiatorIsNode DEF Initiator, LoopInv
  <2> SUFFICES ASSUME round_num > LastLossyRound
               PROVE  WaveInv'
    BY <2>1 DEF WaveInv
  <2> DEFINE e == Eccentricity(Initiator)
  <2>13. PICK k \in Nat : k = current_slot - round_start
    BY <1>00
  <2>3. k \in Nat /\ current_slot' - round_start' = k + 1
    BY <1>00, <2>1, <2>13
  <2>4. \A j \in Node : OnTime(j, k)
    BY <2>1, <2>13 DEF WaveInv, Running
  <2>5. Moved(InRange)
    BY <1>3, SlotMoves
  <2>6. AnyFlood <=> k < e + FloodRepeats
    <3>1. \A j \in Node : state[j] = "Flood" <=>
             /\ j \in Component(Initiator) /\ ~(k < Distance(Initiator, j))
             /\ k < Distance(Initiator, j) + FloodRepeats
      BY <2>4 DEF OnTime
    <3> QED
      BY <2>2, <2>3, <3>1, WaveLasts DEF AnyFlood
  <2>7. e \in Nat /\ e' = e
    <3>1. e \in Nat
      BY <2>2, EccentricityFacts, NodeFacts
    <3>2. e' = e
      BY <2>2 DEF Eccentricity, Component, Distance, WithinHops, Neighbors, Adjacent, Node
    <3> QED
      BY <3>1, <3>2
  <2> HIDE DEF e
  <2>8. \A j \in Node : OnTime(j, k + 1)'
    BY <2>2, <2>3, <2>4, <2>5, OnTimeMoves
  <2>9. AnyFlood' <=> k + 1 < e + FloodRepeats
    <3>1. \A j \in Node : /\ (Component(Initiator))' = Component(Initiator)
                         /\ (Distance(Initiator, j))' = Distance(Initiator, j)
      BY <2>2 DEF Component, Distance, WithinHops, Neighbors, Adjacent, Node
    <3>2. \A j \in Node : state'[j] = "Flood" <=>
             /\ j \in Component(Initiator) /\ ~(k + 1 < Distance(Initiator, j))
             /\ k + 1 < Distance(Initiator, j) + FloodRepeats
      BY <2>8, <3>1 DEF OnTime
    <3>3. k + 1 \in Nat
      BY <2>3
    <3> QED
      BY <2>2, <3>2, <3>3, WaveLasts DEF AnyFlood, e
  <2>10. k + 1 <= e + FloodRepeats
    BY <1>0, <2>1, <2>3, <2>6, <2>7 DEF LoopInv
  <2>11. ASSUME pc' # "slots", RoundSlots = None
         PROVE  k + 1 = e + FloodRepeats
    <3>1. CASE WaveOver
      <4>1. ~AnyFlood'
        BY <3>1 DEF WaveOver, AnyFlood
      <4> QED
        BY <1>0, <2>3, <2>7, <2>9, <2>10, <4>1
    <3>2. CASE current_slot' >= RoundEnd
      <4>1. RoundLength \in Nat /\ RoundLength >= e + FloodRepeats
        BY <2>2, <2>11, DefaultLengthSuffices DEF e
      <4>2. k + 1 >= RoundLength
        BY <1>00, <2>1, <2>3, <2>13, <3>2, <4>1 DEF RoundEnd
      <4> QED
        BY <1>0, <2>3, <2>7, <2>10, <4>1, <4>2
    <3> QED
      BY <2>1, <2>11, <3>1, <3>2
  <2>12. e' = Eccentricity(Initiator)'
    BY DEF e
  <2> QED
    BY <2>3, <2>7, <2>8, <2>11, <2>12 DEF WaveInv
<1>4. CASE Deliver
  <2>1. /\ UNCHANGED <<round_num, current_slot, round_start, radio>>
        /\ Initiator' = Initiator /\ pc = "deliver" /\ pc' = "process"
    BY <1>4, DeliverMoves
  <2>2. (\A j \in Node : OnTime(j, current_slot - round_start))'
            = (\A j \in Node : OnTime(j, current_slot - round_start))
    BY <2>1 DEF OnTime, Component, Distance, WithinHops, Neighbors, Adjacent, Node, radio
  <2>3. Eccentricity(Initiator)' = Eccentricity(Initiator)
    BY <2>1 DEF Eccentricity, Component, Distance, WithinHops, Neighbors, Adjacent, Node
  <2> QED
    BY <2>1, <2>2, <2>3 DEF WaveInv, Running
<1>5. CASE OutOfSlots \/ Process \/ (driver = "pure_flood" /\ Count)
  <2>1. pc' \in {"prepare", "stopped"}
    BY <1>5, ProcessMoves DEF OutOfSlots
  <2> QED
    BY <2>1 DEF WaveInv, Running
<1>6. CASE UNCHANGED vars
  <2>1. UNCHANGED <<pc, round_num, current_slot, round_start, radio>> /\ Initiator' = Initiator
    BY <1>6 DEF vars, loop, Initiator
  <2>2. (\A j \in Node : OnTime(j, current_slot - round_start))'
            = (\A j \in Node : OnTime(j, current_slot - round_start))
    BY <2>1 DEF OnTime, Component, Distance, WithinHops, Neighbors, Adjacent, Node, radio
  <2>3. Eccentricity(Initiator)' = Eccentricity(Initiator)
    BY <2>1 DEF Eccentricity, Component, Distance, WithinHops, Neighbors, Adjacent, Node
  <2> QED
    BY <2>1, <2>2, <2>3 DEF WaveInv, Running
<1> QED
  BY <1>1, <1>2, <1>3, <1>4, <1>5, <1>6, EngineSteps

-----------------------------------------------------------------------------
(***************************************************************************)
(* The theorems, for both loops above the engine.                          *)
(***************************************************************************)

\* The first state satisfies the invariant.
LEMMA InitFlood ==
    ASSUME DriverInit
    PROVE  FloodInv
<1>1. FloodRepeats \in Nat /\ SnapshotInterval \in Nat /\ SnapshotInterval >= 1
      /\ MaxRounds \in Nat /\ NumFloods \in 1 .. MaxRounds + 1 /\ N \in Nat
  BY FloodAssumption, PureFloodAssumption, NAssumption
<1>2. /\ pc = "prepare" /\ round_num = 0 /\ stopped_by = "none"
      /\ current_slot = 0 /\ round_start = 0
      /\ state = [i \in Node |-> "Listen"] /\ flood_remaining = [i \in Node |-> 0]
      /\ payload = [i \in Node |-> None]
      /\ ticks = [s \in NodeState |-> 0] /\ sampled = [s \in NodeState |-> 0]
      /\ next_snapshot = 0 /\ rows = 0
      /\ driver \in {"protocol", "pure_flood"} /\ floods_done = 0
  BY DEF DriverInit, Init
<1>3. TypeOK
  BY <1>1, <1>2 DEF TypeOK, NodeState
<1>4. LoopInv /\ DriverInv
  BY <1>1, <1>2, <1>3 DEF LoopInv, DriverInv
<1>5. RadioInv /\ ConnectedInv /\ WaveInv
  BY <1>2 DEF RadioInv, ConnectedInv, WaveInv, Running
<1>6. PayloadInv
  BY <1>2 DEF PayloadInv, IdenticalPayload, None
<1>7. MeterInv
  <2>1. ticks["Listen"] = 0 /\ ticks["Flood"] = 0 /\ ticks["Sleep"] = 0 /\ sampled = ticks
    BY <1>2 DEF NodeState
  <2>2. 0 * SnapshotInterval = 0 /\ N * 0 = 0
    BY <1>1
  <2> QED
    BY <1>1, <1>2, <2>1, <2>2 DEF MeterInv
<1> QED
  BY <1>4, <1>5, <1>6, <1>7 DEF FloodInv

\* The invariant holds of the engine under either of the loops that drive it.
THEOREM Invariance == DriverSpec => []FloodInv
<1>1. DriverInit => FloodInv
  BY InitFlood
<1>2. FloodInv /\ [DriverNext]_all_vars => FloodInv'
  <2> SUFFICES ASSUME FloodInv, [DriverNext]_all_vars
               PROVE  FloodInv'
    OBVIOUS
  <2>1. LoopInv /\ DriverInv /\ RadioInv /\ ConnectedInv /\ PayloadInv /\ MeterInv /\ WaveInv
    BY DEF FloodInv
  <2>2. LoopInv'
    BY <2>1, LoopStep
  <2>3. DriverInv'
    BY <2>1, DriverStep
  <2>4. RadioInv'
    BY <2>1, RadioStep
  <2>5. ConnectedInv'
    BY <2>1, ConnectedStep
  <2>6. PayloadInv'
    BY <2>1, PayloadStep
  <2>7. MeterInv'
    BY <2>1, MetersStep
  <2>8. WaveInv'
    BY <2>1, WaveStep
  <2> QED
    BY <2>2, <2>3, <2>4, <2>5, <2>6, <2>7, <2>8 DEF FloodInv
<1> QED
  BY <1>1, <1>2, PTL DEF DriverSpec

\* Every variable of the engine keeps its type: no counter of repeats underflows.
THEOREM TypeCorrect == DriverSpec => []TypeOK
<1>1. FloodInv => TypeOK
  BY DEF FloodInv, LoopInv
<1> QED
  BY <1>1, Invariance, PTL

\* A quotient is known by what it leaves.
LEMMA QuotientOf ==
    ASSUME NEW q \in Nat, NEW m \in Nat \ {0}, NEW a \in Nat, q * m <= a, a < q * m + m
    PROVE  a \div m = q
<1>1. PICK r \in 0 .. m - 1 : a = q * m + r
  <2>1. q * m \in Nat
    OBVIOUS
  <2>2. a - q * m \in 0 .. m - 1 /\ a = q * m + (a - q * m)
    BY <2>1
  <2> QED
    BY <2>2
<1> QED
  BY <1>1

(***************************************************************************)
(* The snapshots and the tick counters account for the same slots, for     *)
(* every interval: the loop of take_snapshot neither skips a multiple of   *)
(* the interval nor takes one twice.                                       *)
(***************************************************************************)
THEOREM SnapshotTheorem == DriverSpec => []SnapshotsMatchTicks
<1>1. FloodInv => SnapshotsMatchTicks
  <2> SUFFICES ASSUME FloodInv
               PROVE  SnapshotsMatchTicks
    OBVIOUS
  <2>1. MeterInv /\ current_slot \in Nat /\ next_snapshot \in Nat /\ rows \in Nat
    BY DEF FloodInv, LoopInv, TypeOK
  <2>2. SnapshotInterval \in Nat \ {0}
    BY FloodAssumption
  <2>3. /\ next_snapshot = rows * SnapshotInterval
        /\ current_slot <= next_snapshot /\ next_snapshot < current_slot + SnapshotInterval
    BY <2>1 DEF MeterInv
  <2> DEFINE a == current_slot + SnapshotInterval - 1
             p == rows * SnapshotInterval
  <2>4. a \in Nat /\ p <= a /\ a < p + SnapshotInterval
    BY <2>1, <2>2, <2>3
  <2>5. a \div SnapshotInterval = rows
    <3> HIDE DEF a
    <3> QED
      BY <2>1, <2>2, <2>4, QuotientOf
  <2> QED
    BY <2>1, <2>5 DEF MeterInv, SnapshotsMatchTicks
<1> QED
  BY <1>1, Invariance, PTL

\* A flood that loses nothing ends with everybody served who is connected to the initiator.
LEMMA LosslessServesAll ==
    ASSUME FloodInv, pc \in {"deliver", "process"}, RoundSlots = None, round_num > LastLossyRound
    PROVE  Participants = Component(Initiator)
<1>1. Initiator \in Node /\ FloodRepeats \in Nat
  BY InitiatorIsNode, FloodAssumption DEF FloodInv, LoopInv
<1> DEFINE k == current_slot - round_start
           C == Component(Initiator)
<1>2. /\ \A j \in Node : OnTime(j, k)
      /\ k = Eccentricity(Initiator) + FloodRepeats
  BY DEF FloodInv, WaveInv, Running
<1>3. C \subseteq Node /\ Initiator \in C /\ \A j \in C : Distance(Initiator, j) \in Nat
  BY <1>1, ComponentClosed, DistanceFacts, NodeFacts
<1>4. Eccentricity(Initiator) \in Nat /\ \A j \in C : Distance(Initiator, j) <= Eccentricity(Initiator)
  BY <1>1, EccentricityFacts, NodeFacts
<1> HIDE DEF k
<1>5. \A j \in C : ~(k < Distance(Initiator, j)) /\ ~(k < Distance(Initiator, j) + FloodRepeats)
  BY <1>1, <1>2, <1>3, <1>4
<1>6. \A j \in Node : state[j] = "Sleep" <=> j \in C
  BY <1>2, <1>5 DEF OnTime
<1> QED
  BY <1>3, <1>6 DEF Participants

(***************************************************************************)
(* A round serves whom it should: the participants and nobody else hold    *)
(* the packet of the round, and a lossless round of the default length     *)
(* serves all that are connected and ends at once.                         *)
(***************************************************************************)
THEOREM WaveTheorem == DriverSpec => []WaveIsRight
<1>1. FloodInv => WaveIsRight
  <2> SUFFICES ASSUME FloodInv
               PROVE  WaveIsRight
    OBVIOUS
  <2>1. IdenticalPayload
    BY DEF FloodInv, PayloadInv
  <2>2. LosslessRoundIsTight
    BY LosslessServesAll DEF FloodInv, WaveInv, Running, LosslessRoundIsTight
  <2> QED
    BY <2>1, <2>2 DEF WaveIsRight
<1> QED
  BY <1>1, Invariance, PTL

(***************************************************************************)
(* A flood that loses packets may be cut at any length, but no lossless    *)
(* flood runs under a length of the configuration's own: such a length can *)
(* end a wave that still moves, and then the engine serves less than       *)
(* everything that is connected.                                           *)
(***************************************************************************)
NeverCut == RoundSlots = None \/ MaxRounds <= LastLossyRound

\* Whatever was lost, those that are done at the end of a flood hang together around the initiator.
LEMMA ParticipantsConnected ==
    ASSUME FloodInv, pc \in {"deliver", "process"}
    PROVE  ConnectedAround(Participants, Initiator)
<1>1. FloodRepeats \in Nat
  BY FloodAssumption
<1>2. /\ state \in [Node -> NodeState] /\ flood_remaining \in [Node -> 0 .. FloodRepeats]
      /\ \A i \in Node : flood_remaining[i] > 0 <=> state[i] = "Flood"
  BY DEF FloodInv, LoopInv, TypeOK, RadioInv
<1>3. Participants = Ahead(0)
  <2> SUFFICES ASSUME NEW i \in Node
               PROVE  state[i] = "Sleep" <=> (state[i] # "Listen" /\ flood_remaining[i] <= 0)
    BY DEF Participants, Ahead
  <2> QED
    BY <1>1, <1>2 DEF NodeState
<1>4. 0 \in 0 .. FloodRepeats
  BY <1>1
<1> QED
  BY <1>3, <1>4 DEF FloodInv, ConnectedInv, Running

\* The participants at the end of a flood are an outcome the protocols reckon with.
LEMMA OutcomeIsAllowed ==
    ASSUME FloodInv, NeverCut, pc = "deliver"
    PROVE  Participants \in Abstract!FloodOutcomes(Initiator, round_num)
<1>1. Initiator \in Node /\ round_num <= MaxRounds
  BY InitiatorIsNode DEF FloodInv, LoopInv
<1>3. ConnectedAround(Participants, Initiator)
  BY ParticipantsConnected
<1>4. ASSUME round_num > LastLossyRound, NEW u \in Participants, NEW v \in Node \ Participants
      PROVE  ~Adjacent(u, v)
  <2>1. RoundSlots = None
    BY <1>1, <1>4, FloodAssumption DEF NeverCut, FloodInv, LoopInv, TypeOK
  <2>2. Participants = Component(Initiator)
    BY <1>4, <2>1, LosslessServesAll
  <2>3. Closed(Component(Initiator))
    BY <1>1, ComponentClosed
  <2> QED
    BY <1>4, <2>2, <2>3 DEF Closed
<1>5. Participants \in SUBSET Node
  BY DEF Participants
<1> QED
  BY <1>3, <1>4, <1>5 DEF Abstract!FloodOutcomes, Abstract!ConnectedAround, ConnectedAround,
                          Abstract!Adjacent, Adjacent, Abstract!Node, Node

(***************************************************************************)
(* The engine implements the flood that the protocols are modelled on: its *)
(* slots are steps inside the flood, and its tail is the outcome.          *)
(***************************************************************************)
THEOREM LossyFloodImplemented ==
    ASSUME NeverCut
    PROVE  DriverSpec => ImplementsLossyFlood
<1>1. DriverInit => Abstract!LoopInit
  BY DEF DriverInit, Init, Abstract!LoopInit
<1>2. FloodInv /\ [DriverNext]_all_vars => [Abstract!Next]_(Abstract!loop_vars)
  <2> SUFFICES ASSUME FloodInv, [DriverNext]_all_vars
               PROVE  [Abstract!Next]_(Abstract!loop_vars)
    OBVIOUS
  <2> DEFINE apc == IF pc \in {"slots", "deliver"} THEN "flood" ELSE pc
             aheard == IF pc = "process" THEN Participants ELSE {}
  <2>0. LoopInv /\ DriverInv /\ RadioInv
    BY DEF FloodInv
  <2>2. CASE Prepare \/ PreparePure
    <3>1. apc = "prepare" /\ apc' = "flood" /\ UNCHANGED <<round_num, aheard, stopped_by>>
      BY <2>0, <2>2, PrepareMoves
    <3>2. Abstract!Prepare
      BY <3>1 DEF Abstract!Prepare
    <3> QED
      BY <3>2 DEF Abstract!Next
  <2>3. CASE OutOfSlots
    <3>1. /\ apc = "prepare" /\ apc' = "stopped" /\ stopped_by' = "max_slots"
          /\ UNCHANGED <<round_num, aheard>>
      BY <2>3 DEF OutOfSlots
    <3>2. Abstract!OutOfSlots
      BY <3>1 DEF Abstract!OutOfSlots
    <3> QED
      BY <3>2 DEF Abstract!Next
  <2>4. CASE StartFlood \/ Slot
    <3>1. apc = "flood" /\ apc' = "flood" /\ UNCHANGED <<round_num, aheard, stopped_by>>
      BY <2>0, <2>4, StartMoves, SlotMoves
    <3> QED
      BY <3>1 DEF Abstract!loop_vars
  <2>5. CASE Deliver
    <3>1. /\ pc = "deliver" /\ apc = "flood" /\ apc' = "process"
          /\ aheard' = Participants /\ UNCHANGED <<round_num, stopped_by>>
      BY <2>0, <2>5, DeliverMoves
    <3>2. Participants \in Abstract!FloodOutcomes(Initiator, round_num)
      BY <3>1, OutcomeIsAllowed
    <3>3. Initiator = Abstract!Initiator
      BY DEF Initiator, Abstract!Initiator, Abstract!InitiatorOf
    <3>4. Abstract!FloodIdentical
      BY <3>1, <3>2, <3>3 DEF Abstract!FloodIdentical
    <3> QED
      BY <3>4 DEF Abstract!Next
  <2>6. CASE Process \/ (driver = "pure_flood" /\ Count)
    <3>1. /\ pc = "process" /\ apc = "process" /\ apc' = pc' /\ aheard' = {}
          /\ \/ pc' = "stopped" /\ stopped_by' = "all_done" /\ round_num' = round_num
             \/ /\ round_num' = round_num + 1
                /\ pc' = IF round_num' > MaxRounds THEN "stopped" ELSE "prepare"
                /\ stopped_by' = IF round_num' > MaxRounds THEN "max_rounds" ELSE "none"
      BY <2>0, <2>6, ProcessMoves
    <3>2. Abstract!EndRound("all_done") \/ Abstract!EndRound("none")
      BY <3>1 DEF Abstract!EndRound
    <3>3. Abstract!Process
      BY <3>1, <3>2 DEF Abstract!Process
    <3> QED
      BY <3>3 DEF Abstract!Next
  <2>7. CASE UNCHANGED vars
    <3>1. UNCHANGED <<apc, round_num, aheard, stopped_by>>
      BY <2>7 DEF vars, loop, radio, Participants, Initiator
    <3> QED
      BY <3>1 DEF Abstract!loop_vars
  <2> QED
    BY <2>2, <2>3, <2>4, <2>5, <2>6, <2>7, EngineSteps
<1> QED
  BY <1>1, <1>2, Invariance, PTL DEF DriverSpec, ImplementsLossyFlood, Abstract!Spec

-----------------------------------------------------------------------------
(***************************************************************************)
(* What pure_flood.rs reports.                                             *)
(***************************************************************************)

\* The receivers that the flood has reached so far.
Reached == {v \in Node : v # Initiator /\ state[v] # "Listen"}

\* Behind every receiver reached is a packet received, and behind it one sent into range.
ReportInv ==
    /\ receivers_covered \in Nat /\ rx_attempts \in Nat /\ rx_success \in Nat
    /\ receiver_opportunities = (N - 1) * floods_done
    /\ driver = "pure_flood" =>
          /\ receivers_covered <= rx_success
          /\ Running => receivers_covered + Cardinality(Reached) <= rx_success
          /\ rx_success <= rx_attempts

\* The packets of a slot that may be heard, listener by listener.
Audible == [v \in Node |-> Cardinality(FloodingNeighbors(v))]

\* The engine's count of packets sent into range is a sum over the listeners.
LEMMA AttemptsIsSum ==
    ASSUME NEW nodes \in SUBSET Node
    PROVE  Attempts(nodes) = SumOver(Audible, nodes)
<1> DEFINE W == CHOOSE g : g = [s \in SUBSET nodes |->
                  IF s = {} THEN 0 ELSE Cardinality(FloodingNeighbors(Pick(s))) + g[s \ {Pick(s)}]]
<1>1. Attempts(nodes) = W[nodes]
  BY DEF Attempts, MapThenSumSet, MapThenFoldSet, Pick
<1>2. IsFiniteSet(nodes)
  BY NodeFacts, FS_Subset
<1>3. ASSUME NEW g
      PROVE  [s \in SUBSET nodes |-> IF s = {} THEN 0 ELSE Audible[Pick(s)] + g[s \ {Pick(s)}]]
               = [s \in SUBSET nodes |->
                    IF s = {} THEN 0
                    ELSE Cardinality(FloodingNeighbors(Pick(s))) + g[s \ {Pick(s)}]]
  <2>1. ASSUME NEW s \in SUBSET nodes, s # {}
        PROVE  Audible[Pick(s)] = Cardinality(FloodingNeighbors(Pick(s)))
    <3>1. Pick(s) \in Node
      BY <2>1 DEF Pick
    <3> QED
      BY <3>1 DEF Audible
  <2> QED
    BY <2>1
<1>4. PICK h : IsSum(Audible, nodes, h)
  BY <1>2, SumExists
<1>5. h = [s \in SUBSET nodes |->
             IF s = {} THEN 0 ELSE Cardinality(FloodingNeighbors(Pick(s))) + h[s \ {Pick(s)}]]
  BY <1>3, <1>4 DEF IsSum
<1>6. W = [s \in SUBSET nodes |->
             IF s = {} THEN 0 ELSE Cardinality(FloodingNeighbors(Pick(s))) + W[s \ {Pick(s)}]]
  BY <1>5
<1> HIDE DEF W
<1>7. IsSum(Audible, nodes, W)
  BY <1>3, <1>6 DEF IsSum
<1> QED
  BY <1>1, <1>2, <1>7, SumIsSum

\* Fewer listeners hear no more packets.
LEMMA AttemptsGrow ==
    ASSUME NEW S \in SUBSET Node, NEW T \in SUBSET S
    PROVE  Attempts(S) \in Nat /\ Attempts(T) \in Nat /\ Attempts(T) <= Attempts(S)
<1>1. IsFiniteSet(S)
  BY NodeFacts, FS_Subset
<1>2. \A v \in S : Audible[v] \in Nat
  <2> SUFFICES ASSUME NEW v \in S
               PROVE  Audible[v] \in Nat
    OBVIOUS
  <2>1. FloodingNeighbors(v) \subseteq Node
    BY DEF FloodingNeighbors, Neighbors
  <2>2. Cardinality(FloodingNeighbors(v)) \in Nat
    BY <2>1, NodeFacts, FS_Subset, FS_CardinalityType
  <2> QED
    BY <2>2 DEF Audible
<1>3. SumOver(Audible, T) \in Nat /\ SumOver(Audible, T) <= SumOver(Audible, S)
  BY <1>1, <1>2, SumOfNaturals
<1>4. S \in SUBSET S /\ T \in SUBSET Node
  OBVIOUS
<1>5. SumOver(Audible, S) \in Nat
  BY <1>1, <1>2, <1>4, SumOfNaturals
<1> QED
  BY <1>3, <1>4, <1>5, AttemptsIsSum

\* A slot reaches no more receivers than it has packets received, and these were sent into range.
LEMMA SlotPureStep ==
    ASSUME FloodInv, ReportInv, driver = "pure_flood", driver' = driver, SlotPure
    PROVE  ReportInv'
<1> DEFINE got == {v \in Node : state[v] = "Listen" /\ state'[v] = "Flood"}
           c == Cardinality(Reached)
           g == Cardinality(got)
<1>1. /\ pc = "slots" /\ round_num' = round_num
      /\ \E heard \in SUBSET InRange : Moved(heard)
  BY SlotMoves DEF FloodInv, SlotPure
<1>2. got \in SUBSET InRange /\ InRange \in SUBSET Node
  BY <1>1 DEF Moved, InRange
<1>3. Reached' \subseteq Reached \cup got /\ Reached \subseteq Node
  <2>1. Initiator' = Initiator
    BY <1>1 DEF Initiator
  <2>2. \A v \in Node : state[v] = "Listen" /\ state'[v] # "Listen" => state'[v] = "Flood"
    BY <1>1 DEF Moved
  <2> QED
    BY <2>1, <2>2 DEF Reached
<1>4. IsFiniteSet(Reached) /\ IsFiniteSet(got) /\ IsFiniteSet(Reached') /\ IsFiniteSet(Reached \cup got)
  BY <1>2, <1>3, NodeFacts, FS_Subset
<1> HIDE DEF got
<1>5. c \in Nat /\ g \in Nat /\ Cardinality(Reached') \in Nat /\ Cardinality(Reached') <= c + g
  <2>1. Cardinality(Reached') <= Cardinality(Reached \cup got) /\ Cardinality(Reached') \in Nat
    BY <1>3, <1>4, FS_Subset, FS_CardinalityType
  <2>2. c \in Nat /\ g \in Nat /\ Cardinality(Reached \cap got) \in Nat
    <3>1. IsFiniteSet(Reached \cap got)
      BY <1>4, FS_Subset
    <3> QED
      BY <1>4, <3>1, FS_CardinalityType
  <2>3. Cardinality(Reached \cup got) = c + g - Cardinality(Reached \cap got)
    BY <1>4, FS_Union
  <2> QED
    BY <2>1, <2>2, <2>3
<1>6. Attempts(InRange) \in Nat /\ Attempts(got) \in Nat /\ Attempts(got) <= Attempts(InRange)
  BY <1>2, AttemptsGrow
<1>7. PICK n \in g .. Attempts(got) : rx_success' = rx_success + n
  BY DEF SlotPure, CountReceptions, got
<1>8. rx_attempts' = rx_attempts + Attempts(InRange)
  BY DEF SlotPure, CountReceptions
<1>9. UNCHANGED <<floods_done, receivers_covered, receiver_opportunities>>
  BY DEF SlotPure, report
<1>10. /\ receivers_covered \in Nat /\ rx_attempts \in Nat /\ rx_success \in Nat
       /\ receiver_opportunities = (N - 1) * floods_done
       /\ receivers_covered + c <= rx_success /\ rx_success <= rx_attempts
  BY <1>1 DEF ReportInv, Running
<1> HIDE DEF c, g
<1>11. n \in Nat /\ g <= n /\ n <= Attempts(InRange)
  BY <1>5, <1>6, <1>7
<1>12. /\ rx_attempts' \in Nat /\ rx_success' \in Nat /\ rx_success' <= rx_attempts'
       /\ receivers_covered' + Cardinality(Reached') <= rx_success'
       /\ receivers_covered' <= rx_success'
  BY <1>5, <1>6, <1>7, <1>8, <1>9, <1>10, <1>11
<1> QED
  BY <1>9, <1>10, <1>12 DEF ReportInv

\* The nodes covered at the end of a flood are the participants but for the initiator.
LEMMA CoveredAreDone ==
    ASSUME FloodInv, pc = "process"
    PROVE  /\ Covered = Participants \ {Initiator} /\ Covered \cup {Initiator} = Participants
           /\ Covered \subseteq {v \in Node : state[v] = "Sleep"}
           /\ Covered \subseteq Reached /\ Reached \subseteq Node
<1>1. Initiator \in Node /\ Initiator \in Participants /\ Participants \subseteq Node
  BY InitiatorIsNode DEF FloodInv, LoopInv, Participants
<1>2. \A i \in Node : payload[i] = round_num <=> i \in Participants
  BY DEF FloodInv, PayloadInv, IdenticalPayload
<1>3. Covered = Participants \ {Initiator}
  BY <1>1, <1>2 DEF Covered
<1> QED
  BY <1>1, <1>3 DEF Participants, Reached

\* What is reported of a flood adds to what was reported before.
LEMMA CountStep ==
    ASSUME FloodInv, ReportInv, driver = "pure_flood", driver' = driver, Count
    PROVE  /\ ReportInv'
           /\ receiver_opportunities' = (N - 1) * floods_done'
           /\ receivers_covered' <= rx_success /\ rx_success <= rx_attempts
<1>1. pc = "process" /\ pc' \in {"prepare", "stopped"}
  BY DEF Count
<1>2. Covered \subseteq Reached /\ Reached \subseteq Node
  BY <1>1, CoveredAreDone
<1> DEFINE c == Cardinality(Covered)
           r == Cardinality(Reached)
<1>3. c \in Nat /\ r \in Nat /\ c <= r
  <2>1. IsFiniteSet(Reached)
    BY <1>2, NodeFacts, FS_Subset
  <2> QED
    BY <1>2, <2>1, FS_Subset, FS_CardinalityType
<1>4. /\ floods_done' = floods_done + 1 /\ receivers_covered' = receivers_covered + c
      /\ receiver_opportunities' = receiver_opportunities + N - 1
      /\ UNCHANGED receptions
  BY DEF Count
<1>5. floods_done \in Nat /\ N \in Nat /\ N >= 2
  BY NAssumption DEF FloodInv, DriverInv
<1>6. /\ receivers_covered \in Nat /\ rx_attempts \in Nat /\ rx_success \in Nat
      /\ receiver_opportunities = (N - 1) * floods_done
      /\ receivers_covered + r <= rx_success /\ rx_success <= rx_attempts
  BY <1>1 DEF ReportInv, Running
<1> HIDE DEF c, r
<1>7. receiver_opportunities' = (N - 1) * floods_done'
  <2>1. (N - 1) * (floods_done + 1) = (N - 1) * floods_done + (N - 1)
    BY <1>5
  <2>2. (N - 1) * floods_done \in Nat
    BY <1>5
  <2> QED
    BY <1>4, <1>5, <1>6, <2>1, <2>2
<1>8. receivers_covered' \in Nat /\ receivers_covered' <= rx_success
  BY <1>3, <1>4, <1>6
<1>9. rx_attempts' = rx_attempts /\ rx_success' = rx_success
  BY <1>4 DEF receptions
<1> QED
  BY <1>1, <1>6, <1>7, <1>8, <1>9 DEF ReportInv, Running

\* The report stays behind the receptions, and the receptions behind the attempts.
LEMMA ReportStep ==
    ASSUME FloodInv, ReportInv, [DriverNext]_all_vars
    PROVE  ReportInv'
<1>1. CASE UNCHANGED all_vars
  BY <1>1 DEF all_vars, vars, loop, radio, report, receptions, ReportInv, Running, Reached, Initiator
<1>2. CASE driver = "protocol" /\ driver' = driver /\ UNCHANGED <<report, receptions>>
  BY <1>2 DEF ReportInv, report, receptions
<1>3. CASE driver = "pure_flood" /\ driver' = driver /\ PureNext
  <2>0. LoopInv /\ RadioInv /\ ReportInv
    BY DEF FloodInv
  <2>1. CASE SlotPure
    BY <1>3, <2>1, SlotPureStep
  <2>2. CASE Count
    BY <1>3, <2>2, CountStep
  <2>3. CASE PreparePure \/ (OutOfSlots /\ UNCHANGED <<report, receptions>>)
    <3>1. pc' \in {"flood", "stopped"} /\ UNCHANGED <<report, receptions>>
      BY <2>3 DEF PreparePure, OutOfSlots
    <3> QED
      BY <1>3, <3>1 DEF ReportInv, Running, report, receptions
  <2>4. CASE StartFlood /\ UNCHANGED <<report, receptions>>
    <3>1. Reached' = {}
      BY <2>0, <2>4, StartMoves DEF Reached
    <3>2. Cardinality(Reached') = 0
      BY <3>1, FS_EmptySet
    <3>3. receivers_covered \in Nat /\ receivers_covered + 0 = receivers_covered
      BY DEF ReportInv
    <3> QED
      BY <1>3, <2>4, <3>2, <3>3 DEF ReportInv, report, receptions
  <2>5. CASE (Deliver \/ Stopped) /\ UNCHANGED <<report, receptions>>
    <3>1. UNCHANGED radio /\ Initiator' = Initiator /\ (Running' => Running)
      BY <2>0, <2>5, DeliverMoves DEF Stopped, vars, loop, Initiator, Running
    <3>2. Reached' = Reached
      BY <3>1 DEF Reached, radio
    <3> QED
      BY <1>3, <2>5, <3>1, <3>2 DEF ReportInv, report, receptions
  <2> QED
    BY <1>3, <2>1, <2>2, <2>3, <2>4, <2>5 DEF PureNext
<1>4. \/ UNCHANGED all_vars
      \/ driver = "protocol" /\ driver' = driver /\ UNCHANGED <<report, receptions>>
      \/ driver = "pure_flood" /\ driver' = driver /\ PureNext
  BY DEF DriverNext
<1> QED
  BY <1>1, <1>2, <1>3, <1>4

(***************************************************************************)
(* Coverage counts only nodes that received bytes originating in the flood *)
(* counted: they are connected to its initiator by nodes that were done,   *)
(* they are all that is connected when nothing was lost, and each of them  *)
(* stands for a packet received and for one of the opportunities.          *)
(***************************************************************************)
THEOREM CoverageTheorem == DriverSpec => CoverageIsOfThisFlood
<1>1. DriverInit => ReportInv
  BY NAssumption DEF DriverInit, Init, ReportInv, Running
<1>2. ReportInv /\ FloodInv /\ [DriverNext]_all_vars => ReportInv'
  BY ReportStep
<1>3. DriverSpec => []ReportInv
  BY <1>1, <1>2, Invariance, PTL DEF DriverSpec
<1>4. ASSUME FloodInv, ReportInv, [DriverNext]_all_vars
      PROVE  [Count =>
                /\ Covered \subseteq {v \in Node : state[v] = "Sleep"}
                /\ ConnectedAround(Covered \cup {Initiator}, Initiator)
                /\ round_num > LastLossyRound /\ RoundSlots = None =>
                     Covered = Component(Initiator) \ {Initiator}
                /\ receiver_opportunities' = (N - 1) * floods_done'
                /\ receivers_covered' <= rx_success /\ rx_success <= rx_attempts]_all_vars
  <2> SUFFICES ASSUME Count
               PROVE  /\ Covered \subseteq {v \in Node : state[v] = "Sleep"}
                      /\ ConnectedAround(Covered \cup {Initiator}, Initiator)
                      /\ round_num > LastLossyRound /\ RoundSlots = None =>
                           Covered = Component(Initiator) \ {Initiator}
                      /\ receiver_opportunities' = (N - 1) * floods_done'
                      /\ receivers_covered' <= rx_success /\ rx_success <= rx_attempts
    OBVIOUS
  <2>1. pc = "process" /\ floods_done' = floods_done + 1
    BY DEF Count
  <2>2. driver = "pure_flood" /\ driver' = driver
    <3>1. floods_done \in Nat /\ floods_done' # floods_done
      BY <1>4, <2>1 DEF FloodInv, DriverInv
    <3> QED
      BY <1>4, <3>1 DEF DriverNext, all_vars, report
  <2>3. /\ Covered = Participants \ {Initiator} /\ Covered \cup {Initiator} = Participants
        /\ Covered \subseteq {v \in Node : state[v] = "Sleep"}
    BY <1>4, <2>1, CoveredAreDone
  <2>4. ConnectedAround(Covered \cup {Initiator}, Initiator)
    BY <1>4, <2>1, <2>3, ParticipantsConnected
  <2>5. round_num > LastLossyRound /\ RoundSlots = None =>
           Covered = Component(Initiator) \ {Initiator}
    BY <1>4, <2>1, <2>3, LosslessServesAll
  <2>6. /\ receiver_opportunities' = (N - 1) * floods_done'
        /\ receivers_covered' <= rx_success /\ rx_success <= rx_attempts
    BY <1>4, <2>2, CountStep
  <2> QED
    BY <2>3, <2>4, <2>5, <2>6
<1> QED
  BY <1>3, <1>4, Invariance, PTL DEF DriverSpec, CoverageIsOfThisFlood
=============================================================================
