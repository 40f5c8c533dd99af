-------------------------- MODULE FiniteIntegerSets --------------------------
(***************************************************************************)
(* Facts about the maximum and the minimum of a finite set of integers,    *)
(* which the operators Max and Min of FiniteSetsExt choose.  The protocol  *)
(* modules use them for "the highest term with a quorum", "the first gap"  *)
(* and "the last participant that holds a term".  Then, facts about sums   *)
(* over finite sets, for the meters of the flood and the energy of a       *)
(* decision, the existence of recursive functions, what FlattenSeq and     *)
(* the turns of a round-robin are, and picking by rank, as the models of   *)
(* sorting do.                                                             *)
(***************************************************************************)
EXTENDS Integers, FiniteSetsExt, SequencesExt, FiniteSetTheorems, SequenceTheorems, TLAPS

\* The elements of S above x; a maximal x is one whose set is minimal for inclusion.
Above(S, x) == {y \in S : y > x}
\* The elements of S below x, the same for a minimal x.
Below(S, x) == {y \in S : y < x}

(***************************************************************************)
(* Max really is the greatest element: QuorumTerms, commit_up_to and the   *)
(* choice of the node that answers a NACK take the Max of such a set.      *)
(***************************************************************************)
LEMMA MaxOfFinite ==
    ASSUME NEW S \in SUBSET Int, IsFiniteSet(S), S # {}
    PROVE  /\ Max(S) \in S
           /\ \A y \in S : Max(S) >= y
<1> DEFINE T == {Above(S, x) : x \in S}
<1>1. T \subseteq FiniteSubsetsOf(S)
  <2>1. \A x \in S : Above(S, x) \in SUBSET S
    BY DEF Above
  <2>2. \A x \in S : IsFiniteSet(Above(S, x))
    BY <2>1, FS_Subset
  <2> QED
    BY <2>1, <2>2 DEF FiniteSubsetsOf
<1>2. T # {}
  OBVIOUS
<1>3. PICK U \in T : \A V \in T : ~ (<<V, U>> \in StrictSubsetOrdering(S))
  <2>1. IsWellFoundedOn(StrictSubsetOrdering(S), FiniteSubsetsOf(S))
    BY FS_StrictSubsetOrderingWellFounded
  <2> HIDE DEF T
  <2> QED
    BY <1>1, <1>2, <2>1, WFMin
<1>4. PICK x \in S : U = Above(S, x)
  OBVIOUS
<1>5. \A y \in S : x >= y
  <2> SUFFICES ASSUME NEW y \in S, y > x
               PROVE  FALSE
    OBVIOUS
  <2>1. Above(S, y) \in T
    OBVIOUS
  <2>2. Above(S, y) \subseteq Above(S, x) /\ Above(S, y) # Above(S, x)
    <3>1. ASSUME NEW z \in Above(S, y)
          PROVE  z \in Above(S, x)
      <4>1. z \in S /\ z > y
        BY DEF Above
      <4>2. x \in Int /\ y \in Int /\ z \in Int
        BY <4>1
      <4> QED
        BY <4>1, <4>2 DEF Above
    <3>2. y \in Above(S, x) /\ y \notin Above(S, y)
      BY DEF Above
    <3> QED
      BY <3>1, <3>2
  <2>3. Above(S, y) \in SUBSET S /\ Above(S, x) \in SUBSET S
    BY DEF Above
  <2>4. <<Above(S, y), Above(S, x)>> \in StrictSubsetOrdering(S)
    BY <2>2, <2>3 DEF StrictSubsetOrdering
  <2> QED
    BY <1>3, <1>4, <2>1, <2>4
<1> QED
  BY <1>5 DEF Max

\* Min really is the least element: detect_gap and progress_count take the Min of such a set.
LEMMA MinOfFinite ==
    ASSUME NEW S \in SUBSET Int, IsFiniteSet(S), S # {}
    PROVE  /\ Min(S) \in S
           /\ \A y \in S : Min(S) <= y
<1> DEFINE T == {Below(S, x) : x \in S}
<1>1. T \subseteq FiniteSubsetsOf(S)
  <2>1. \A x \in S : Below(S, x) \in SUBSET S
    BY DEF Below
  <2>2. \A x \in S : IsFiniteSet(Below(S, x))
    BY <2>1, FS_Subset
  <2> QED
    BY <2>1, <2>2 DEF FiniteSubsetsOf
<1>2. T # {}
  OBVIOUS
<1>3. PICK U \in T : \A V \in T : ~ (<<V, U>> \in StrictSubsetOrdering(S))
  <2>1. IsWellFoundedOn(StrictSubsetOrdering(S), FiniteSubsetsOf(S))
    BY FS_StrictSubsetOrderingWellFounded
  <2> HIDE DEF T
  <2> QED
    BY <1>1, <1>2, <2>1, WFMin
<1>4. PICK x \in S : U = Below(S, x)
  OBVIOUS
<1>5. \A y \in S : x <= y
  <2> SUFFICES ASSUME NEW y \in S, y < x
               PROVE  FALSE
    OBVIOUS
  <2>1. Below(S, y) \in T
    OBVIOUS
  <2>2. Below(S, y) \subseteq Below(S, x) /\ Below(S, y) # Below(S, x)
    <3>1. ASSUME NEW z \in Below(S, y)
          PROVE  z \in Below(S, x)
      <4>1. z \in S /\ z < y
        BY DEF Below
      <4>2. x \in Int /\ y \in Int /\ z \in Int
        BY <4>1
      <4> QED
        BY <4>1, <4>2 DEF Below
    <3>2. y \in Below(S, x) /\ y \notin Below(S, y)
      BY DEF Below
    <3> QED
      BY <3>1, <3>2
  <2>3. Below(S, y) \in SUBSET S /\ Below(S, x) \in SUBSET S
    BY DEF Below
  <2>4. <<Below(S, y), Below(S, x)>> \in StrictSubsetOrdering(S)
    BY <2>2, <2>3 DEF StrictSubsetOrdering
  <2> QED
    BY <1>3, <1>4, <2>1, <2>4
<1> QED
  BY <1>5 DEF Min

\* The lesser and the greater of two.
LEMMA MinMaxOfTwo ==
    ASSUME NEW x \in Int, NEW y \in Int
    PROVE  /\ Min({x, y}) = IF x <= y THEN x ELSE y
           /\ Max({x, y}) = IF x <= y THEN y ELSE x
<1>1. IsFiniteSet({x, y}) /\ {x, y} \in SUBSET Int /\ {x, y} # {}
  <2>1. {x, y} = {x} \cup {y} /\ IsFiniteSet({x})
    BY FS_Singleton
  <2>2. IsFiniteSet({x} \cup {y})
    BY <2>1, FS_AddElement
  <2> QED
    BY <2>1, <2>2
<1>2. Min({x, y}) \in {x, y} /\ \A z \in {x, y} : Min({x, y}) <= z
  BY <1>1, MinOfFinite
<1>3. Max({x, y}) \in {x, y} /\ \A z \in {x, y} : Max({x, y}) >= z
  BY <1>1, MaxOfFinite
<1> DEFINE lo == Min({x, y})
           hi == Max({x, y})
<1> HIDE DEF lo, hi
<1>4. (lo = x \/ lo = y) /\ lo <= x /\ lo <= y
  BY <1>2 DEF lo
<1>5. (hi = x \/ hi = y) /\ hi >= x /\ hi >= y
  BY <1>3 DEF hi
<1>6. lo = IF x <= y THEN x ELSE y
  BY <1>4
<1>7. hi = IF x <= y THEN y ELSE x
  BY <1>5
<1> QED
  BY <1>6, <1>7 DEF lo, hi

\* Induction on the numbers up to n, for a set instead of a predicate.
LEMMA UpToN ==
    ASSUME NEW n \in Nat, NEW S, 0 \in S, \A k \in 0 .. n-1 : k \in S => k + 1 \in S
    PROVE  0 .. n \subseteq S
<1> DEFINE Bad == {k \in 0 .. n : k \notin S}
<1> SUFFICES ASSUME Bad # {}
             PROVE  FALSE
  OBVIOUS
<1>1. Bad \in SUBSET Int
  OBVIOUS
<1>2. IsFiniteSet(Bad)
  <2>1. IsFiniteSet(0 .. n)
    BY FS_Interval
  <2> QED
    BY <2>1, FS_Subset
<1>3. PICK m \in Bad : \A y \in Bad : m <= y
  <2> HIDE DEF Bad
  <2> QED
    BY <1>1, <1>2, MinOfFinite
<1>4. m - 1 \in 0 .. n-1 /\ m - 1 \notin Bad
  BY <1>3
<1> QED
  BY <1>4

-----------------------------------------------------------------------------
(***************************************************************************)
(* Sums over finite sets, as MapThenSumSet of FiniteSetsExt computes them: *)
(* it takes the elements in the order CHOOSE gives, which must not matter. *)
(***************************************************************************)

\* The element the sum takes next.
Pick(s) == CHOOSE x \in s : TRUE

\* The equation of the sum; g holds the sums of f over the subsets of S.
IsSum(f, S, g) ==
    g = [s \in SUBSET S |-> IF s = {} THEN 0 ELSE f[Pick(s)] + g[s \ {Pick(s)}]]

\* The sum of f over S.
SumOver(f, S) == (CHOOSE g : IsSum(f, S, g))[S]

\* The sums over the subsets of a finite set exist.
LEMMA SumExists ==
    ASSUME NEW S, IsFiniteSet(S), NEW f
    PROVE  \E g : IsSum(f, S, g)
<1> DEFINE c == Cardinality(S)
           Small(n) == {s \in SUBSET S : Cardinality(s) <= n}
           Step(n, g) == g = [s \in Small(n) |-> IF s = {} THEN 0 ELSE f[Pick(s)] + g[s \ {Pick(s)}]]
           Good == {n \in 0 .. c : \E g : Step(n, g)}
<1>1. \A s \in SUBSET S : IsFiniteSet(s) /\ Cardinality(s) \in Nat /\ Cardinality(s) <= c
  BY FS_Subset, FS_CardinalityType
<1>2. ASSUME NEW s \in SUBSET S, s # {}
      PROVE  Pick(s) \in s /\ s \ {Pick(s)} \in SUBSET S
             /\ Cardinality(s \ {Pick(s)}) = Cardinality(s) - 1
  <2>1. Pick(s) \in s
    BY <1>2 DEF Pick
  <2>2. Cardinality(s \ {Pick(s)}) = Cardinality(s) - 1
    BY <1>1, <2>1, FS_RemoveElement
  <2> QED
    BY <2>1, <2>2
<1>3. c \in Nat
  BY FS_CardinalityType
<1>4. 0 \in Good
  <2> DEFINE g == [s \in Small(0) |-> 0]
  <2>1. \A s \in Small(0) : s = {}
    BY <1>1, FS_EmptySet
  <2>2. g = [s \in Small(0) |-> IF s = {} THEN 0 ELSE f[Pick(s)] + g[s \ {Pick(s)}]]
    <3> HIDE DEF Small
    <3> QED
      BY <2>1
  <2>3. Step(0, g)
    BY <2>2
  <2> HIDE DEF Step, g
  <2> QED
    BY <1>3, <2>3
<1>5. ASSUME NEW n \in 0 .. c-1, n \in Good
      PROVE  n + 1 \in Good
  <2>1. PICK g : Step(n, g)
    BY <1>5
  <2> DEFINE h == [s \in Small(n+1) |-> IF Cardinality(s) <= n THEN g[s]
                                        ELSE f[Pick(s)] + g[s \ {Pick(s)}]]
             k == [s \in Small(n+1) |-> IF s = {} THEN 0 ELSE f[Pick(s)] + h[s \ {Pick(s)}]]
  <2>2. \A s \in Small(n) : g[s] = IF s = {} THEN 0 ELSE f[Pick(s)] + g[s \ {Pick(s)}]
    BY <2>1
  <2>3. ASSUME NEW s \in Small(n+1)
        PROVE  h[s] = k[s]
    <3>1. s \in SUBSET S /\ Cardinality(s) <= n + 1 /\ Cardinality(s) \in Nat /\ n \in Nat
      BY <1>1, <1>3
    <3>2. CASE s = {}
      <4>1. Cardinality(s) = 0
        BY <3>2, FS_EmptySet
      <4>2. s \in Small(n) /\ Cardinality(s) <= n
        BY <3>1, <4>1
      <4>3. h[s] = g[s] /\ g[s] = 0 /\ k[s] = 0
        BY <2>2, <3>2, <4>2
      <4> QED
        BY <4>3
    <3>3. CASE s # {}
      <4>1. /\ s \ {Pick(s)} \in SUBSET S
            /\ Cardinality(s \ {Pick(s)}) = Cardinality(s) - 1
        BY <1>2, <3>1, <3>3
      <4>2. Cardinality(s \ {Pick(s)}) <= n
        BY <3>1, <4>1
      <4>3. Cardinality(s \ {Pick(s)}) <= n + 1
        BY <3>1, <4>1
      <4>4. h[s \ {Pick(s)}] = g[s \ {Pick(s)}]
        BY <4>1, <4>2, <4>3
      <4>5. k[s] = f[Pick(s)] + g[s \ {Pick(s)}]
        BY <3>3, <4>4
      <4>6. Cardinality(s) <= n => s \in Small(n)
        BY <3>1
      <4>7. h[s] = f[Pick(s)] + g[s \ {Pick(s)}]
        BY <2>2, <3>3, <4>6
      <4> QED
        BY <4>5, <4>7
    <3> QED
      BY <3>2, <3>3
  <2>4. h = [s \in Small(n+1) |-> h[s]] /\ k = [s \in Small(n+1) |-> k[s]]
    OBVIOUS
  <2>5. k = [s \in Small(n+1) |-> IF s = {} THEN 0 ELSE f[Pick(s)] + h[s \ {Pick(s)}]]
    OBVIOUS
  <2> HIDE DEF h, k, Small
  <2>6. h = k
    BY <2>3, <2>4
  <2>7. Step(n + 1, h)
    BY <2>5, <2>6
  <2> HIDE DEF Step
  <2> QED
    BY <1>3, <2>7
<1>6. c \in Good
  <2> HIDE DEF Good
  <2>1. 0 .. c \subseteq Good
    BY <1>3, <1>4, <1>5, UpToN
  <2> QED
    BY <1>3, <2>1
<1>7. PICK g : Step(c, g)
  BY <1>6
<1>8. Small(c) = SUBSET S
  BY <1>1
<1>9. IsSum(f, S, g)
  <2> HIDE DEF Small
  <2> QED
    BY <1>7, <1>8 DEF IsSum
<1> QED
  BY <1>9

\* What a property of finite sets needs to hold of all of them: it passes from s \ {x} to s.
LEMMA FiniteInduction ==
    ASSUME NEW S, IsFiniteSet(S), NEW Good,
           \A s \in SUBSET S : (\A x \in s : s \ {x} \in Good) => s \in Good
    PROVE  SUBSET S \subseteq Good
<1> DEFINE c == Cardinality(S)
           Nice == {n \in 0 .. c : \A s \in SUBSET S : Cardinality(s) <= n => s \in Good}
<1>1. \A s \in SUBSET S : IsFiniteSet(s) /\ Cardinality(s) \in Nat /\ Cardinality(s) <= c
  BY FS_Subset, FS_CardinalityType
<1>2. c \in Nat
  BY FS_CardinalityType
<1>3. 0 \in Nice
  <2>1. ASSUME NEW s \in SUBSET S, Cardinality(s) <= 0
        PROVE  s \in Good
    <3>1. s = {}
      BY <1>1, <2>1, FS_EmptySet
    <3> QED
      BY <3>1
  <2> QED
    BY <1>2, <2>1
<1>4. ASSUME NEW n \in 0 .. c-1, n \in Nice
      PROVE  n + 1 \in Nice
  <2>1. ASSUME NEW s \in SUBSET S, Cardinality(s) <= n + 1
        PROVE  s \in Good
    <3>1. ASSUME NEW x \in s
          PROVE  s \ {x} \in Good
      <4>1. Cardinality(s \ {x}) = Cardinality(s) - 1
        BY <1>1, FS_RemoveElement
      <4>2. Cardinality(s \ {x}) <= n
        BY <1>1, <2>1, <4>1
      <4> QED
        BY <1>4, <4>2
    <3> QED
      BY <3>1
  <2> QED
    BY <1>2, <2>1
<1>5. c \in Nice
  <2> HIDE DEF Nice
  <2>1. 0 .. c \subseteq Nice
    BY <1>2, <1>3, <1>4, UpToN
  <2> QED
    BY <1>2, <2>1
<1> QED
  BY <1>1, <1>5

\* Two sums agree on the sets they both are of, if what they add up does.
LEMMA SameSums ==
    ASSUME NEW S, NEW T \in SUBSET S, IsFiniteSet(T), NEW f, NEW e, NEW g, NEW h,
           IsSum(f, S, g), IsSum(e, T, h), \A x \in T : f[x] = e[x]
    PROVE  \A t \in SUBSET T : g[t] = h[t]
<1> DEFINE Good == {t \in SUBSET T : g[t] = h[t]}
<1>1. \A t \in SUBSET T : g[t] = IF t = {} THEN 0 ELSE f[Pick(t)] + g[t \ {Pick(t)}]
  BY DEF IsSum
<1>2. \A t \in SUBSET T : h[t] = IF t = {} THEN 0 ELSE e[Pick(t)] + h[t \ {Pick(t)}]
  BY DEF IsSum
<1>3. ASSUME NEW t \in SUBSET T, \A x \in t : t \ {x} \in Good
      PROVE  t \in Good
  <2>1. t # {} => Pick(t) \in t
    BY DEF Pick
  <2>2. t # {} => g[t \ {Pick(t)}] = h[t \ {Pick(t)}] /\ f[Pick(t)] = e[Pick(t)]
    BY <1>3, <2>1
  <2> QED
    BY <1>1, <1>2, <2>2
<1> HIDE DEF Good
<1>4. SUBSET T \subseteq Good
  BY <1>3, FiniteInduction
<1> QED
  BY <1>4 DEF Good

\* SumOver is such a sum, whatever array of sums it is read from.
LEMMA SumIsSum ==
    ASSUME NEW S, IsFiniteSet(S), NEW f, NEW g, IsSum(f, S, g)
    PROVE  \A T \in SUBSET S : SumOver(f, T) = g[T]
<1>1. ASSUME NEW T \in SUBSET S
      PROVE  SumOver(f, T) = g[T]
  <2>1. IsFiniteSet(T)
    BY FS_Subset
  <2> DEFINE h == CHOOSE k : IsSum(f, T, k)
  <2>2. IsSum(f, T, h)
    BY <2>1, SumExists
  <2>3. SumOver(f, T) = h[T]
    BY DEF SumOver
  <2> HIDE DEF h
  <2>4. g[T] = h[T]
    BY <2>1, <2>2, SameSums
  <2> QED
    BY <2>3, <2>4
<1> QED
  BY <1>1

\* The sum depends on the values that are added only.
LEMMA SumOfEquals ==
    ASSUME NEW S, IsFiniteSet(S), NEW f, NEW e, \A x \in S : f[x] = e[x]
    PROVE  SumOver(f, S) = SumOver(e, S)
<1>1. PICK g : IsSum(f, S, g)
  BY SumExists
<1>2. PICK h : IsSum(e, S, h)
  BY SumExists
<1>3. g[S] = h[S]
  <2>1. S \in SUBSET S
    OBVIOUS
  <2>2. \A t \in SUBSET S : g[t] = h[t]
    BY <1>1, <1>2, <2>1, SameSums
  <2> QED
    BY <2>1, <2>2
<1> QED
  BY <1>1, <1>2, <1>3, SumIsSum

\* The sums of integers are integers.
LEMMA SumsAreIntegers ==
    ASSUME NEW S, IsFiniteSet(S), NEW f, NEW g, IsSum(f, S, g), \A x \in S : f[x] \in Int
    PROVE  \A t \in SUBSET S : g[t] \in Int
<1> DEFINE Good == {t \in SUBSET S : g[t] \in Int}
<1>1. \A t \in SUBSET S : g[t] = IF t = {} THEN 0 ELSE f[Pick(t)] + g[t \ {Pick(t)}]
  BY DEF IsSum
<1>2. ASSUME NEW t \in SUBSET S, \A x \in t : t \ {x} \in Good
      PROVE  t \in Good
  <2>1. t # {} => Pick(t) \in t
    BY DEF Pick
  <2>2. CASE t = {}
    <3>1. g[t] = 0
      BY <1>1, <2>2
    <3> QED
      BY <3>1
  <2>3. CASE t # {}
    <3>1. g[t] = f[Pick(t)] + g[t \ {Pick(t)}]
      BY <1>1, <2>3
    <3>2. g[t \ {Pick(t)}] \in Int /\ f[Pick(t)] \in Int
      BY <1>2, <2>1, <2>3
    <3>3. g[t] \in Int
      BY <3>1, <3>2
    <3> QED
      BY <3>3
  <2> QED
    BY <2>2, <2>3
<1> HIDE DEF Good
<1>3. SUBSET S \subseteq Good
  BY <1>2, FiniteInduction
<1> QED
  BY <1>3 DEF Good

(***************************************************************************)
(* The order does not matter: the sum of integers is any one of them and   *)
(* the sum of the others.                                                  *)
(***************************************************************************)
LEMMA SumStep ==
    ASSUME NEW S, IsFiniteSet(S), NEW f, \A x \in S : f[x] \in Int
    PROVE  /\ SumOver(f, {}) = 0
           /\ SumOver(f, S) \in Int
           /\ \A x \in S : SumOver(f, S) = f[x] + SumOver(f, S \ {x})
<1>1. PICK g : IsSum(f, S, g)
  BY SumExists
<1>2. \A T \in SUBSET S : SumOver(f, T) = g[T]
  BY <1>1, SumIsSum
<1>3. \A t \in SUBSET S : g[t] = IF t = {} THEN 0 ELSE f[Pick(t)] + g[t \ {Pick(t)}]
  BY <1>1 DEF IsSum
<1>8. \A t \in SUBSET S : g[t] \in Int
  BY <1>1, SumsAreIntegers
<1> DEFINE Good == {t \in SUBSET S : g[t] \in Int /\ \A x \in t : g[t] = f[x] + g[t \ {x}]}
<1>4. ASSUME NEW t \in SUBSET S, \A x \in t : t \ {x} \in Good
      PROVE  t \in Good
  <2>1. CASE t = {}
    <3>1. \A x \in t : g[t] = f[x] + g[t \ {x}]
      BY <2>1
    <3> QED
      BY <1>8, <3>1
  <2>2. CASE t # {}
    <3> DEFINE p == Pick(t)
    <3>1. p \in t
      BY <2>2 DEF Pick
    <3>2. g[t] = f[p] + g[t \ {p}]
      BY <1>3, <2>2
    <3> HIDE DEF p
    <3>3. g[t \ {p}] \in Int /\ f[p] \in Int
      BY <1>4, <3>1
    <3>4. ASSUME NEW x \in t, x # p
          PROVE  g[t] = f[x] + g[t \ {x}]
      <4>1. x \in t \ {p} /\ p \in t \ {x} /\ (t \ {p}) \ {x} = (t \ {x}) \ {p}
        BY <3>1, <3>4
      <4>2. g[t \ {p}] = f[x] + g[(t \ {p}) \ {x}]
        BY <1>4, <3>1, <4>1
      <4>3. g[t \ {x}] = f[p] + g[(t \ {x}) \ {p}]
        BY <1>4, <3>4, <4>1
      <4> DEFINE r == g[(t \ {p}) \ {x}]
      <4>4. f[x] \in Int /\ g[t \ {x}] \in Int
        BY <1>4, <3>4
      <4>5. r \in Int
        <5>1. (t \ {p}) \ {x} \in SUBSET S
          OBVIOUS
        <5> QED
          BY <1>8, <5>1
      <4>6. g[t \ {p}] = f[x] + r /\ g[t \ {x}] = f[p] + r
        BY <4>1, <4>2, <4>3
      <4> HIDE DEF r
      <4>7. f[p] + (f[x] + r) = f[x] + (f[p] + r)
        BY <3>3, <4>4, <4>5
      <4> QED
        BY <3>2, <4>6, <4>7
    <3>5. \A x \in t : g[t] = f[x] + g[t \ {x}]
      BY <3>2, <3>4
    <3> QED
      BY <1>8, <3>5
  <2> QED
    BY <2>1, <2>2
<1>5. SUBSET S \subseteq Good
  <2> HIDE DEF Good
  <2> QED
    BY <1>4, FiniteInduction
<1>6. ASSUME NEW x \in S
      PROVE  g[S] = f[x] + g[S \ {x}]
  BY <1>5
<1>7. g[S] \in Int /\ g[{}] = 0
  BY <1>3, <1>5
<1> QED
  BY <1>2, <1>6, <1>7

(***************************************************************************)
(* Natural numbers add up to a natural number, which adding more of them   *)
(* does not make smaller.                                                  *)
(***************************************************************************)
LEMMA SumOfNaturals ==
    ASSUME NEW S, IsFiniteSet(S), NEW f, \A x \in S : f[x] \in Nat, NEW T \in SUBSET S
    PROVE  /\ SumOver(f, T) \in Nat
           /\ SumOver(f, T) <= SumOver(f, S)
<1> DEFINE Good == {s \in SUBSET S : /\ SumOver(f, s) \in Nat
                                     /\ \A t \in SUBSET s : SumOver(f, t) <= SumOver(f, s)}
<1>1. \A s \in SUBSET S : IsFiniteSet(s) /\ \A x \in s : f[x] \in Nat /\ f[x] \in Int
  BY FS_Subset
<1>2. ASSUME NEW s \in SUBSET S, \A x \in s : s \ {x} \in Good
      PROVE  s \in Good
  <2>1. /\ SumOver(f, {}) = 0
        /\ SumOver(f, s) \in Int
        /\ \A x \in s : SumOver(f, s) = f[x] + SumOver(f, s \ {x})
    BY <1>1, SumStep
  <2>2. \A x \in s : SumOver(f, s \ {x}) \in Nat /\ f[x] \in Nat
    BY <1>1, <1>2
  <2>3. SumOver(f, s) \in Nat
    <3>1. CASE s = {}
      BY <2>1, <3>1
    <3>2. CASE s # {}
      <4>1. PICK x \in s : TRUE
        BY <3>2
      <4> DEFINE a == f[x]
                 b == SumOver(f, s \ {x})
      <4>2. a \in Nat /\ b \in Nat /\ SumOver(f, s) = a + b
        BY <2>1, <2>2, <4>1
      <4> HIDE DEF a, b
      <4> QED
        BY <4>2
    <3> QED
      BY <3>1, <3>2
  <2>4. ASSUME NEW t \in SUBSET s
        PROVE  SumOver(f, t) <= SumOver(f, s)
    <3>1. CASE t = s
      BY <2>1, <3>1
    <3>2. CASE t # s
      <4>1. PICK x \in s : x \notin t
        BY <3>2
      <4>2. t \in SUBSET (s \ {x})
        BY <4>1
      <4>3. SumOver(f, t) <= SumOver(f, s \ {x})
        BY <1>2, <4>2
      <4>4. SumOver(f, t) \in Int
        <5>1. t \in SUBSET S
          OBVIOUS
        <5> QED
          BY <1>1, <5>1, SumStep
      <4> DEFINE a == f[x]
                 b == SumOver(f, s \ {x})
                 m == SumOver(f, t)
      <4>5. a \in Nat /\ b \in Nat /\ SumOver(f, s) = a + b /\ m <= b /\ m \in Int
        BY <2>1, <2>2, <4>1, <4>3, <4>4
      <4> HIDE DEF a, b, m
      <4>6. m <= SumOver(f, s)
        BY <4>5
      <4> QED
        BY <4>6 DEF m
    <3> QED
      BY <3>1, <3>2
  <2> QED
    BY <2>3, <2>4
<1>3. SUBSET S \subseteq Good
  <2> HIDE DEF Good
  <2> QED
    BY <1>2, FiniteInduction
<1> QED
  BY <1>3

\* What adds nothing to a sum of integers can be left out of it.
LEMMA SumOfPart ==
    ASSUME NEW S, IsFiniteSet(S), NEW f, \A x \in S : f[x] \in Int,
           NEW T \in SUBSET S, \A x \in S \ T : f[x] = 0
    PROVE  SumOver(f, S) = SumOver(f, T)
<1> DEFINE Good == {s \in SUBSET S : SumOver(f, s) = SumOver(f, s \cap T)}
<1>1. \A s \in SUBSET S : IsFiniteSet(s) /\ \A x \in s : f[x] \in Int
  BY FS_Subset
<1>2. ASSUME NEW s \in SUBSET S, \A x \in s : s \ {x} \in Good
      PROVE  s \in Good
  <2>1. CASE s \subseteq T
    <3>1. s \cap T = s
      BY <2>1
    <3> QED
      BY <3>1
  <2>2. CASE ~(s \subseteq T)
    <3>1. PICK x \in s : x \notin T
      BY <2>2
    <3>2. SumOver(f, s) = f[x] + SumOver(f, s \ {x})
      BY <1>1, SumStep
    <3>3. f[x] = 0 /\ SumOver(f, s \ {x}) = SumOver(f, (s \ {x}) \cap T)
      BY <1>2, <3>1
    <3>4. (s \ {x}) \cap T = s \cap T
      BY <3>1
    <3>5. SumOver(f, s \cap T) \in Int
      <4>1. s \cap T \in SUBSET S
        OBVIOUS
      <4> QED
        BY <1>1, <4>1, SumStep
    <3>6. SumOver(f, s) = 0 + SumOver(f, s \cap T)
      BY <3>2, <3>3, <3>4
    <3> QED
      BY <3>5, <3>6
  <2> QED
    BY <2>1, <2>2
<1>3. SUBSET S \subseteq Good
  <2> HIDE DEF Good
  <2> QED
    BY <1>2, FiniteInduction
<1>4. S \in Good /\ S \cap T = T
  BY <1>3
<1> QED
  BY <1>4

\* Two sums over the same set add up term by term.
LEMMA SumOfSums ==
    ASSUME NEW S, IsFiniteSet(S), NEW f, NEW g, NEW h,
           \A x \in S : f[x] \in Int /\ g[x] \in Int /\ h[x] = f[x] + g[x]
    PROVE  SumOver(h, S) = SumOver(f, S) + SumOver(g, S)
<1> DEFINE Good == {s \in SUBSET S : SumOver(h, s) = SumOver(f, s) + SumOver(g, s)}
<1>1. \A s \in SUBSET S : /\ IsFiniteSet(s)
                          /\ \A x \in s : f[x] \in Int /\ g[x] \in Int /\ h[x] \in Int
  BY FS_Subset
<1>2. ASSUME NEW s \in SUBSET S, \A x \in s : s \ {x} \in Good
      PROVE  s \in Good
  <2>1. CASE s = {}
    <3>1. SumOver(f, s) = 0 /\ SumOver(g, s) = 0 /\ SumOver(h, s) = 0
      BY <1>1, <2>1, SumStep
    <3> QED
      BY <3>1
  <2>2. CASE s # {}
    <3>1. PICK x \in s : TRUE
      BY <2>2
    <3> DEFINE r == s \ {x}
               a == SumOver(f, r)
               b == SumOver(g, r)
               c == SumOver(h, r)
    <3>2. SumOver(f, s) = f[x] + a
      BY <1>1, SumStep
    <3>3. SumOver(g, s) = g[x] + b
      BY <1>1, SumStep
    <3>4. SumOver(h, s) = h[x] + c
      BY <1>1, SumStep
    <3>5. a \in Int /\ b \in Int
      <4>1. r \in SUBSET S
        OBVIOUS
      <4> HIDE DEF r
      <4> QED
        BY <1>1, <4>1, SumStep
    <3>6. c = a + b
      BY <1>2
    <3>7. f[x] \in Int /\ g[x] \in Int /\ h[x] = f[x] + g[x]
      OBVIOUS
    <3> HIDE DEF a, b, c
    <3>8. SumOver(h, s) = SumOver(f, s) + SumOver(g, s)
      BY <3>2, <3>3, <3>4, <3>5, <3>6, <3>7
    <3> QED
      BY <3>8
  <2> QED
    BY <2>1, <2>2
<1>3. SUBSET S \subseteq Good
  <2> HIDE DEF Good
  <2> QED
    BY <1>2, FiniteInduction
<1> QED
  BY <1>3

\* A common factor can be taken out of a sum.
LEMMA SumScaled ==
    ASSUME NEW S, IsFiniteSet(S), NEW f, NEW h, NEW c \in Int,
           \A x \in S : f[x] \in Int /\ h[x] = c * f[x]
    PROVE  SumOver(h, S) = c * SumOver(f, S)
<1> DEFINE Good == {s \in SUBSET S : SumOver(h, s) = c * SumOver(f, s)}
<1>1. \A s \in SUBSET S : IsFiniteSet(s) /\ \A x \in s : f[x] \in Int /\ h[x] \in Int
  BY FS_Subset
<1>2. ASSUME NEW s \in SUBSET S, \A x \in s : s \ {x} \in Good
      PROVE  s \in Good
  <2>1. CASE s = {}
    <3>1. SumOver(f, s) = 0 /\ SumOver(h, s) = 0
      BY <1>1, <2>1, SumStep
    <3> QED
      BY <3>1
  <2>2. CASE s # {}
    <3>1. PICK x \in s : TRUE
      BY <2>2
    <3> DEFINE r == s \ {x}
               a == SumOver(f, r)
               b == SumOver(h, r)
               d == f[x]
    <3>2. SumOver(f, s) = d + a
      BY <1>1, SumStep
    <3>3. SumOver(h, s) = h[x] + b
      BY <1>1, SumStep
    <3>4. a \in Int
      <4>1. r \in SUBSET S
        OBVIOUS
      <4> HIDE DEF r
      <4> QED
        BY <1>1, <4>1, SumStep
    <3>5. b = c * a
      BY <1>2
    <3>6. d \in Int /\ h[x] = c * d
      OBVIOUS
    <3> HIDE DEF a, b, d
    <3>7. c * (d + a) = c * d + c * a
      BY <3>4, <3>6
    <3>8. SumOver(h, s) = c * SumOver(f, s)
      BY <3>2, <3>3, <3>5, <3>6, <3>7
    <3> QED
      BY <3>8
  <2> QED
    BY <2>1, <2>2
<1>3. SUBSET S \subseteq Good
  <2> HIDE DEF Good
  <2> QED
    BY <1>2, FiniteInduction
<1> QED
  BY <1>3

\* A sum is that over a part of the set and that over the rest.
LEMMA SumSplit ==
    ASSUME NEW S, IsFiniteSet(S), NEW f, \A x \in S : f[x] \in Int, NEW T \in SUBSET S
    PROVE  SumOver(f, S) = SumOver(f, T) + SumOver(f, S \ T)
<1> DEFINE g == [x \in S |-> IF x \in T THEN f[x] ELSE 0]
           h == [x \in S |-> IF x \in T THEN 0 ELSE f[x]]
<1>1. \A x \in S : /\ g[x] \in Int /\ h[x] \in Int /\ f[x] = g[x] + h[x]
                   /\ x \in T => g[x] = f[x] /\ h[x] = 0
                   /\ x \notin T => g[x] = 0 /\ h[x] = f[x]
  OBVIOUS
<1> HIDE DEF g, h
<1>2. IsFiniteSet(T) /\ IsFiniteSet(S \ T) /\ S \ T \in SUBSET S
  BY FS_Subset
<1>3. SumOver(f, S) = SumOver(g, S) + SumOver(h, S)
  BY <1>1, SumOfSums
<1>4. SumOver(g, S) = SumOver(g, T)
  BY <1>1, SumOfPart
<1>5. SumOver(h, S) = SumOver(h, S \ T)
  <2>1. \A x \in S \ (S \ T) : h[x] = 0
    BY <1>1
  <2> QED
    BY <1>1, <1>2, <2>1, SumOfPart
<1>6. SumOver(g, T) = SumOver(f, T)
  BY <1>1, <1>2, SumOfEquals
<1>7. SumOver(h, S \ T) = SumOver(f, S \ T)
  BY <1>1, <1>2, SumOfEquals
<1> QED
  BY <1>3, <1>4, <1>5, <1>6, <1>7

(***************************************************************************)
(* A double sum in the other order: what all the sets W[a] sum up to is    *)
(* each element as often as it is in one of them.                          *)
(***************************************************************************)
LEMMA SumsExchange ==
    ASSUME NEW A, IsFiniteSet(A), NEW S, IsFiniteSet(S), NEW W \in [A -> SUBSET S],
           NEW f, \A x \in S : f[x] \in Int,
           NEW e, \A a \in A : e[a] = SumOver(f, W[a]),
           NEW h, \A x \in S : h[x] = Cardinality({a \in A : x \in W[a]}) * f[x]
    PROVE  SumOver(e, A) = SumOver(h, S)
<1> DEFINE In(B, x) == {a \in B : x \in W[a]}
           H(B) == [x \in S |-> Cardinality(In(B, x)) * f[x]]
           Good == {B \in SUBSET A : SumOver(e, B) = SumOver(H(B), S)}
<1>1. \A B \in SUBSET A : IsFiniteSet(B)
  BY FS_Subset
<1>2. \A B \in SUBSET A, x \in S : IsFiniteSet(In(B, x)) /\ Cardinality(In(B, x)) \in Nat
  <2> SUFFICES ASSUME NEW B \in SUBSET A, NEW x \in S
               PROVE  IsFiniteSet(In(B, x)) /\ Cardinality(In(B, x)) \in Nat
    OBVIOUS
  <2>1. In(B, x) \in SUBSET A
    OBVIOUS
  <2> HIDE DEF In
  <2> QED
    BY <2>1, FS_Subset, FS_CardinalityType
<1>3. \A B \in SUBSET A, x \in S : H(B)[x] = Cardinality(In(B, x)) * f[x] /\ H(B)[x] \in Int
  <2> HIDE DEF In
  <2> QED
    BY <1>2
<1>4. \A a \in A : e[a] \in Int /\ W[a] \in SUBSET S
  <2> SUFFICES ASSUME NEW a \in A
               PROVE  e[a] \in Int /\ W[a] \in SUBSET S
    OBVIOUS
  <2>1. W[a] \in SUBSET S
    OBVIOUS
  <2>2. IsFiniteSet(W[a]) /\ \A x \in W[a] : f[x] \in Int
    BY <2>1, FS_Subset
  <2>3. SumOver(f, W[a]) \in Int
    BY <2>2, SumStep
  <2> QED
    BY <2>1, <2>3
<1>5. ASSUME NEW B \in SUBSET A, \A a \in B : B \ {a} \in Good
      PROVE  B \in Good
  <2>1. CASE B = {}
    <3>1. \A x \in S : In(B, x) = {}
      BY <2>1
    <3>2. \A x \in S : H(B)[x] = 0
      <4>1. Cardinality({}) = 0
        BY FS_EmptySet
      <4> HIDE DEF In, H
      <4>2. \A x \in S : H(B)[x] = 0 * f[x]
        BY <1>3, <3>1, <4>1
      <4> QED
        BY <4>2
    <3> HIDE DEF H
    <3>3. SumOver(H(B), S) = SumOver(H(B), {})
      BY <1>3, <3>2, SumOfPart
    <3>4. SumOver(H(B), {}) = 0
      BY <1>3, SumStep
    <3>5. SumOver(e, B) = 0
      <4>1. IsFiniteSet(B) /\ \A a \in B : e[a] \in Int
        BY <1>1, <1>4
      <4> QED
        BY <2>1, <4>1, SumStep
    <3> QED
      BY <3>3, <3>4, <3>5
  <2>2. CASE B # {}
    <3>1. PICK a \in B : TRUE
      BY <2>2
    <3> DEFINE C == B \ {a}
               g == [x \in S |-> IF x \in W[a] THEN f[x] ELSE 0]
    <3>2. \A x \in S : g[x] \in Int /\ (x \in W[a] => g[x] = f[x]) /\ (x \notin W[a] => g[x] = 0)
      OBVIOUS
    <3>3. C \in SUBSET A /\ a \in A
      OBVIOUS
    <3>4. \A x \in S : Cardinality(In(B, x)) = Cardinality(In(C, x)) + IF x \in W[a] THEN 1 ELSE 0
      <4> SUFFICES ASSUME NEW x \in S
                   PROVE  Cardinality(In(B, x)) =
                            Cardinality(In(C, x)) + IF x \in W[a] THEN 1 ELSE 0
        OBVIOUS
      <4>1. a \notin In(C, x)
        OBVIOUS
      <4>2. In(B, x) = IF x \in W[a] THEN In(C, x) \cup {a} ELSE In(C, x)
        OBVIOUS
      <4> HIDE DEF In, C
      <4>3. IsFiniteSet(In(C, x)) /\ Cardinality(In(C, x)) \in Nat
        BY <1>2, <3>3
      <4>4. Cardinality(In(C, x) \cup {a}) = Cardinality(In(C, x)) + 1
        BY <4>1, <4>3, FS_AddElement
      <4> QED
        BY <4>2, <4>3, <4>4
    <3> HIDE DEF g
    <3>5. \A x \in S : H(B)[x] = H(C)[x] + g[x]
      <4> SUFFICES ASSUME NEW x \in S
                   PROVE  H(B)[x] = H(C)[x] + g[x]
        OBVIOUS
      <4> HIDE DEF H, In, C
      <4> DEFINE m == Cardinality(In(C, x))
                 v == f[x]
      <4>1. m \in Nat /\ v \in Int
        BY <1>2, <3>3
      <4>2. H(C)[x] = m * v
        BY <1>3, <3>3
      <4>3. CASE x \in W[a]
        <5>1. H(B)[x] = (m + 1) * v /\ g[x] = v
          BY <1>3, <3>2, <3>3, <3>4, <4>3
        <5> HIDE DEF m, v
        <5>2. (m + 1) * v = m * v + v
          BY <4>1
        <5> QED
          BY <4>2, <5>1, <5>2
      <4>4. CASE x \notin W[a]
        <5>1. H(B)[x] = (m + 0) * v /\ g[x] = 0
          BY <1>3, <3>2, <3>3, <3>4, <4>4
        <5> HIDE DEF m, v
        <5>2. (m + 0) * v = m * v /\ m * v \in Int
          BY <4>1
        <5> QED
          BY <4>2, <5>1, <5>2
      <4> QED
        BY <4>3, <4>4
    <3>6. SumOver(H(B), S) = SumOver(H(C), S) + SumOver(g, S)
      <4> HIDE DEF H, In, C
      <4>1. \A x \in S : H(C)[x] \in Int
        BY <1>3, <3>3
      <4> QED
        BY <3>2, <3>5, <4>1, SumOfSums
    <3>7. SumOver(g, S) = e[a]
      <4>1. W[a] \in SUBSET S /\ IsFiniteSet(W[a])
        BY <1>4, FS_Subset
      <4>2. SumOver(g, S) = SumOver(g, W[a])
        BY <3>2, <4>1, SumOfPart
      <4>3. SumOver(g, W[a]) = SumOver(f, W[a])
        BY <3>2, <4>1, SumOfEquals
      <4> QED
        BY <4>2, <4>3
    <3>8. SumOver(e, B) = e[a] + SumOver(e, C)
      <4>1. IsFiniteSet(B) /\ \A b \in B : e[b] \in Int
        BY <1>1, <1>4
      <4> QED
        BY <4>1, SumStep
    <3>9. SumOver(e, C) = SumOver(H(C), S)
      BY <1>5
    <3>10. SumOver(e, C) \in Int /\ e[a] \in Int
      <4>1. IsFiniteSet(C) /\ \A b \in C : e[b] \in Int
        BY <1>1, <1>4, <3>3
      <4> HIDE DEF C
      <4> QED
        BY <1>4, <4>1, SumStep
    <3> HIDE DEF H, C
    <3> QED
      BY <3>6, <3>7, <3>8, <3>9, <3>10
  <2> QED
    BY <2>1, <2>2
<1>6. SUBSET A \subseteq Good
  <2> HIDE DEF Good
  <2> QED
    BY <1>1, <1>5, FiniteInduction
<1>7. SumOver(e, A) = SumOver(H(A), S)
  BY <1>6
<1>8. \A x \in S : H(A)[x] = h[x]
  OBVIOUS
<1> HIDE DEF H
<1>9. SumOver(H(A), S) = SumOver(h, S)
  BY <1>8, SumOfEquals
<1> QED
  BY <1>7, <1>9

-----------------------------------------------------------------------------
(***************************************************************************)
(* A recursive function on 0 .. n that goes from b by one step after the   *)
(* other exists: F[<<k, v>>] comes after v at k.                           *)
(***************************************************************************)
Follows(n, b, F, g) == g = [k \in 0 .. n |-> IF k = 0 THEN b ELSE F[<<k, g[k-1]>>]]

LEMMA RecursionExists ==
    ASSUME NEW n \in Nat, NEW A, NEW b \in A, NEW F \in [(1 .. n) \X A -> A]
    PROVE  \E g \in [0 .. n -> A] : Follows(n, b, F, g)
<1> DEFINE Good == {m \in 0 .. n : \E g \in [0 .. m -> A] : Follows(m, b, F, g)}
<1>1. 0 \in Good
  <2> DEFINE g == [k \in 0 .. 0 |-> b]
  <2>1. g \in [0 .. 0 -> A]
    OBVIOUS
  <2>2. g = [k \in 0 .. 0 |-> IF k = 0 THEN b ELSE F[<<k, g[k-1]>>]]
    OBVIOUS
  <2> HIDE DEF g
  <2> QED
    BY <2>1, <2>2 DEF Follows
<1>2. ASSUME NEW m \in 0 .. n-1, m \in Good
      PROVE  m + 1 \in Good
  <2>1. PICK g \in [0 .. m -> A] : Follows(m, b, F, g)
    BY <1>2
  <2>2. \A k \in 0 .. m : g[k] = IF k = 0 THEN b ELSE F[<<k, g[k-1]>>]
    BY <2>1 DEF Follows
  <2>3. m + 1 \in 1 .. n /\ m \in 0 .. m
    OBVIOUS
  <2>4. F[<<m+1, g[m]>>] \in A
    BY <2>3
  <2> DEFINE h == [k \in 0 .. m+1 |-> IF k = m+1 THEN F[<<m+1, g[m]>>] ELSE g[k]]
  <2>5. h \in [0 .. m+1 -> A]
    <3>1. \A k \in 0 .. m+1 : k # m+1 => k \in 0 .. m
      OBVIOUS
    <3> QED
      BY <2>4, <3>1
  <2>6. \A k \in 0 .. m+1 : h[k] = IF k = 0 THEN b ELSE F[<<k, h[k-1]>>]
    <3> SUFFICES ASSUME NEW k \in 0 .. m+1
                 PROVE  h[k] = IF k = 0 THEN b ELSE F[<<k, h[k-1]>>]
      OBVIOUS
    <3>1. CASE k = m+1
      <4>1. k # 0 /\ k - 1 = m /\ m \in 0 .. m+1 /\ m # m+1
        BY <3>1
      <4>2. h[k] = F[<<m+1, g[m]>>] /\ h[m] = g[m]
        BY <3>1, <4>1
      <4> QED
        BY <3>1, <4>1, <4>2
    <3>2. CASE k # m+1
      <4>1. k \in 0 .. m /\ (k # 0 => k-1 \in 0 .. m)
        BY <3>2
      <4>2. h[k] = g[k] /\ (k # 0 => h[k-1] = g[k-1])
        BY <3>2, <4>1
      <4> QED
        BY <2>2, <4>1, <4>2
    <3> QED
      BY <3>1, <3>2
  <2> HIDE DEF h
  <2>7. h = [k \in 0 .. m+1 |-> IF k = 0 THEN b ELSE F[<<k, h[k-1]>>]]
    BY <2>5, <2>6
  <2>8. Follows(m+1, b, F, h)
    BY <2>7 DEF Follows
  <2> QED
    BY <2>3, <2>5, <2>8
<1> HIDE DEF Good
<1>3. 0 .. n \subseteq Good
  BY <1>1, <1>2, UpToN
<1>4. n \in Good
  BY <1>3
<1> QED
  BY <1>4 DEF Good

(***************************************************************************)
(* Sequences one after the other: FlattenSeq ends a chain of sequences,    *)
(* each of them the one before it followed by the next part.               *)
(***************************************************************************)
LEMMA FlattenUnfolds ==
    ASSUME NEW P, NEW s \in Seq(Seq(P)), Len(s) > 0
    PROVE  \E w : /\ FlattenSeq(s) = w[Len(s)]
                  /\ \A i \in 1 .. Len(s) : w[i] = IF i = 1 THEN s[i] ELSE w[i-1] \o s[i]
<1> DEFINE n == Len(s)
           A == Seq(P)
           F == [x \in (1 .. n) \X A |-> x[2] \o s[x[1]]]
           Flat(g) == g = [i \in 1 .. n |-> IF i = 1 THEN s[i] ELSE g[i-1] \o s[i]]
           W == CHOOSE g : Flat(g)
<1>1. n \in Nat /\ n > 0 /\ DOMAIN s = 1 .. n /\ \A i \in 1 .. n : s[i] \in A
  BY LenProperties, ElementOfSeq
<1>2. FlattenSeq(s) = W[n]
  BY <1>1 DEF FlattenSeq
<1>3. F \in [(1 .. n) \X A -> A]
  BY <1>1, ConcatProperties
<1>4. <<>> \in A
  OBVIOUS
<1>5. PICK g \in [0 .. n -> A] : Follows(n, <<>>, F, g)
  <2> HIDE DEF F, n, A
  <2> QED
    BY <1>1, <1>3, <1>4, RecursionExists
<1> HIDE DEF n
<1>6. \E h : Flat(h)
  <2> DEFINE h == [i \in 1 .. n |-> g[i]]
  <2>1. \A i \in 1 .. n : h[i] = IF i = 1 THEN s[i] ELSE h[i-1] \o s[i]
    <3> SUFFICES ASSUME NEW i \in 1 .. n
                 PROVE  h[i] = IF i = 1 THEN s[i] ELSE h[i-1] \o s[i]
      OBVIOUS
    <3>1. i \in 0 .. n /\ i # 0 /\ i - 1 \in 0 .. n /\ 0 \in 0 .. n /\ (i # 1 => i - 1 \in 1 .. n)
      BY <1>1
    <3>2. g[0] = <<>> /\ g[i] = F[<<i, g[i-1]>>]
      <4> HIDE DEF F
      <4> QED
        BY <1>5, <3>1 DEF Follows
    <3>3. g[i-1] \in A
      BY <1>5, <3>1
    <3>4. g[i] = g[i-1] \o s[i]
      BY <3>2, <3>3
    <3>5. CASE i = 1
      <4>1. g[i-1] = <<>>
        BY <3>2, <3>5
      <4>2. <<>> \o s[i] = s[i]
        BY <1>1, ConcatEmptySeq
      <4> QED
        BY <3>4, <3>5, <4>1, <4>2
    <3>6. CASE i # 1
      BY <3>1, <3>4, <3>6
    <3> QED
      BY <3>5, <3>6
  <2>2. h = [i \in 1 .. n |-> IF i = 1 THEN s[i] ELSE h[i-1] \o s[i]]
    BY <2>1
  <2> HIDE DEF h
  <2> QED
    BY <2>2
<1>7. Flat(W)
  <2> HIDE DEF Flat
  <2> QED
    BY <1>6
<1> HIDE DEF W, F
<1>8. \A i \in 1 .. n : W[i] = IF i = 1 THEN s[i] ELSE W[i-1] \o s[i]
  BY <1>7
<1> QED
  BY <1>2, <1>8 DEF n

(***************************************************************************)
(* A recursive function on the subsets of a finite set, as the folds of    *)
(* the community modules define one, exists: r[s] is what is left of s,    *)
(* and F[<<s, v>>] what comes of s and the value v at r[s].                *)
(***************************************************************************)
UnfoldsBySubset(S, b, r, F, h) == h = [s \in SUBSET S |-> IF s = {} THEN b ELSE F[<<s, h[r[s]]>>]]

\* It does when r[s] is smaller than s.
LEMMA SubsetRecursionExists ==
    ASSUME NEW S, IsFiniteSet(S), NEW A, NEW b \in A,
           NEW r \in [SUBSET S -> SUBSET S], NEW F \in [(SUBSET S) \X A -> A],
           \A s \in SUBSET S : s # {} => Cardinality(r[s]) < Cardinality(s)
    PROVE  \E h \in [SUBSET S -> A] : UnfoldsBySubset(S, b, r, F, h)
<1> DEFINE n == Cardinality(S)
           H == [SUBSET S -> A]
           Turn(f) == [s \in SUBSET S |-> IF s = {} THEN b ELSE F[<<s, f[r[s]]>>]]
           G == [x \in (1 .. n + 1) \X H |-> Turn(x[2])]
           first == [s \in SUBSET S |-> b]
<1>1. n \in Nat /\ n + 1 \in Nat
  BY FS_CardinalityType
<1>2. \A s \in SUBSET S : Cardinality(s) \in Nat /\ Cardinality(s) <= n /\ IsFiniteSet(s)
  BY FS_Subset, FS_CardinalityType
<1>3. \A f \in H : Turn(f) \in H
  <2> SUFFICES ASSUME NEW f \in H, NEW s \in SUBSET S, s # {}
               PROVE  F[<<s, f[r[s]]>>] \in A
    OBVIOUS
  <2>1. r[s] \in SUBSET S
    OBVIOUS
  <2>2. f[r[s]] \in A
    BY <2>1
  <2> QED
    BY <2>2
<1>4. first \in H /\ G \in [(1 .. n + 1) \X H -> H]
  <2> HIDE DEF Turn, n
  <2>1. \A x \in (1 .. n + 1) \X H : Turn(x[2]) \in H
    BY <1>3
  <2> QED
    BY <2>1
<1>5. PICK g \in [0 .. n + 1 -> H] : Follows(n + 1, first, G, g)
  <2> HIDE DEF first, G, H, n
  <2> QED
    BY <1>1, <1>4, RecursionExists
<1>6. /\ g[0] = first
      /\ \A c \in 1 .. n + 1 : g[c] = Turn(g[c-1])
  <2> HIDE DEF Turn, first, n, H
  <2>1. 0 \in 0 .. n + 1 /\ \A c \in 1 .. n + 1 : c \in 0 .. n + 1 /\ c # 0 /\ c - 1 \in 0 .. n + 1
    BY <1>1
  <2>2. \A c \in 1 .. n + 1 : g[c-1] \in H
    BY <2>1
  <2>3. \A c \in 1 .. n + 1 : G[<<c, g[c-1]>>] = Turn(g[c-1])
    BY <2>2
  <2> HIDE DEF G
  <2>4. \A k \in 0 .. n + 1 : g[k] = IF k = 0 THEN first ELSE G[<<k, g[k-1]>>]
    BY <1>5 DEF Follows
  <2>5. g[0] = first
    BY <2>1, <2>4
  <2>6. ASSUME NEW c \in 1 .. n + 1
        PROVE  g[c] = Turn(g[c-1])
    <3>1. c \in 0 .. n + 1 /\ c # 0
      BY <2>1
    <3>2. g[c] = G[<<c, g[c-1]>>]
      BY <2>4, <3>1
    <3> QED
      BY <2>3, <3>2
  <2> QED
    BY <2>5, <2>6
<1> DEFINE Good == {c \in 0 .. n : \A s \in SUBSET S : Cardinality(s) <= c => g[c][s] = g[c+1][s]}
<1>7. 0 \in Good
  <2> SUFFICES ASSUME NEW s \in SUBSET S, Cardinality(s) <= 0
               PROVE  g[0][s] = g[1][s]
    BY <1>1
  <2>1. s = {}
    BY <1>2, FS_EmptySet
  <2>2. g[0][s] = b
    BY <1>6
  <2>3. g[1] = Turn(g[0])
    <3> HIDE DEF Turn, n
    <3>1. 1 \in 1 .. n + 1 /\ 1 - 1 = 0
      BY <1>1
    <3>2. g[1] = Turn(g[1-1])
      BY <1>6, <3>1
    <3> QED
      BY <3>1, <3>2
  <2>4. g[1][s] = b
    BY <2>1, <2>3
  <2> QED
    BY <2>2, <2>4
<1>8. ASSUME NEW c \in 0 .. n - 1, c \in Good
      PROVE  c + 1 \in Good
  <2> SUFFICES ASSUME NEW s \in SUBSET S, Cardinality(s) <= c + 1
               PROVE  g[c+1][s] = g[c+2][s]
    BY <1>1
  <2>1. /\ c + 1 \in 1 .. n + 1 /\ c + 2 \in 1 .. n + 1
        /\ (c + 1) - 1 = c /\ (c + 2) - 1 = c + 1
    BY <1>1
  <2>2. g[c+1] = Turn(g[c]) /\ g[c+2] = Turn(g[c+1])
    <3> HIDE DEF Turn, n
    <3>1. g[c+1] = Turn(g[(c+1)-1]) /\ g[c+2] = Turn(g[(c+2)-1])
      BY <1>6, <2>1
    <3> QED
      BY <2>1, <3>1
  <2>3. CASE s = {}
    BY <2>2, <2>3
  <2>4. CASE s # {}
    <3>1. r[s] \in SUBSET S /\ Cardinality(r[s]) < Cardinality(s)
      BY <2>4
    <3>2. Cardinality(r[s]) <= c
      BY <1>1, <1>2, <3>1
    <3>3. g[c][r[s]] = g[c+1][r[s]]
      BY <1>8, <3>1, <3>2
    <3>4. g[c+1][s] = F[<<s, g[c][r[s]]>>] /\ g[c+2][s] = F[<<s, g[c+1][r[s]]>>]
      BY <2>2, <2>4
    <3> QED
      BY <3>3, <3>4
  <2> QED
    BY <2>3, <2>4
<1>9. n \in Good
  <2> HIDE DEF Good, n
  <2>1. 0 .. n \subseteq Good
    BY <1>1, <1>7, <1>8, UpToN
  <2> QED
    BY <1>1, <2>1
<1>10. g[n] = Turn(g[n])
  <2>1. g[n+1] = Turn(g[n])
    <3> HIDE DEF Turn, n
    <3>1. n + 1 \in 1 .. n + 1 /\ (n + 1) - 1 = n
      BY <1>1
    <3>2. g[n+1] = Turn(g[(n+1)-1])
      BY <1>6, <3>1
    <3> QED
      BY <3>1, <3>2
  <2>2. \A s \in SUBSET S : g[n][s] = g[n+1][s]
    BY <1>2, <1>9
  <2>3. g[n] \in H /\ g[n+1] \in H
    <3>1. n \in 0 .. n + 1 /\ n + 1 \in 0 .. n + 1
      BY <1>1
    <3> HIDE DEF n, H
    <3> QED
      BY <3>1
  <2>4. g[n] = g[n+1]
    <3>1. \A x, y \in H : (\A s \in SUBSET S : x[s] = y[s]) => x = y
      OBVIOUS
    <3> HIDE DEF n, H
    <3> QED
      BY <2>2, <2>3, <3>1
  <2> QED
    BY <2>1, <2>4
<1>11. UnfoldsBySubset(S, b, r, F, g[n])
  <2> HIDE DEF n
  <2> QED
    BY <1>10 DEF UnfoldsBySubset
<1>12. g[n] \in H
  <2> HIDE DEF n, H
  <2>1. n \in 0 .. n + 1
    BY <1>1
  <2> QED
    BY <2>1
<1> HIDE DEF n
<1> QED
  BY <1>11, <1>12

(***************************************************************************)
(* Taking turns: the initiator of a round is the round modulo the number   *)
(* of nodes.                                                               *)
(***************************************************************************)

\* Every number of rounds is some full cycles of n and a turn.
LEMMA CyclesAndTurns ==
    ASSUME NEW n \in Nat, n > 0, NEW r \in Nat
    PROVE  \E q \in Nat : r - q * n \in 0 .. n - 1
<1> DEFINE Q == {q \in 0 .. r : q * n <= r}
<1>1. n \in Nat /\ n >= 1
  OBVIOUS
<1>2. Q \in SUBSET Int /\ 0 \in Q
  BY <1>1
<1>3. IsFiniteSet(Q)
  <2>1. IsFiniteSet(0 .. r)
    BY FS_Interval
  <2> QED
    BY <2>1, FS_Subset
<1>4. PICK q \in Q : \A y \in Q : q >= y
  <2> HIDE DEF Q
  <2> QED
    BY <1>2, <1>3, MaxOfFinite
<1>5. q \in Nat /\ q * n <= r /\ q * n \in Int
  BY <1>1
<1>6. ~((q + 1) * n <= r)
  <2> SUFFICES ASSUME (q + 1) * n <= r PROVE FALSE
    OBVIOUS
  <2>1. q + 1 <= (q + 1) * n
    BY <1>1, <1>5
  <2>2. q + 1 \in Q
    BY <1>1, <1>5, <2>1
  <2> QED
    BY <1>4, <1>5, <2>2
<1>7. (q + 1) * n = q * n + n
  BY <1>1, <1>5
<1>8. r - q * n \in 0 .. n - 1
  BY <1>1, <1>5, <1>6, <1>7
<1> QED
  BY <1>5, <1>8

\* A turn comes back after n rounds.
LEMMA TurnsReturn ==
    ASSUME NEW n \in Nat, n > 0, NEW r \in Nat
    PROVE  (r + n) % n = r % n
<1>1. n \in Nat /\ n >= 1
  OBVIOUS
<1>2. PICK q \in Nat : r - q * n \in 0 .. n - 1
  BY CyclesAndTurns
<1> DEFINE m == r - q * n
<1>3. /\ m \in 0 .. n - 1 /\ r = q * n + m
      /\ r + n = (q + 1) * n + m /\ q + 1 \in Nat
  BY <1>1, <1>2
<1> HIDE DEF m
<1>4. \A t \in Nat, p \in Nat : t = p * n + m => t % n = m
  BY <1>1, <1>3
<1> QED
  BY <1>1, <1>3, <1>4

\* The least of a number per member of S, such as progress_count, is one of these numbers.
LEMMA LeastOver ==
    ASSUME NEW S, IsFiniteSet(S), S # {}, NEW f \in [S -> Int]
    PROVE  /\ Min({f[i] : i \in S}) \in {f[i] : i \in S}
           /\ \A i \in S : Min({f[j] : j \in S}) <= f[i]
<1> DEFINE L == {f[i] : i \in S}
<1>1. f \in Surjection(S, L)
  BY DEF Surjection
<1>2. L # {} /\ L \in SUBSET Int
  OBVIOUS
<1>3. \A i \in S : f[i] \in L
  OBVIOUS
<1> HIDE DEF L
<1>4. IsFiniteSet(L)
  BY <1>1, FS_Surjection
<1>5. Min(L) \in L /\ \A y \in L : Min(L) <= y
  BY <1>2, <1>4, MinOfFinite
<1> QED
  BY <1>3, <1>5 DEF L

-----------------------------------------------------------------------------
(***************************************************************************)
(* Picking by rank: the n-th member of a finite set in an order is the one *)
(* with n - 1 members before it.  R has the pairs of a member and a later. *)
(***************************************************************************)
Earlier(S, R, i) == {j \in S : <<j, i>> \in R}
Rank(S, R, i) == Cardinality(Earlier(S, R, i))
StrictlyOrders(R, S) ==
    /\ \A i \in S : <<i, i>> \notin R
    /\ \A i, j, k \in S : <<i, j>> \in R /\ <<j, k>> \in R => <<i, k>> \in R
    /\ \A i, j \in S : i # j => <<i, j>> \in R \/ <<j, i>> \in R

\* Ranks are numbers below the size of the set, and later members have greater ones.
LEMMA RanksGrow ==
    ASSUME NEW S, IsFiniteSet(S), NEW R, StrictlyOrders(R, S)
    PROVE  /\ \A i \in S : Rank(S, R, i) \in 0 .. Cardinality(S) - 1
           /\ \A i, j \in S : <<i, j>> \in R => Rank(S, R, i) < Rank(S, R, j)
<1>1. \A i \in S : /\ IsFiniteSet(Earlier(S, R, i)) /\ Rank(S, R, i) \in Nat
                   /\ Earlier(S, R, i) \in SUBSET S
  <2>1. \A i \in S : Earlier(S, R, i) \in SUBSET S
    BY DEF Earlier
  <2> QED
    BY <2>1, FS_Subset, FS_CardinalityType DEF Rank
<1>2. \A i \in S : Rank(S, R, i) \in 0 .. Cardinality(S) - 1
  <2> SUFFICES ASSUME NEW i \in S PROVE Rank(S, R, i) \in 0 .. Cardinality(S) - 1
    OBVIOUS
  <2>1. Earlier(S, R, i) # S
    BY DEF Earlier, StrictlyOrders
  <2>2. Rank(S, R, i) <= Cardinality(S) /\ Rank(S, R, i) # Cardinality(S)
    BY <1>1, <2>1, FS_Subset DEF Rank
  <2>3. Cardinality(S) \in Nat
    BY FS_CardinalityType
  <2> QED
    BY <1>1, <2>2, <2>3
<1>3. ASSUME NEW i \in S, NEW j \in S, <<i, j>> \in R
      PROVE  Rank(S, R, i) < Rank(S, R, j)
  <2>1. Earlier(S, R, i) \in SUBSET Earlier(S, R, j)
    BY <1>3 DEF Earlier, StrictlyOrders
  <2>2. i \in Earlier(S, R, j) /\ i \notin Earlier(S, R, i)
    BY <1>3 DEF Earlier, StrictlyOrders
  <2>3. IsFiniteSet(Earlier(S, R, j)) /\ Earlier(S, R, i) # Earlier(S, R, j)
    BY <1>1, <2>2
  <2>4. Rank(S, R, i) <= Rank(S, R, j) /\ Rank(S, R, i) # Rank(S, R, j)
    BY <2>1, <2>3, FS_Subset DEF Rank
  <2> QED
    BY <1>1, <2>4
<1> QED
  BY <1>2, <1>3

\* Each rank below the size of the set is that of one member.
LEMMA RanksReachAll ==
    ASSUME NEW S, IsFiniteSet(S), NEW R, StrictlyOrders(R, S)
    PROVE  /\ \A i, j \in S : Rank(S, R, i) = Rank(S, R, j) => i = j
           /\ \A n \in 1 .. Cardinality(S) : \E i \in S : Rank(S, R, i) = n - 1
<1> DEFINE c == Cardinality(S)
           f == [i \in S |-> Rank(S, R, i) + 1]
<1>1. c \in Nat
  BY FS_CardinalityType
<1>2. \A i \in S : Rank(S, R, i) \in 0 .. c - 1
  BY RanksGrow
<1>3. \A i, j \in S : Rank(S, R, i) = Rank(S, R, j) => i = j
  <2> SUFFICES ASSUME NEW i \in S, NEW j \in S, i # j
               PROVE  Rank(S, R, i) # Rank(S, R, j)
    OBVIOUS
  <2>1. <<i, j>> \in R \/ <<j, i>> \in R
    BY DEF StrictlyOrders
  <2>2. Rank(S, R, i) < Rank(S, R, j) \/ Rank(S, R, j) < Rank(S, R, i)
    BY <2>1, RanksGrow
  <2> QED
    BY <1>1, <1>2, <2>2
<1>4. f \in Injection(S, 1 .. c)
  <2>1. f \in [S -> 1 .. c]
    BY <1>1, <1>2
  <2>2. \A i, j \in S : f[i] = f[j] => i = j
    <3> SUFFICES ASSUME NEW i \in S, NEW j \in S, f[i] = f[j]
                 PROVE  i = j
      OBVIOUS
    <3>1. Rank(S, R, i) + 1 = Rank(S, R, j) + 1
      OBVIOUS
    <3>2. Rank(S, R, i) = Rank(S, R, j)
      BY <1>1, <1>2, <3>1
    <3> QED
      BY <1>3, <3>2
  <2> HIDE DEF f
  <2> QED
    BY <2>1, <2>2 DEF Injection, IsInjective
<1>5. IsFiniteSet(1 .. c) /\ Cardinality(1 .. c) = c
  <2>1. Cardinality(1 .. c) = IF 1 > c THEN 0 ELSE c - 1 + 1
    BY <1>1, FS_Interval
  <2> QED
    BY <1>1, <2>1, FS_Interval
<1>6. f \in Surjection(S, 1 .. c)
  <2> HIDE DEF f, c
  <2> QED
    BY <1>4, <1>5, FS_Injection DEF c
<1>7. ASSUME NEW n \in 1 .. c
      PROVE  \E i \in S : Rank(S, R, i) = n - 1
  <2>1. PICK i \in S : f[i] = n
    <3> HIDE DEF f
    <3> QED
      BY <1>6 DEF Surjection
  <2>2. Rank(S, R, i) + 1 = n
    BY <2>1
  <2>3. Rank(S, R, i) = n - 1
    BY <1>1, <1>2, <2>2
  <2> QED
    BY <2>3
<1> QED
  BY <1>3, <1>7

(***************************************************************************)
(* The elements of an array at a set of positions, in the order of these,  *)
(* are the same for two arrays with a mapping that keeps the order.        *)
(***************************************************************************)
InOrder(X, at) ==
    [n \in 1 .. Cardinality(at) |->
       X[CHOOSE i \in at : Cardinality({j \in at : j < i}) = n - 1]]
LessOn(S) == {p \in S \X S : p[1] < p[2]}

\* Of numbers, the rank is how many are less.
LEMMA LessOrders ==
    ASSUME NEW S \in SUBSET Int
    PROVE  /\ StrictlyOrders(LessOn(S), S)
           /\ \A i \in S : Rank(S, LessOn(S), i) = Cardinality({j \in S : j < i})
           /\ \A i, j \in S : <<i, j>> \in LessOn(S) <=> i < j
<1>1. \A i, j \in S : <<i, j>> \in LessOn(S) <=> i < j
  BY DEF LessOn
<1>2. StrictlyOrders(LessOn(S), S)
  <2>1. \A i \in S : ~(i < i)
    OBVIOUS
  <2>2. \A i, j, k \in S : i < j /\ j < k => i < k
    OBVIOUS
  <2>3. \A i, j \in S : i # j => i < j \/ j < i
    OBVIOUS
  <2> QED
    BY <1>1, <2>1, <2>2, <2>3 DEF StrictlyOrders
<1>3. ASSUME NEW i \in S
      PROVE  Rank(S, LessOn(S), i) = Cardinality({j \in S : j < i})
  <2>1. Earlier(S, LessOn(S), i) = {j \in S : j < i}
    BY <1>1 DEF Earlier
  <2> QED
    BY <2>1 DEF Rank
<1> QED
  BY <1>1, <1>2, <1>3

\* What is moved in order, with its values, is picked in the same order.
LEMMA SameInOrder ==
    ASSUME NEW S \in SUBSET Int, IsFiniteSet(S), NEW T \in SUBSET Int, IsFiniteSet(T),
           NEW g \in [S -> T], \A i, j \in S : i < j => g[i] < g[j],
           \A p \in T : \E i \in S : g[i] = p,
           NEW X, NEW Y, \A i \in S : Y[g[i]] = X[i]
    PROVE  InOrder(X, S) = InOrder(Y, T)
<1> DEFINE Left(i) == {j \in S : j < i}
           Right(p) == {q \in T : q < p}
<1>1. \A i, j \in S : /\ i < j <=> g[i] < g[j]
                      /\ g[i] = g[j] => i = j
  <2> SUFFICES ASSUME NEW i \in S, NEW j \in S
               PROVE  (i < j <=> g[i] < g[j]) /\ (g[i] = g[j] => i = j)
    OBVIOUS
  <2>1. i \in Int /\ j \in Int /\ g[i] \in Int /\ g[j] \in Int
    OBVIOUS
  <2>2. (i < j => g[i] < g[j]) /\ (j < i => g[j] < g[i])
    OBVIOUS
  <2> QED
    BY <2>1, <2>2
<1>2. Cardinality(T) = Cardinality(S)
  <2>1. g \in Bijection(S, T)
    BY <1>1 DEF Bijection, Injection, IsInjective, Surjection
  <2> QED
    BY <2>1, FS_Bijection DEF ExistsBijection
<1>3. ASSUME NEW i \in S
      PROVE  Cardinality(Right(g[i])) = Cardinality(Left(i))
  <2> DEFINE h == [j \in Left(i) |-> g[j]]
  <2>1. h \in [Left(i) -> Right(g[i])]
    BY <1>1
  <2>2. \A j, k \in Left(i) : h[j] = h[k] => j = k
    BY <1>1
  <2>3. \A q \in Right(g[i]) : \E j \in Left(i) : h[j] = q
    <3> SUFFICES ASSUME NEW q \in Right(g[i])
                 PROVE  \E j \in Left(i) : h[j] = q
      OBVIOUS
    <3>1. PICK j \in S : g[j] = q
      OBVIOUS
    <3>2. j \in Left(i)
      BY <1>1, <3>1
    <3> QED
      BY <3>1, <3>2
  <2>4. IsFiniteSet(Left(i))
    BY FS_Subset
  <2> HIDE DEF h, Left, Right
  <2>5. h \in Bijection(Left(i), Right(g[i]))
    BY <2>1, <2>2, <2>3 DEF Bijection, Injection, IsInjective, Surjection
  <2> QED
    BY <2>4, <2>5, FS_Bijection DEF ExistsBijection
<1>4. \A p \in T, q \in T : Cardinality(Right(p)) = Cardinality(Right(q)) => p = q
  <2>1. \A p \in T : Rank(T, LessOn(T), p) = Cardinality(Right(p))
    BY LessOrders
  <2>2. StrictlyOrders(LessOn(T), T)
    BY LessOrders
  <2> HIDE DEF Right
  <2> QED
    BY <2>1, <2>2, RanksReachAll
<1>5. \A n \in 1 .. Cardinality(S) : \E i \in S : Cardinality(Left(i)) = n - 1
  <2>1. \A i \in S : Rank(S, LessOn(S), i) = Cardinality(Left(i))
    BY LessOrders
  <2>2. StrictlyOrders(LessOn(S), S)
    BY LessOrders
  <2>3. \A n \in 1 .. Cardinality(S) : \E i \in S : Rank(S, LessOn(S), i) = n - 1
    BY <2>2, RanksReachAll
  <2> HIDE DEF Left
  <2> QED
    BY <2>1, <2>3
<1>6. ASSUME NEW n \in 1 .. Cardinality(S)
      PROVE  X[CHOOSE i \in S : Cardinality(Left(i)) = n - 1] =
             Y[CHOOSE p \in T : Cardinality(Right(p)) = n - 1]
  <2> DEFINE x == CHOOSE i \in S : Cardinality(Left(i)) = n - 1
             y == CHOOSE p \in T : Cardinality(Right(p)) = n - 1
  <2> HIDE DEF Left, Right
  <2>1. x \in S /\ Cardinality(Left(x)) = n - 1
    BY <1>5
  <2> HIDE DEF x
  <2>2. g[x] \in T /\ Cardinality(Right(g[x])) = n - 1
    BY <1>3, <2>1
  <2>3. y \in T /\ Cardinality(Right(y)) = n - 1
    BY <2>2
  <2> HIDE DEF y
  <2>4. y = g[x]
    BY <1>4, <2>2, <2>3
  <2>5. Y[y] = X[x]
    BY <2>1, <2>4
  <2> QED
    BY <2>5 DEF x, y
<1>7. InOrder(X, S) = [n \in 1 .. Cardinality(S) |->
                         X[CHOOSE i \in S : Cardinality(Left(i)) = n - 1]]
  BY DEF InOrder
<1>8. InOrder(Y, T) = [n \in 1 .. Cardinality(S) |->
                         Y[CHOOSE p \in T : Cardinality(Right(p)) = n - 1]]
  BY <1>2 DEF InOrder
<1> HIDE DEF Left, Right
<1> QED
  BY <1>6, <1>7, <1>8

=============================================================================
