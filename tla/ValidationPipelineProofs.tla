---------------------- MODULE ValidationPipelineProofs ----------------------
(***************************************************************************)
(* Theorems about ValidationPipeline for every list of arms and seeds,     *)
(* every simulator that leaves whole runs behind, every other data file    *)
(* and every bound.  The first part is about the arithmetic: the three     *)
(* ways to compute the energy of a decision agree, and the energies add    *)
(* up.  The second is about the files: what stands in runs.csv whatever is *)
(* killed and resumed, and what a report is about.  The third is about the *)
(* patch specification: what it does to the manuscript is what it says.    *)
(***************************************************************************)
EXTENDS ValidationPipeline, FiniteIntegerSets, SequenceTheorems

-----------------------------------------------------------------------------
(***************************************************************************)
(* The energy of a decision.  Position k of the series is slot k - 1.      *)
(***************************************************************************)
Sane(run) == Sound(run) /\ RowPerSlot(run)

\* The shares of the slots, and the positions of the window of proposal p, as
\* far as the series goes.
Shares(run) == [k \in DOMAIN run.series |-> Share(run, run.series[k])]
Upto(run, p) ==
    IF run.proposals[p].end <= Len(run.series) THEN run.proposals[p].end ELSE Len(run.series)
Positions(run, p) == run.proposals[p].start + 1 .. Upto(run, p)

\* How many windows position k is in.
AliveAt(run, k) == Concurrency(run, k - 1)

\* The shape of a run.
LEMMA RunFacts ==
    ASSUME NEW run, Sane(run)
    PROVE  /\ Len(run.series) \in Nat /\ DOMAIN run.series = 1 .. Len(run.series)
           /\ IsFiniteSet(DOMAIN run.series) /\ IsFiniteSet(Proposals(run))
           /\ \A k \in DOMAIN run.series : /\ run.series[k].slot = k - 1
                                           /\ run.series[k].awake \in Nat
           /\ \A p \in Proposals(run) :
                 /\ run.proposals[p].start \in Nat /\ run.proposals[p].end \in Nat
                 /\ run.proposals[p].start <= run.proposals[p].end
                 /\ Positions(run, p) \in SUBSET DOMAIN run.series
                 /\ \A k \in DOMAIN run.series : k - 1 \in Window(run, p) <=> k \in Positions(run, p)
<1>1. run.series \in Seq([slot : Nat, awake : Nat])
  BY DEF Sane, Sound
<1>2. run.proposals \in Seq([start : Nat, end : Nat, outcome : STRING])
  BY DEF Sane, Sound
<1>3. Len(run.series) \in Nat /\ DOMAIN run.series = 1 .. Len(run.series)
  BY <1>1
<1>4. Len(run.proposals) \in Nat /\ Proposals(run) = 1 .. Len(run.proposals)
  BY <1>2 DEF Proposals
<1>5. IsFiniteSet(DOMAIN run.series) /\ IsFiniteSet(Proposals(run))
  <2>1. \A n \in Nat : IsFiniteSet(1 .. n)
    BY FS_Interval
  <2> QED
    BY <1>3, <1>4, <2>1
<1>6. \A k \in DOMAIN run.series : run.series[k] \in [slot : Nat, awake : Nat]
  BY <1>1, <1>3, ElementOfSeq
<1>7. \A k \in DOMAIN run.series : run.series[k].slot = k - 1 /\ run.series[k].awake \in Nat
  BY <1>6 DEF Sane, RowPerSlot
<1>8. ASSUME NEW p \in Proposals(run)
      PROVE  /\ run.proposals[p].start \in Nat /\ run.proposals[p].end \in Nat
             /\ run.proposals[p].start <= run.proposals[p].end
             /\ Positions(run, p) \in SUBSET DOMAIN run.series
             /\ \A k \in DOMAIN run.series : k - 1 \in Window(run, p) <=> k \in Positions(run, p)
  <2>1. run.proposals[p] \in [start : Nat, end : Nat, outcome : STRING]
    BY <1>2, <1>4, ElementOfSeq
  <2>2. run.proposals[p].start <= run.proposals[p].end
    BY DEF Sane, Sound
  <2>3. run.proposals[p].start \in Nat /\ run.proposals[p].end \in Nat
    BY <2>1
  <2> DEFINE a == run.proposals[p].start
             b == run.proposals[p].end
             n == Len(run.series)
  <2>4. Positions(run, p) = a + 1 .. (IF b <= n THEN b ELSE n) /\ Window(run, p) = a .. b - 1
    BY DEF Positions, Upto, Window
  <2>5. a \in Nat /\ b \in Nat /\ a <= b /\ n \in Nat /\ DOMAIN run.series = 1 .. n
    BY <1>3, <2>2, <2>3
  <2> HIDE DEF a, b, n
  <2>6. Positions(run, p) \in SUBSET DOMAIN run.series
    BY <2>4, <2>5
  <2>7. \A k \in DOMAIN run.series : k - 1 \in Window(run, p) <=> k \in Positions(run, p)
    BY <2>4, <2>5
  <2> QED
    BY <2>2, <2>3, <2>6, <2>7
<1> QED
  BY <1>3, <1>5, <1>7, <1>8

\* C_t counts windows, and divides Scale if it is not 0.
LEMMA ConcurrencyFacts ==
    ASSUME NEW run, Sane(run), NEW k \in DOMAIN run.series
    PROVE  /\ AliveAt(run, k) \in Nat
           /\ AliveAt(run, k) = Cardinality({p \in Proposals(run) : k \in Positions(run, p)})
           /\ Concurrency(run, run.series[k].slot) = AliveAt(run, k)
           /\ AliveAt(run, k) # 0 => Scale % AliveAt(run, k) = 0
<1> DEFINE at == {p \in Proposals(run) : k \in Positions(run, p)}
<1>1. {p \in Proposals(run) : k - 1 \in Window(run, p)} = at
  BY RunFacts
<1>2. AliveAt(run, k) = Cardinality(at)
  BY <1>1 DEF AliveAt, Concurrency
<1>3. at \in SUBSET Proposals(run) /\ IsFiniteSet(Proposals(run))
  BY RunFacts
<1>4. Cardinality(at) \in Nat
  <2> HIDE DEF at
  <2> QED
    BY <1>3, FS_Subset, FS_CardinalityType
<1>5. run.series[k].slot = k - 1
  BY RunFacts
<1>6. Cardinality(at) <= Len(run.proposals) /\ Len(run.proposals) \in Nat
  <2>1. run.proposals \in Seq([start : Nat, end : Nat, outcome : STRING])
    BY DEF Sane, Sound
  <2>2. Len(run.proposals) \in Nat /\ Proposals(run) = 1 .. Len(run.proposals)
    BY <2>1 DEF Proposals
  <2>3. Cardinality(Proposals(run)) = Len(run.proposals)
    BY <2>2, FS_Interval
  <2> HIDE DEF at
  <2>4. Cardinality(at) <= Cardinality(Proposals(run))
    BY <1>3, FS_Subset
  <2> QED
    BY <2>2, <2>3, <2>4
<1>7. AliveAt(run, k) # 0 => Scale % AliveAt(run, k) = 0
  <2> HIDE DEF at
  <2>1. \A c \in 1 .. Len(run.proposals) : Scale % c = 0
    BY DEF Sane, Sound
  <2> QED
    BY <1>2, <1>4, <1>6, <2>1
<1>8. Concurrency(run, run.series[k].slot) = AliveAt(run, k)
  BY <1>5 DEF AliveAt
<1> QED
  BY <1>2, <1>4, <1>7, <1>8

\* What a divisor of s takes from a multiple of s, it gives back.
LEMMA DivideExactly ==
    ASSUME NEW s \in Nat, NEW c \in Nat \ {0}, s % c = 0, NEW a \in Nat
    PROVE  (a * s) \div c \in Nat /\ c * ((a * s) \div c) = a * s
<1>1. PICK q \in Nat : s = q * c
  OBVIOUS
<1> DEFINE e == (a * s) \div c
           m == a * q
<1>2. m \in Nat
  BY <1>1
<1>3. a * s = m * c
  BY <1>1
<1>4. a * s \in Nat
  OBVIOUS
<1> DEFINE x == a * s
<1>5. x = m * c /\ x \in Nat /\ e = x \div c
  BY <1>3, <1>4
<1> HIDE DEF x, m, e
<1>6. e \in Int /\ e * c <= x /\ x < e * c + c
  BY <1>5
<1>7. e <= m
  <2> SUFFICES ASSUME e >= m + 1
               PROVE  FALSE
    BY <1>2, <1>6
  <2>1. e * c >= (m + 1) * c
    BY <1>2, <1>6
  <2> QED
    BY <1>2, <1>5, <1>6, <2>1
<1>8. m <= e
  <2> SUFFICES ASSUME m >= e + 1
               PROVE  FALSE
    BY <1>2, <1>6
  <2>1. m * c >= (e + 1) * c
    BY <1>2, <1>6
  <2> QED
    BY <1>2, <1>5, <1>6, <2>1
<1>9. e = m
  BY <1>2, <1>6, <1>7, <1>8
<1>10. e \in Nat /\ c * e = x
  BY <1>2, <1>5, <1>9
<1> QED
  BY <1>10 DEF x, e

\* The shares are whole, and the C_t windows of a slot share all it has.
LEMMA ShareFacts ==
    ASSUME NEW run, Sane(run), NEW k \in DOMAIN run.series
    PROVE  /\ Shares(run)[k] \in Nat
           /\ Shares(run)[k] = Share(run, run.series[k])
           /\ run.series[k].awake = 0 => Shares(run)[k] = 0
           /\ AliveAt(run, k) # 0 => AliveAt(run, k) * Shares(run)[k] = run.series[k].awake * Scale
           /\ AliveAt(run, k) = 0 => Shares(run)[k] = 0
<1> DEFINE c == AliveAt(run, k)
           a == run.series[k].awake
           s == Shares(run)[k]
<1>1. s = IF c = 0 THEN 0 ELSE (a * Scale) \div c
  BY ConcurrencyFacts DEF Shares, Share
<1>2. c \in Nat /\ (c # 0 => Scale % c = 0)
  BY ConcurrencyFacts
<1>3. a \in Nat /\ Scale \in Nat
  BY RunFacts, EnergyAssumption
<1>4. s = Share(run, run.series[k])
  BY DEF Shares
<1> HIDE DEF c, a, s
<1>5. CASE c = 0
  <2>1. s = 0
    BY <1>1, <1>5
  <2> QED
    BY <1>4, <1>5, <2>1 DEF c, a, s
<1>6. CASE c # 0
  <2> DEFINE e == (a * Scale) \div c
  <2>1. e \in Nat /\ c * e = a * Scale
    BY <1>2, <1>3, <1>6, DivideExactly
  <2>2. s = e
    BY <1>1, <1>6
  <2> HIDE DEF e
  <2>3. a = 0 => e = 0
    <3> SUFFICES ASSUME a = 0, e > 0
                 PROVE  FALSE
      BY <2>1
    <3>1. c * e >= 1 * e
      BY <1>2, <1>6, <2>1
    <3>2. a * Scale = 0
      BY <1>3
    <3> QED
      BY <2>1, <3>1, <3>2
  <2> QED
    BY <1>4, <1>6, <2>1, <2>2, <2>3 DEF c, a, s
<1> QED
  BY <1>5, <1>6

\* The prefix sums start at 0 and grow by the share of each slot.
LEMMA PrefixFacts ==
    ASSUME NEW run, Sane(run)
    PROVE  /\ Prefix(run)[0] = 0
           /\ \A k \in DOMAIN run.series : Prefix(run)[k] = Prefix(run)[k-1] + Shares(run)[k]
           /\ \A k \in 0 .. Len(run.series) : Prefix(run)[k] \in Int
<1> DEFINE n == Len(run.series)
           F == [x \in (1 .. n) \X Int |-> x[2] + Shares(run)[x[1]]]
           Pref(g) == g = [k \in 0 .. n |->
                             IF k = 0 THEN 0 ELSE g[k-1] + Share(run, run.series[k])]
<1>1. n \in Nat /\ DOMAIN run.series = 1 .. n
  BY RunFacts
<1>2. \A k \in 1 .. n : Shares(run)[k] \in Int /\ Shares(run)[k] = Share(run, run.series[k])
  BY <1>1, ShareFacts
<1>3. Prefix(run) = CHOOSE g : Pref(g)
  BY DEF Prefix
<1>4. F \in [(1 .. n) \X Int -> Int]
  BY <1>2
<1>5. PICK h \in [0 .. n -> Int] : Follows(n, 0, F, h)
  <2> DEFINE A == Int
  <2>1. n \in Nat /\ 0 \in A /\ F \in [(1 .. n) \X A -> A]
    BY <1>1, <1>4
  <2> HIDE DEF F, n, A
  <2>2. \E h \in [0 .. n -> A] : Follows(n, 0, F, h)
    BY <2>1, RecursionExists
  <2> QED
    BY <2>2 DEF A
<1> HIDE DEF n
<1>6. \A k \in 0 .. n : k # 0 => k - 1 \in 0 .. n /\ k \in 1 .. n
  BY <1>1
<1>7. \A k \in 0 .. n : k # 0 => F[<<k, h[k-1]>>] = h[k-1] + Share(run, run.series[k])
  BY <1>2, <1>5, <1>6
<1>8. Pref(h)
  <2>1. h = [k \in 0 .. n |-> IF k = 0 THEN 0 ELSE F[<<k, h[k-1]>>]]
    BY <1>5 DEF Follows
  <2> HIDE DEF F
  <2> QED
    BY <1>7, <2>1
<1> HIDE DEF F
<1>9. Pref(Prefix(run))
  <2>1. \E g : Pref(g)
    BY <1>8
  <2> HIDE DEF Pref
  <2> QED
    BY <1>3, <2>1
<1> DEFINE pref == Prefix(run)
<1>10. pref = [k \in 0 .. n |-> IF k = 0 THEN 0 ELSE pref[k-1] + Share(run, run.series[k])]
  BY <1>9
<1> HIDE DEF pref, Pref
<1>11. pref[0] = 0 /\ \A k \in 1 .. n : pref[k] = pref[k-1] + Shares(run)[k]
  <2>1. 0 \in 0 .. n /\ \A k \in 1 .. n : k \in 0 .. n /\ k # 0
    BY <1>1
  <2>2. pref[0] = 0
    BY <1>10, <2>1
  <2>3. \A k \in 1 .. n : pref[k] = pref[k-1] + Share(run, run.series[k])
    BY <1>10, <2>1
  <2> QED
    BY <1>2, <2>2, <2>3
<1>12. 0 .. n \subseteq {k \in 0 .. n : pref[k] \in Int}
  <2> DEFINE Good == {k \in 0 .. n : pref[k] \in Int}
  <2>1. 0 \in Good
    BY <1>1, <1>11
  <2>2. \A k \in 0 .. n-1 : k \in Good => k + 1 \in Good
    <3> SUFFICES ASSUME NEW k \in 0 .. n-1, k \in Good
                 PROVE  k + 1 \in Good
      OBVIOUS
    <3>1. k + 1 \in 1 .. n /\ k + 1 \in 0 .. n /\ (k + 1) - 1 = k
      BY <1>1
    <3>2. pref[k+1] = pref[k] + Shares(run)[k+1]
      BY <1>11, <3>1
    <3> QED
      BY <1>2, <3>1, <3>2
  <2> HIDE DEF Good
  <2>3. 0 .. n \subseteq Good
    BY <1>1, <2>1, <2>2, UpToN
  <2> QED
    BY <2>3 DEF Good
<1>13. \A k \in 0 .. n : pref[k] \in Int
  BY <1>12
<1> QED
  BY <1>1, <1>11, <1>13 DEF pref, n

\* The difference of two prefix sums is the sum of the shares in between.
LEMMA PrefixIsSum ==
    ASSUME NEW run, Sane(run), NEW a \in Nat, NEW b \in Nat, a <= b, b <= Len(run.series)
    PROVE  Prefix(run)[b] - Prefix(run)[a] = SumOver(Shares(run), a + 1 .. b)
<1> DEFINE n == Len(run.series)
           d == b - a
           f == Shares(run)
           Good == {j \in 0 .. d : Prefix(run)[a+j] - Prefix(run)[a] = SumOver(f, a + 1 .. a + j)}
<1>1. n \in Nat /\ DOMAIN run.series = 1 .. n /\ b <= n /\ d \in Nat
  BY RunFacts
<1>2. \A k \in 1 .. n : f[k] \in Int
  BY <1>1, ShareFacts
<1>3. \A j \in 0 .. d : /\ IsFiniteSet(a + 1 .. a + j) /\ a + 1 .. a + j \subseteq 1 .. n
                        /\ \A k \in a + 1 .. a + j : f[k] \in Int
  <2> SUFFICES ASSUME NEW j \in 0 .. d
               PROVE  /\ IsFiniteSet(a + 1 .. a + j) /\ a + 1 .. a + j \subseteq 1 .. n
                      /\ \A k \in a + 1 .. a + j : f[k] \in Int
    OBVIOUS
  <2>1. a + 1 \in Int /\ a + j \in Int /\ a + j <= n
    BY <1>1
  <2>2. a + 1 .. a + j \subseteq 1 .. n
    BY <1>1, <2>1
  <2>3. IsFiniteSet(a + 1 .. a + j)
    BY <2>1, FS_Interval
  <2> HIDE DEF f
  <2> QED
    BY <1>2, <2>2, <2>3
<1> HIDE DEF f
<1>4. 0 \in Good
  <2>1. 0 \in 0 .. d /\ a + 0 = a /\ a + 1 .. a + 0 = {} /\ a \in 0 .. n
    BY <1>1
  <2>2. Prefix(run)[a] \in Int
    BY <2>1, PrefixFacts DEF n
  <2>3. SumOver(f, {}) = 0
    BY <1>3, <2>1, SumStep
  <2> QED
    BY <2>1, <2>2, <2>3
<1>5. ASSUME NEW j \in 0 .. d-1, j \in Good
      PROVE  j + 1 \in Good
  <2> DEFINE S == a + 1 .. a + (j + 1)
             k == a + (j + 1)
  <2>1. j + 1 \in 0 .. d /\ k \in S /\ S \ {k} = a + 1 .. a + j /\ k - 1 = a + j /\ k \in 1 .. n
        /\ a \in 0 .. n /\ a + j \in 0 .. n
    <3>1. j \in Nat /\ j + 1 <= d /\ a + d = b
      BY <1>1
    <3> HIDE DEF d
    <3>2. a + j + 1 <= n /\ a + (j + 1) = (a + j) + 1 /\ n \in Nat
      BY <1>1, <3>1
    <3>3. j + 1 \in 0 .. d
      BY <1>1, <3>1
    <3> QED
      BY <3>1, <3>2, <3>3
  <2>2. SumOver(f, S) = f[k] + SumOver(f, S \ {k})
    <3>1. IsFiniteSet(S) /\ \A i \in S : f[i] \in Int
      BY <1>3, <2>1
    <3> HIDE DEF S, k
    <3> QED
      BY <2>1, <3>1, SumStep
  <2>3. Prefix(run)[k] = Prefix(run)[k-1] + f[k]
    BY <1>1, <2>1, PrefixFacts DEF f
  <2>4. Prefix(run)[a+j] - Prefix(run)[a] = SumOver(f, a + 1 .. a + j)
    BY <1>5
  <2>5. Prefix(run)[a] \in Int /\ Prefix(run)[a+j] \in Int /\ f[k] \in Int
    BY <1>2, <2>1, PrefixFacts DEF n
  <2>6. Prefix(run)[k] = Prefix(run)[a+j] + f[k]
    BY <2>1, <2>3
  <2>7. SumOver(f, S) = f[k] + (Prefix(run)[a+j] - Prefix(run)[a])
    BY <2>1, <2>2, <2>4
  <2>8. Prefix(run)[k] - Prefix(run)[a] = SumOver(f, S)
    BY <2>5, <2>6, <2>7
  <2> QED
    BY <2>1, <2>8
<1> HIDE DEF Good
<1>6. 0 .. d \subseteq Good
  BY <1>1, <1>4, <1>5, UpToN
<1>7. d \in Good /\ a + d = b
  BY <1>1, <1>6
<1> QED
  BY <1>7 DEF Good, f

-----------------------------------------------------------------------------
(***************************************************************************)
(* The sums of the scripts, which add in the order CHOOSE gives, as sums   *)
(* whose order does not matter.                                            *)
(***************************************************************************)

\* The awake nodes at each position, and what they add up to over some of them.
AwakeAt(run) == [k \in DOMAIN run.series |-> run.series[k].awake]
AwakeOver(run, T) == MapThenSumSet(LAMBDA k : run.series[k].awake, T)

\* The energy of each proposal.
Energies(run) == [p \in Proposals(run) |-> EnergyByLookup(run, p)]

\* The awake nodes at some positions.
LEMMA AwakeIsSum ==
    ASSUME NEW run, Sane(run), NEW T \in SUBSET DOMAIN run.series
    PROVE  AwakeOver(run, T) = SumOver(AwakeAt(run), T)
<1> DEFINE W == CHOOSE g : g = [s \in SUBSET T |->
                  IF s = {} THEN 0 ELSE run.series[Pick(s)].awake + g[s \ {Pick(s)}]]
<1>1. AwakeOver(run, T) = W[T]
  BY DEF AwakeOver, MapThenSumSet, MapThenFoldSet, Pick
<1>2. IsFiniteSet(T)
  BY RunFacts, FS_Subset
<1>3. ASSUME NEW g
      PROVE  [s \in SUBSET T |-> IF s = {} THEN 0 ELSE AwakeAt(run)[Pick(s)] + g[s \ {Pick(s)}]]
               = [s \in SUBSET T |->
                    IF s = {} THEN 0 ELSE run.series[Pick(s)].awake + g[s \ {Pick(s)}]]
  <2>1. ASSUME NEW s \in SUBSET T, s # {}
        PROVE  AwakeAt(run)[Pick(s)] = run.series[Pick(s)].awake
    <3>1. Pick(s) \in DOMAIN run.series
      BY <2>1 DEF Pick
    <3> QED
      BY <3>1 DEF AwakeAt
  <2> QED
    BY <2>1
<1>4. PICK h : IsSum(AwakeAt(run), T, h)
  BY <1>2, SumExists
<1>5. h = [s \in SUBSET T |->
             IF s = {} THEN 0 ELSE run.series[Pick(s)].awake + h[s \ {Pick(s)}]]
  BY <1>3, <1>4 DEF IsSum
<1>6. W = [s \in SUBSET T |->
             IF s = {} THEN 0 ELSE run.series[Pick(s)].awake + W[s \ {Pick(s)}]]
  BY <1>5
<1> HIDE DEF W
<1>7. IsSum(AwakeAt(run), T, W)
  BY <1>3, <1>6 DEF IsSum
<1> QED
  BY <1>1, <1>2, <1>7, SumIsSum

\* The shares plot_stacked_bar.py looks up.
LEMMA LookupIsSum ==
    ASSUME NEW run, Sane(run), NEW p \in Proposals(run)
    PROVE  EnergyByLookup(run, p)
             = SumOver(Shares(run), {k \in Positions(run, p) : run.series[k].awake > 0})
<1> DEFINE T == {k \in DOMAIN run.series :
                   run.series[k].slot \in Window(run, p) /\ run.series[k].awake > 0}
           W == CHOOSE g : g = [s \in SUBSET T |->
                  IF s = {} THEN 0 ELSE Share(run, run.series[Pick(s)]) + g[s \ {Pick(s)}]]
<1>1. EnergyByLookup(run, p) = W[T]
  BY DEF EnergyByLookup, MapThenSumSet, MapThenFoldSet, Pick
<1>2. T = {k \in Positions(run, p) : run.series[k].awake > 0}
  BY RunFacts
<1>3. T \in SUBSET DOMAIN run.series
  OBVIOUS
<1> HIDE DEF T
<1>4. IsFiniteSet(T)
  BY <1>3, RunFacts, FS_Subset
<1>5. ASSUME NEW g
      PROVE  [s \in SUBSET T |-> IF s = {} THEN 0 ELSE Shares(run)[Pick(s)] + g[s \ {Pick(s)}]]
               = [s \in SUBSET T |->
                    IF s = {} THEN 0 ELSE Share(run, run.series[Pick(s)]) + g[s \ {Pick(s)}]]
  <2>1. ASSUME NEW s \in SUBSET T, s # {}
        PROVE  Shares(run)[Pick(s)] = Share(run, run.series[Pick(s)])
    <3>1. Pick(s) \in DOMAIN run.series
      BY <1>3, <2>1 DEF Pick
    <3> QED
      BY <3>1 DEF Shares
  <2> QED
    BY <2>1
<1>6. PICK h : IsSum(Shares(run), T, h)
  BY <1>4, SumExists
<1>7. h = [s \in SUBSET T |->
             IF s = {} THEN 0 ELSE Share(run, run.series[Pick(s)]) + h[s \ {Pick(s)}]]
  BY <1>5, <1>6 DEF IsSum
<1>8. W = [s \in SUBSET T |->
             IF s = {} THEN 0 ELSE Share(run, run.series[Pick(s)]) + W[s \ {Pick(s)}]]
  BY <1>7
<1> HIDE DEF W
<1>9. IsSum(Shares(run), T, W)
  BY <1>5, <1>8 DEF IsSum
<1> QED
  BY <1>1, <1>2, <1>4, <1>9, SumIsSum

\* The energies of all proposals.
LEMMA EnergiesIsSum ==
    ASSUME NEW run, Sane(run)
    PROVE  MapThenSumSet(LAMBDA p : EnergyByLookup(run, p), Proposals(run))
             = SumOver(Energies(run), Proposals(run))
<1> DEFINE T == Proposals(run)
           W == CHOOSE g : g = [s \in SUBSET T |->
                  IF s = {} THEN 0 ELSE EnergyByLookup(run, Pick(s)) + g[s \ {Pick(s)}]]
<1>1. MapThenSumSet(LAMBDA p : EnergyByLookup(run, p), Proposals(run)) = W[T]
  BY DEF MapThenSumSet, MapThenFoldSet, Pick
<1>2. IsFiniteSet(T)
  BY RunFacts
<1>3. ASSUME NEW g
      PROVE  [s \in SUBSET T |-> IF s = {} THEN 0 ELSE Energies(run)[Pick(s)] + g[s \ {Pick(s)}]]
               = [s \in SUBSET T |->
                    IF s = {} THEN 0 ELSE EnergyByLookup(run, Pick(s)) + g[s \ {Pick(s)}]]
  <2>1. ASSUME NEW s \in SUBSET T, s # {}
        PROVE  Energies(run)[Pick(s)] = EnergyByLookup(run, Pick(s))
    <3>1. Pick(s) \in Proposals(run)
      BY <2>1 DEF Pick
    <3> QED
      BY <3>1 DEF Energies
  <2> QED
    BY <2>1
<1>4. PICK h : IsSum(Energies(run), T, h)
  BY <1>2, SumExists
<1>5. h = [s \in SUBSET T |->
             IF s = {} THEN 0 ELSE EnergyByLookup(run, Pick(s)) + h[s \ {Pick(s)}]]
  BY <1>3, <1>4 DEF IsSum
<1>6. W = [s \in SUBSET T |->
             IF s = {} THEN 0 ELSE EnergyByLookup(run, Pick(s)) + W[s \ {Pick(s)}]]
  BY <1>5
<1> HIDE DEF W
<1>7. IsSum(Energies(run), T, W)
  BY <1>3, <1>6 DEF IsSum
<1> QED
  BY <1>1, <1>2, <1>7, SumIsSum

-----------------------------------------------------------------------------
(***************************************************************************)
(* The three methods agree and lose nothing.                               *)
(***************************************************************************)

\* By look-up, which leaves out the slots nobody was awake in: they have no share.
LEMMA LookupIsAll ==
    ASSUME NEW run, Sane(run), NEW p \in Proposals(run)
    PROVE  EnergyByLookup(run, p) = SumOver(Shares(run), Positions(run, p))
<1> DEFINE S == Positions(run, p)
           T == {k \in S : run.series[k].awake > 0}
<1>1. S \in SUBSET DOMAIN run.series /\ T \in SUBSET S /\ IsFiniteSet(S)
  BY RunFacts, FS_Subset
<1>2. \A k \in S : Shares(run)[k] \in Int
  BY <1>1, ShareFacts
<1>3. \A k \in S \ T : Shares(run)[k] = 0
  <2> SUFFICES ASSUME NEW k \in S \ T
               PROVE  Shares(run)[k] = 0
    OBVIOUS
  <2>1. k \in DOMAIN run.series
    BY <1>1
  <2>2. run.series[k].awake \in Nat /\ ~(run.series[k].awake > 0)
    BY <2>1, RunFacts
  <2>3. run.series[k].awake = 0
    BY <2>2
  <2> QED
    BY <2>1, <2>3, ShareFacts
<1>4. EnergyByLookup(run, p) = SumOver(Shares(run), T)
  BY LookupIsSum
<1> HIDE DEF S, T
<1>5. SumOver(Shares(run), S) = SumOver(Shares(run), T)
  BY <1>1, <1>2, <1>3, SumOfPart
<1> QED
  BY <1>4, <1>5 DEF S

\* By prefix sums, of a window the series covers.
LEMMA ByPrefixIsSum ==
    ASSUME NEW run, Sane(run), NEW p \in Proposals(run),
           run.proposals[p].end <= Len(run.series)
    PROVE  EnergyByPrefix(run, p) = SumOver(Shares(run), Positions(run, p))
<1> DEFINE a == run.proposals[p].start
           b == run.proposals[p].end
<1>1. a \in Nat /\ b \in Nat /\ a <= b /\ b <= Len(run.series)
  BY RunFacts
<1>2. EnergyByPrefix(run, p) = Prefix(run)[b] - Prefix(run)[a] /\ Positions(run, p) = a + 1 .. b
  BY DEF EnergyByPrefix, Positions, Upto
<1> HIDE DEF a, b
<1> QED
  BY <1>1, <1>2, PrefixIsSum

\* Over the slots present, which are those of the window the series has.
LEMMA PresentIsSum ==
    ASSUME NEW run, Sane(run), NEW p \in Proposals(run)
    PROVE  EnergyOfPresent(run, p) = SumOver(Shares(run), Positions(run, p))
<1> DEFINE a == run.proposals[p].start
           b == Upto(run, p)
           S == {k \in DOMAIN run.series : run.series[k].slot \in Window(run, p)}
<1>1. a \in Nat /\ b \in Nat /\ b <= Len(run.series) /\ Len(run.series) \in Nat
  BY RunFacts DEF Upto
<1>2. S = a + 1 .. b /\ S = Positions(run, p)
  <2>1. S = Positions(run, p)
    BY RunFacts
  <2> QED
    BY <2>1 DEF Positions
<1>3. EnergyOfPresent(run, p) = IF S = {} THEN 0 ELSE Prefix(run)[Max(S)] - Prefix(run)[Min(S) - 1]
  BY DEF EnergyOfPresent
<1> HIDE DEF S, a, b
<1>4. CASE ~(a < b)
  <2>1. S = {}
    BY <1>1, <1>2, <1>4
  <2>2. SumOver(Shares(run), {}) = 0
    BY FS_EmptySet, SumStep
  <2> QED
    BY <1>2, <1>3, <2>1, <2>2
<1>5. CASE a < b
  <2>1. a + 1 \in S /\ b \in S /\ S \in SUBSET Int /\ \A k \in S : a + 1 <= k /\ k <= b
    BY <1>1, <1>2, <1>5
  <2>2. IsFiniteSet(S)
    BY <1>1, <1>2, FS_Interval
  <2>3. Max(S) \in S /\ Max(S) >= b /\ Min(S) \in S /\ Min(S) <= a + 1
    BY <2>1, <2>2, MaxOfFinite, MinOfFinite
  <2>4. \A x, y \in S : x >= b /\ y <= a + 1 => x = b /\ y - 1 = a
    BY <1>1, <1>2
  <2>5. Max(S) = b /\ Min(S) - 1 = a
    BY <2>3, <2>4
  <2>6. Prefix(run)[b] - Prefix(run)[a] = SumOver(Shares(run), a + 1 .. b)
    BY <1>1, <1>5, PrefixIsSum
  <2> QED
    BY <1>2, <1>3, <2>1, <2>5, <2>6
<1> QED
  BY <1>4, <1>5

\* Over all proposals the energies are the awake node-slots inside the windows.
LEMMA EnergiesAddUp ==
    ASSUME NEW run, Sane(run)
    PROVE  SumOver(Energies(run), Proposals(run)) = Scale * AwakeInside(run)
<1> DEFINE A == Proposals(run)
           S == DOMAIN run.series
           W == [p \in A |-> Positions(run, p)]
           h == [k \in S |-> AliveAt(run, k) * Shares(run)[k]]
           T == {k \in S : Concurrency(run, run.series[k].slot) > 0}
<1>1. IsFiniteSet(A) /\ IsFiniteSet(S) /\ T \in SUBSET S /\ IsFiniteSet(T)
  BY RunFacts, FS_Subset
<1>2. W \in [A -> SUBSET S]
  BY RunFacts
<1>3. \A k \in S : Shares(run)[k] \in Int
  BY ShareFacts
<1>4. \A p \in A : Energies(run)[p] = SumOver(Shares(run), W[p])
  BY LookupIsAll DEF Energies
<1>5. \A k \in S : h[k] = Cardinality({p \in A : k \in W[p]}) * Shares(run)[k]
  <2> SUFFICES ASSUME NEW k \in S
               PROVE  h[k] = Cardinality({p \in A : k \in W[p]}) * Shares(run)[k]
    OBVIOUS
  <2>1. {p \in A : k \in W[p]} = {p \in Proposals(run) : k \in Positions(run, p)}
    OBVIOUS
  <2>2. AliveAt(run, k) = Cardinality({p \in Proposals(run) : k \in Positions(run, p)})
    BY ConcurrencyFacts
  <2> QED
    BY <2>1, <2>2
<1>6. \A k \in S : /\ h[k] \in Int
                   /\ k \in T => AwakeAt(run)[k] \in Int /\ h[k] = Scale * AwakeAt(run)[k]
                   /\ k \notin T => h[k] = 0
  <2> SUFFICES ASSUME NEW k \in S
               PROVE  /\ h[k] \in Int
                      /\ k \in T => AwakeAt(run)[k] \in Int /\ h[k] = Scale * AwakeAt(run)[k]
                      /\ k \notin T => h[k] = 0
    OBVIOUS
  <2> DEFINE c == AliveAt(run, k)
             w == run.series[k].awake
             s == Shares(run)[k]
  <2>1. c \in Nat /\ (k \in T <=> c > 0)
    BY ConcurrencyFacts
  <2>2. w \in Nat /\ AwakeAt(run)[k] = w
    BY RunFacts DEF AwakeAt
  <2>3. s \in Nat /\ (c # 0 => c * s = w * Scale) /\ (c = 0 => s = 0)
    BY ShareFacts
  <2>4. h[k] = c * s
    OBVIOUS
  <2>5. Scale \in Nat
    BY EnergyAssumption
  <2> HIDE DEF c, w, s, h, T
  <2>6. h[k] \in Int /\ w * Scale = Scale * w
    BY <2>1, <2>2, <2>3, <2>4, <2>5
  <2>7. k \notin T => h[k] = 0
    BY <2>1, <2>3, <2>4
  <2>8. k \in T => h[k] = w * Scale
    BY <2>1, <2>3, <2>4
  <2> QED
    BY <2>2, <2>6, <2>7, <2>8
<1>7. AwakeInside(run) = SumOver(AwakeAt(run), T)
  <2>1. AwakeInside(run) = AwakeOver(run, T)
    BY DEF AwakeInside, AwakeWhere, AwakeOver
  <2> QED
    BY <1>1, <2>1, AwakeIsSum
<1> HIDE DEF A, S, W, h, T
<1>8. SumOver(Energies(run), A) = SumOver(h, S)
  BY <1>1, <1>2, <1>3, <1>4, <1>5, SumsExchange
<1>9. SumOver(h, S) = SumOver(h, T)
  <2>1. \A k \in S \ T : h[k] = 0
    BY <1>6
  <2> QED
    BY <1>1, <1>6, <2>1, SumOfPart
<1>10. SumOver(h, T) = Scale * SumOver(AwakeAt(run), T)
  <2>1. \A k \in T : AwakeAt(run)[k] \in Int /\ h[k] = Scale * AwakeAt(run)[k]
    BY <1>1, <1>6
  <2>2. Scale \in Int
    BY EnergyAssumption
  <2> QED
    BY <1>1, <2>1, <2>2, SumScaled
<1> QED
  BY <1>7, <1>8, <1>9, <1>10 DEF A

(***************************************************************************)
(* On all CSVs without a gap in their series the scripts say the same of   *)
(* every decision, and the energies add up.                                *)
(***************************************************************************)
LEMMA MethodsAgreeOnRuns ==
    ASSUME NEW run, Sane(run)
    PROVE  MethodsAgree(run)
<1> DEFINE S == DOMAIN run.series
           T == {k \in S : Concurrency(run, run.series[k].slot) > 0}
           U == {k \in S : Concurrency(run, run.series[k].slot) = 0}
<1>1. \A p \in Proposals(run) :
        /\ EnergyOfPresent(run, p) = EnergyByLookup(run, p)
        /\ run.proposals[p].end <= Len(run.series) =>
             EnergyByPrefix(run, p) = EnergyByLookup(run, p)
  BY LookupIsAll, PresentIsSum, ByPrefixIsSum
<1>2. MapThenSumSet(LAMBDA p : EnergyByLookup(run, p), Proposals(run)) = Scale * AwakeInside(run)
  BY EnergiesIsSum, EnergiesAddUp
<1>3. AwakeInside(run) + AwakeOutside(run)
        = MapThenSumSet(LAMBDA k : run.series[k].awake, DOMAIN run.series)
  <2>1. IsFiniteSet(S) /\ T \in SUBSET S /\ U \in SUBSET S
    BY RunFacts
  <2>2. S \ T = U
    <3> SUFFICES ASSUME NEW k \in S
                 PROVE  ~(Concurrency(run, run.series[k].slot) > 0)
                          <=> Concurrency(run, run.series[k].slot) = 0
      OBVIOUS
    <3>1. Concurrency(run, run.series[k].slot) \in Nat
      BY ConcurrencyFacts
    <3> QED
      BY <3>1
  <2>3. \A k \in S : AwakeAt(run)[k] \in Int
    BY RunFacts DEF AwakeAt
  <2>4. AwakeInside(run) = AwakeOver(run, T)
    BY DEF AwakeInside, AwakeWhere, AwakeOver
  <2>5. AwakeOutside(run) = AwakeOver(run, U)
    BY DEF AwakeOutside, AwakeWhere, AwakeOver
  <2>6. MapThenSumSet(LAMBDA k : run.series[k].awake, DOMAIN run.series) = AwakeOver(run, S)
    BY DEF AwakeOver
  <2> HIDE DEF S, T, U
  <2>7. SumOver(AwakeAt(run), S) = SumOver(AwakeAt(run), T) + SumOver(AwakeAt(run), U)
    BY <2>1, <2>2, <2>3, SumSplit
  <2>8. \A X \in SUBSET S : AwakeOver(run, X) = SumOver(AwakeAt(run), X)
    BY AwakeIsSum DEF S
  <2> QED
    BY <2>1, <2>4, <2>5, <2>6, <2>7, <2>8
<1> QED
  BY <1>1, <1>2, <1>3 DEF MethodsAgree

-----------------------------------------------------------------------------
(***************************************************************************)
(* The loops of main, and what is left of them when a collector resumes.   *)
(***************************************************************************)

\* A sequence without doubles has as many elements as it is long.
LEMMA NoDoubles ==
    ASSUME NEW S, NEW s \in Seq(S), \A i, j \in DOMAIN s : s[i] = s[j] => i = j
    PROVE  IsFiniteSet(ToSet(s)) /\ Cardinality(ToSet(s)) = Len(s) /\ ToSet(s) \in SUBSET S
<1> DEFINE n == Len(s)
           T == ToSet(s)
           f == [i \in 1 .. n |-> s[i]]
<1>1. n \in Nat /\ DOMAIN s = 1 .. n /\ \A i \in 1 .. n : s[i] \in S
  BY LenProperties, ElementOfSeq
<1>2. T = {s[i] : i \in 1 .. n}
  BY <1>1 DEF ToSet
<1> HIDE DEF n, T
<1>3. f \in Surjection(1 .. n, T) /\ f \in Injection(1 .. n, T)
  BY <1>1, <1>2 DEF Surjection, Injection, IsInjective
<1>4. IsFiniteSet(1 .. n) /\ Cardinality(1 .. n) = n
  BY <1>1, FS_Interval
<1> HIDE DEF f
<1>5. IsFiniteSet(T) /\ Cardinality(T) = n
  BY <1>3, <1>4, FS_Surjection
<1> QED
  BY <1>1, <1>2, <1>5 DEF n, T

\* A sequence that runs through a set of its length has no doubles.
LEMMA NoneTwice ==
    ASSUME NEW s, NEW S, s \in Seq(S), IsFiniteSet(S), Cardinality(S) = Len(s),
           \A x \in S : \E i \in DOMAIN s : s[i] = x
    PROVE  \A i, j \in DOMAIN s : s[i] = s[j] => i = j
<1> DEFINE n == Len(s)
           f == [i \in 1 .. n |-> s[i]]
<1>1. n \in Nat /\ DOMAIN s = 1 .. n /\ \A i \in 1 .. n : s[i] \in S
  BY LenProperties, ElementOfSeq
<1> HIDE DEF n
<1>2. f \in Surjection(1 .. n, S)
  BY <1>1 DEF Surjection
<1>3. IsFiniteSet(1 .. n) /\ Cardinality(1 .. n) = n
  BY <1>1, FS_Interval
<1>4. f \in Injection(1 .. n, S)
  <2> HIDE DEF f
  <2>1. Cardinality(S) = Cardinality(1 .. n)
    BY <1>3 DEF n
  <2> QED
    BY <1>2, <1>3, <2>1, FS_Surjection
<1>5. \A i, j \in 1 .. n : f[i] = f[j] => i = j
  BY <1>4 DEF Injection, IsInjective
<1> QED
  BY <1>1, <1>5

\* The first m elements of every sequence in s are in t.
Covers(t, s, m) == \A i \in DOMAIN s : \A j \in 1 .. m : \E x \in DOMAIN t : t[x] = s[i][j]

\* Sequences of the same length one after the other.
LEMMA FlattenFacts ==
    ASSUME NEW P, NEW s \in Seq(Seq(P)), Len(s) > 0,
           NEW m \in Nat, \A i \in DOMAIN s : Len(s[i]) = m
    PROVE  /\ FlattenSeq(s) \in Seq(P) /\ Len(FlattenSeq(s)) = Len(s) * m
           /\ Covers(FlattenSeq(s), s, m)
<1> DEFINE n == Len(s)
           A == Seq(P)
<1>1. n \in Nat /\ n > 0 /\ DOMAIN s = 1 .. n /\ \A i \in 1 .. n : s[i] \in A
  BY LenProperties, ElementOfSeq
<1>2. PICK W : /\ FlattenSeq(s) = W[Len(s)]
               /\ \A i \in 1 .. Len(s) : W[i] = IF i = 1 THEN s[i] ELSE W[i-1] \o s[i]
  <2> DEFINE Unfolds(w) == /\ FlattenSeq(s) = w[Len(s)]
                           /\ \A i \in 1 .. Len(s) : w[i] = IF i = 1 THEN s[i] ELSE w[i-1] \o s[i]
  <2>1. \E w : Unfolds(w)
    BY FlattenUnfolds
  <2> QED
    BY <2>1
<1>8. \A i \in 1 .. n : W[i] = IF i = 1 THEN s[i] ELSE W[i-1] \o s[i]
  BY <1>2
<1> HIDE DEF n
<1> DEFINE Has(k) == \A i \in 1 .. k : \A j \in 1 .. m : \E x \in DOMAIN W[k] : W[k][x] = s[i][j]
           Good == {k \in 0 .. n-1 : W[k+1] \in A /\ Len(W[k+1]) = (k+1) * m /\ Has(k+1)}
<1>9. 0 \in Good
  <2>1. 0 \in 0 .. n-1 /\ 1 \in 1 .. n /\ 0 + 1 = 1
    BY <1>1
  <2>2. W[1] = s[1] /\ s[1] \in A /\ Len(s[1]) = m
    BY <1>1, <1>8, <2>1
  <2>3. DOMAIN s[1] = 1 .. m
    BY <2>2, LenProperties
  <2>4. Has(1)
    <3>1. \A i \in 1 .. 1 : i = 1
      OBVIOUS
    <3>2. \A j \in 1 .. m : j \in DOMAIN W[1] /\ W[1][j] = s[1][j]
      BY <2>2, <2>3
    <3> QED
      BY <3>1, <3>2
  <2>5. (0 + 1) * m = m
    OBVIOUS
  <2> HIDE DEF Has, A
  <2> QED
    BY <2>1, <2>2, <2>4, <2>5
<1>10. ASSUME NEW k \in 0 .. (n-1)-1, k \in Good
       PROVE  k + 1 \in Good
  <2> DEFINE l == k + 2
             u == W[k+1]
  <2>1. /\ k + 1 \in 0 .. n-1 /\ l \in 1 .. n /\ l # 1 /\ l - 1 = k + 1 /\ (k + 1) + 1 = l
        /\ k + 1 \in Nat /\ \A i \in 1 .. l : i = l \/ i \in 1 .. k + 1
    BY <1>1
  <2>2. u \in A /\ Len(u) = (k+1) * m /\ Has(k+1)
    BY <1>10
  <2>3. W[l] = u \o s[l] /\ s[l] \in A /\ Len(s[l]) = m
    BY <1>1, <1>8, <2>1
  <2>4. /\ W[l] \in A /\ Len(W[l]) = Len(u) + m
        /\ \A x \in 1 .. Len(u) + m : W[l][x] = IF x <= Len(u) THEN u[x] ELSE s[l][x - Len(u)]
    <3> DEFINE v == s[l]
    <3>1. u \in Seq(P) /\ v \in Seq(P) /\ Len(v) = m /\ W[l] = u \o v
      BY <2>2, <2>3
    <3> HIDE DEF u, v, l
    <3>2. /\ u \o v \in Seq(P) /\ Len(u \o v) = Len(u) + Len(v)
          /\ \A x \in 1 .. Len(u) + Len(v) :
                (u \o v)[x] = IF x <= Len(u) THEN u[x] ELSE v[x - Len(u)]
      BY <3>1, ConcatProperties
    <3> QED
      BY <3>1, <3>2 DEF v
  <2>5. Len(u) \in Nat /\ DOMAIN u = 1 .. Len(u) /\ DOMAIN W[l] = 1 .. Len(u) + m
    BY <2>2, <2>4, LenProperties
  <2>6. Len(W[l]) = l * m
    <3>1. (k+1) * m + m = ((k+1) + 1) * m
      BY <2>1
    <3> QED
      BY <2>1, <2>2, <2>4, <3>1
  <2>7. Has(l)
    <3> SUFFICES ASSUME NEW i \in 1 .. l, NEW j \in 1 .. m
                 PROVE  \E x \in DOMAIN W[l] : W[l][x] = s[i][j]
      OBVIOUS
    <3>1. CASE i = l
      <4>1. Len(u) + j \in 1 .. Len(u) + m /\ ~(Len(u) + j <= Len(u)) /\ (Len(u) + j) - Len(u) = j
        BY <2>5
      <4> HIDE DEF u, l
      <4> QED
        BY <2>4, <2>5, <3>1, <4>1
    <3>2. CASE i \in 1 .. k + 1
      <4>1. PICK x \in DOMAIN u : u[x] = s[i][j]
        BY <2>2, <3>2
      <4>2. x \in 1 .. Len(u) + m /\ x <= Len(u)
        BY <2>5, <4>1
      <4> HIDE DEF u, l
      <4> QED
        BY <2>4, <2>5, <4>1, <4>2
    <3> QED
      BY <2>1, <3>1, <3>2
  <2> HIDE DEF l, Has, A
  <2> QED
    BY <2>1, <2>4, <2>6, <2>7
<1> HIDE DEF Good
<1>11. n - 1 \in Good
  <2>1. n - 1 \in Nat /\ n - 1 \in 0 .. n-1
    BY <1>1
  <2>2. 0 .. n-1 \subseteq Good
    BY <1>9, <1>10, <2>1, UpToN
  <2> QED
    BY <2>1, <2>2
<1>12. W[n] \in A /\ Len(W[n]) = n * m /\ Has(n)
  <2>1. (n - 1) + 1 = n
    BY <1>1
  <2> QED
    BY <1>11, <2>1 DEF Good
<1>13. FlattenSeq(s) = W[n]
  BY <1>2 DEF n
<1>14. Covers(W[n], s, m)
  BY <1>1, <1>12 DEF Covers
<1> HIDE DEF Has
<1> QED
  BY <1>12, <1>13, <1>14 DEF n

-----------------------------------------------------------------------------
(***************************************************************************)
(* The invariant of the collector.                                         *)
(***************************************************************************)

\* What the loops of main go through, and what a row of a table is about.
Pairs == ToSet(Arms) \X ToSet(Seeds)
Key(row) == <<row.arm, row.seed>>

\* What may lie in the two CSVs of an arm: each is what some run of the arm, of
\* any seed and revision, wrote of it, or a part of that; not the same run for both.
PartOf(new, file) == \E n \in 0 .. Len(new) : file = SubSeq(new, 1, n)
LeftByRuns(arm, run) ==
    /\ run = [series |-> run.series, proposals |-> run.proposals]
    /\ \E r \in 0 .. LastRevision, seed \in ToSet(Seeds) :
          PartOf(Simulate(r, arm, seed).series, run.series)
    /\ \E r \in 0 .. LastRevision, seed \in ToSet(Seeds) :
          PartOf(Simulate(r, arm, seed).proposals, run.proposals)

\* A row computed from two CSVs the collector accepted together with its charge.
Charge(row) == [awake |-> row.awake, asleep |-> row.asleep]
ComputedFrom(row, run) ==
    row = Row(row.arm, row.seed, Charge(row), run) /\ Accepted(Charge(row), run)

ResultsInv ==
    /\ binary \in 0 .. LastRevision
    /\ results = [a \in ToSet(Arms) |-> results[a]]
    /\ \A a \in ToSet(Arms) : LeftByRuns(a, results[a])

\* runs.csv has at most one row for an arm and a seed, and each row is computed
\* from CSVs of its arm.
RunsInv ==
    /\ runs \in Seq(ToSet(runs))
    /\ \A k \in DOMAIN runs : Key(runs[k]) \in Pairs
    /\ \A j, k \in DOMAIN runs : Key(runs[j]) = Key(runs[k]) => j = k
    /\ source = [pair \in Pairs |-> source[pair]]
    /\ \A k \in DOMAIN runs : LET run == source[Key(runs[k])] IN
          ComputedFrom(runs[k], run) /\ LeftByRuns(runs[k].arm, run)

\* What the collector still has to do, each once, runs.csv does not hold; while
\* the decisions are appended, the first of it has just been done.
TodoInv ==
    /\ todo \in Seq(Pairs)
    /\ \A i, j \in DOMAIN todo : todo[i] = todo[j] => i = j
    /\ pc \in {"run", "append_row"} => \A i \in DOMAIN todo : todo[i] \notin Keys(runs)
    /\ pc = "append_decisions" =>
         todo # <<>> /\ \A i \in DOMAIN todo : i # 1 => todo[i] \notin Keys(runs)

\* The row about to be appended is that of the first run to do, and the decisions
\* are those of the CSVs the row is computed from.
RowInv ==
    /\ pc = "append_row" =>
         /\ todo # <<>> /\ measured.row = <<measured.row[1]>>
         /\ Key(measured.row[1]) = Head(todo)
         /\ ComputedFrom(measured.row[1], results[Head(todo)[1]])
         /\ measured.decisions = DecisionRows(Head(todo)[1], Head(todo)[2], results[Head(todo)[1]])
    /\ pc = "append_decisions" =>
         /\ Head(todo) \in Keys(runs)
         /\ measured.decisions = DecisionRows(Head(todo)[1], Head(todo)[2], source[Head(todo)])

\* A report is being written only of files that pass the audit.
AuditInv ==
    pc = "write_report" => \A data \in report.data : ~AuditFails(DataFiles(data))

CollectInv == ResultsInv /\ RunsInv /\ TodoInv /\ RowInv /\ AuditInv

\* The arms and the seeds, and how many pairs of them there are.
LEMMA PairFacts ==
    /\ Arms \in Seq(STRING) /\ Len(Arms) \in Nat \ {0} /\ DOMAIN Arms = 1 .. Len(Arms)
    /\ Seeds \in Seq(Nat) /\ Len(Seeds) \in Nat \ {0} /\ DOMAIN Seeds = 1 .. Len(Seeds)
    /\ IsFiniteSet(Pairs) /\ Cardinality(Pairs) = Len(Arms) * Len(Seeds)
    /\ \A pair \in Pairs : pair[1] \in ToSet(Arms) /\ pair[2] \in ToSet(Seeds)
                           /\ pair = <<pair[1], pair[2]>>
<1>1. Arms \in Seq(STRING) /\ Len(Arms) = Len(CiArms) + Len(CeArms)
  BY CollectionAssumption, ConcatProperties DEF Arms
<1>2. Len(CiArms) \in Nat /\ Len(CeArms) \in Nat /\ Len(CiArms) > 0
  BY CollectionAssumption, LenProperties
<1>3. Len(Arms) \in Nat \ {0} /\ DOMAIN Arms = 1 .. Len(Arms)
  BY <1>1, <1>2, LenProperties
<1>4. Seeds \in Seq(Nat) /\ Len(Seeds) \in Nat \ {0} /\ DOMAIN Seeds = 1 .. Len(Seeds)
  BY CollectionAssumption, LenProperties
<1>5. \A i, j \in DOMAIN Arms : Arms[i] = Arms[j] => i = j
  BY CollectionAssumption DEF Arms, IsInjective
<1>6. \A i, j \in DOMAIN Seeds : Seeds[i] = Seeds[j] => i = j
  BY CollectionAssumption DEF IsInjective
<1>7. IsFiniteSet(ToSet(Arms)) /\ Cardinality(ToSet(Arms)) = Len(Arms)
  BY <1>1, <1>5, NoDoubles
<1>8. IsFiniteSet(ToSet(Seeds)) /\ Cardinality(ToSet(Seeds)) = Len(Seeds)
  BY <1>4, <1>6, NoDoubles
<1>9. IsFiniteSet(Pairs) /\ Cardinality(Pairs) = Len(Arms) * Len(Seeds)
  <2> DEFINE S == ToSet(Arms)
             T == ToSet(Seeds)
  <2> HIDE DEF S, T
  <2>1. IsFiniteSet(S) /\ IsFiniteSet(T) =>
          IsFiniteSet(S \X T) /\ Cardinality(S \X T) = Cardinality(S) * Cardinality(T)
    BY FS_Product
  <2>2. Pairs = S \X T
    BY DEF Pairs, S, T
  <2> QED
    BY <1>7, <1>8, <2>1, <2>2 DEF S, T
<1>10. \A pair \in Pairs : pair[1] \in ToSet(Arms) /\ pair[2] \in ToSet(Seeds)
                           /\ pair = <<pair[1], pair[2]>>
  BY DEF Pairs
<1> QED
  BY <1>1, <1>3, <1>4, <1>9, <1>10

\* The loops visit every pair once.
LEMMA LoopFacts ==
    /\ Loop \in Seq(Pairs) /\ Len(Loop) \in Nat /\ DOMAIN Loop = 1 .. Len(Loop)
    /\ Len(Loop) = Cardinality(Pairs) /\ ToSet(Loop) = Pairs
    /\ \A i, j \in DOMAIN Loop : Loop[i] = Loop[j] => i = j
<1> DEFINE n == Len(Arms)
           m == Len(Seeds)
           row(i) == [j \in DOMAIN Seeds |-> <<Arms[i], Seeds[j]>>]
           s == [i \in DOMAIN Arms |-> row(i)]
<1>1. n \in Nat /\ n > 0 /\ m \in Nat /\ DOMAIN Arms = 1 .. n /\ DOMAIN Seeds = 1 .. m
  BY PairFacts
<1>2. Loop = FlattenSeq(s)
  BY DEF Loop
<1>3. \A i \in 1 .. n, j \in 1 .. m : <<Arms[i], Seeds[j]>> \in Pairs
  BY <1>1 DEF Pairs, ToSet
<1> HIDE DEF n, m
<1>4. \A i \in 1 .. n : row(i) \in Seq(Pairs) /\ Len(row(i)) = m
  <2> SUFFICES ASSUME NEW i \in 1 .. n
               PROVE  row(i) \in Seq(Pairs) /\ Len(row(i)) = m
    OBVIOUS
  <2>1. row(i) = [j \in 1 .. m |-> <<Arms[i], Seeds[j]>>]
    BY <1>1
  <2>2. \A j \in 1 .. m : <<Arms[i], Seeds[j]>> \in Pairs
    BY <1>3
  <2> HIDE DEF Pairs
  <2> QED
    BY <1>1, <2>1, <2>2
<1>5. s = [i \in 1 .. n |-> row(i)]
  BY <1>1
<1> HIDE DEF row
<1>6. s \in Seq(Seq(Pairs)) /\ Len(s) = n /\ DOMAIN s = 1 .. n /\ \A i \in 1 .. n : s[i] = row(i)
  BY <1>1, <1>4, <1>5
<1> HIDE DEF s
<1>7. /\ Loop \in Seq(Pairs) /\ Len(Loop) = n * m
      /\ \A i \in 1 .. n : \A j \in 1 .. m : \E x \in DOMAIN Loop : Loop[x] = s[i][j]
  <2>1. \A i \in DOMAIN s : Len(s[i]) = m
    BY <1>4, <1>6
  <2>2. s \in Seq(Seq(Pairs)) /\ Len(s) > 0 /\ m \in Nat
    BY <1>1, <1>6
  <2>3. FlattenSeq(s) \in Seq(Pairs) /\ Len(FlattenSeq(s)) = Len(s) * m /\ Covers(FlattenSeq(s), s, m)
    BY <2>1, <2>2, FlattenFacts
  <2> QED
    BY <1>2, <1>6, <2>3 DEF Covers
<1>8. Len(Loop) \in Nat /\ DOMAIN Loop = 1 .. Len(Loop)
  BY <1>7, LenProperties
<1>9. Len(Loop) = Cardinality(Pairs) /\ IsFiniteSet(Pairs)
  BY <1>7, PairFacts DEF n, m
<1>10. \A pair \in Pairs : \E x \in DOMAIN Loop : Loop[x] = pair
  <2> SUFFICES ASSUME NEW pair \in Pairs
               PROVE  \E x \in DOMAIN Loop : Loop[x] = pair
    OBVIOUS
  <2>1. PICK i \in 1 .. n, j \in 1 .. m : pair = <<Arms[i], Seeds[j]>>
    BY <1>1 DEF Pairs, ToSet
  <2>2. s[i][j] = pair
    BY <1>1, <1>6, <2>1 DEF row
  <2> QED
    BY <1>7, <2>2
<1>11. ToSet(Loop) = Pairs
  <2>1. ToSet(Loop) \subseteq Pairs
    BY <1>7, <1>8, ElementOfSeq DEF ToSet
  <2>2. Pairs \subseteq ToSet(Loop)
    BY <1>10 DEF ToSet
  <2> QED
    BY <2>1, <2>2
<1>12. \A i, j \in DOMAIN Loop : Loop[i] = Loop[j] => i = j
  BY <1>7, <1>9, <1>10, NoneTwice
<1> QED
  BY <1>7, <1>8, <1>9, <1>11, <1>12

\* What remains is of the loop, each once, and not in runs.csv.
LEMMA RemainingFacts ==
    /\ Remaining \in Seq(Pairs)
    /\ \A i, j \in DOMAIN Remaining : Remaining[i] = Remaining[j] => i = j
    /\ \A i \in DOMAIN Remaining : Remaining[i] \notin Keys(runs)
<1> DEFINE n == Len(Loop)
           A == Seq(Pairs)
           done == Keys(runs)
           F == [x \in (1 .. n) \X A |-> IF Loop[x[1]] \in done THEN x[2] ELSE Append(x[2], Loop[x[1]])]
           Rest(g) == g = [k \in 0 .. n |->
                        IF k = 0 THEN <<>>
                        ELSE IF Loop[k] \in done THEN g[k-1] ELSE Append(g[k-1], Loop[k])]
           W == CHOOSE g : Rest(g)
<1>1. n \in Nat /\ DOMAIN Loop = 1 .. n /\ \A k \in 1 .. n : Loop[k] \in Pairs
  BY LoopFacts, ElementOfSeq
<1>2. Remaining = W[n]
  BY DEF Remaining
<1>3. F \in [(1 .. n) \X A -> A]
  BY <1>1, AppendProperties
<1>4. <<>> \in A
  OBVIOUS
<1> HIDE DEF done
<1>5. PICK g \in [0 .. n -> A] : Follows(n, <<>>, F, g)
  <2> HIDE DEF F, n, A
  <2> QED
    BY <1>1, <1>3, <1>4, RecursionExists
<1> HIDE DEF n
<1>6. \E h : Rest(h)
  <2>1. \A k \in 0 .. n : k # 0 =>
          F[<<k, g[k-1]>>] = IF Loop[k] \in done THEN g[k-1] ELSE Append(g[k-1], Loop[k])
    <3> SUFFICES ASSUME NEW k \in 0 .. n, k # 0
                 PROVE  F[<<k, g[k-1]>>] =
                          IF Loop[k] \in done THEN g[k-1] ELSE Append(g[k-1], Loop[k])
      OBVIOUS
    <3>1. k \in 1 .. n /\ k - 1 \in 0 .. n
      BY <1>1
    <3>2. g[k-1] \in A
      BY <1>5, <3>1
    <3> HIDE DEF A
    <3> QED
      BY <3>1, <3>2
  <2>2. g = [k \in 0 .. n |-> IF k = 0 THEN <<>> ELSE F[<<k, g[k-1]>>]]
    BY <1>5 DEF Follows
  <2> HIDE DEF F
  <2>3. Rest(g)
    BY <2>1, <2>2
  <2> HIDE DEF Rest
  <2> QED
    BY <2>3
<1>7. Rest(W)
  <2> HIDE DEF Rest
  <2> QED
    BY <1>6
<1> HIDE DEF W, F
<1>8. \A k \in 0 .. n : W[k] = IF k = 0 THEN <<>>
                              ELSE IF Loop[k] \in done THEN W[k-1] ELSE Append(W[k-1], Loop[k])
  BY <1>7
<1> DEFINE Ok(k) == /\ W[k] \in A
                    /\ \A i, j \in DOMAIN W[k] : W[k][i] = W[k][j] => i = j
                    /\ \A i \in DOMAIN W[k] : W[k][i] \notin done /\ \E x \in 1 .. k : W[k][i] = Loop[x]
           Good == {k \in 0 .. n : Ok(k)}
<1>9. 0 \in Good
  <2>1. 0 \in 0 .. n /\ W[0] = <<>>
    BY <1>1, <1>8
  <2>2. DOMAIN <<>> = {}
    OBVIOUS
  <2> QED
    BY <1>4, <2>1, <2>2
<1>10. ASSUME NEW k \in 0 .. n-1, k \in Good
       PROVE  k + 1 \in Good
  <2> DEFINE u == W[k]
             l == k + 1
             e == Loop[l]
  <2>1. l \in 0 .. n /\ l \in 1 .. n /\ l # 0 /\ l - 1 = k /\ \A x \in 1 .. k : x \in 1 .. l /\ x # l
    BY <1>1
  <2>2. W[l] = IF e \in done THEN u ELSE Append(u, e)
    BY <1>8, <2>1
  <2>3. Ok(k)
    BY <1>10
  <2>4. CASE e \in done
    <3>1. W[l] = W[k]
      BY <2>2, <2>4
    <3> HIDE DEF l, e, u, A
    <3> QED
      BY <2>1, <2>3, <3>1 DEF l
  <2>5. CASE e \notin done
    <3>1. u \in A /\ e \in Pairs /\ W[l] = Append(u, e)
      BY <1>1, <2>1, <2>2, <2>3, <2>5
    <3> DEFINE a == W[l]
    <3>2. Len(u) \in Nat /\ DOMAIN u = 1 .. Len(u)
      BY <2>3, LenProperties
    <3>3. /\ a \in A /\ DOMAIN a = 1 .. Len(u) + 1 /\ a[Len(u) + 1] = e
          /\ \A i \in 1 .. Len(u) : a[i] = u[i]
      <4> HIDE DEF u, e, l
      <4> QED
        BY <3>1, <3>2
    <3>4. \A i \in DOMAIN a : i \in DOMAIN u \/ i = Len(u) + 1
      BY <3>2, <3>3
    <3>5. \A i \in DOMAIN u : a[i] = u[i] /\ a[i] \notin done /\ a[i] # e
      <4> SUFFICES ASSUME NEW i \in DOMAIN u
                   PROVE  a[i] = u[i] /\ a[i] \notin done /\ a[i] # e
        OBVIOUS
      <4>1. PICK x \in 1 .. k : u[i] = Loop[x]
        BY <2>3
      <4>2. x \in DOMAIN Loop /\ l \in DOMAIN Loop /\ x # l
        BY <1>1, <2>1, <4>1
      <4>3. Loop[x] # Loop[l]
        BY <4>2, LoopFacts
      <4> QED
        BY <2>3, <3>2, <3>3, <4>1, <4>3
    <3>6. \A i \in DOMAIN a : a[i] \notin done /\ \E x \in 1 .. l : a[i] = Loop[x]
      <4>1. \A i \in DOMAIN u : \E x \in 1 .. k : u[i] = Loop[x]
        BY <2>3
      <4> HIDE DEF a, u
      <4> QED
        BY <2>1, <2>5, <3>3, <3>4, <3>5, <4>1
    <3>7. \A i, j \in DOMAIN a : a[i] = a[j] => i = j
      <4>1. \A i, j \in DOMAIN u : u[i] = u[j] => i = j
        BY <2>3
      <4> HIDE DEF a, u, e
      <4> QED
        BY <3>3, <3>4, <3>5, <4>1
    <3> HIDE DEF l, A
    <3> QED
      BY <2>1, <3>3, <3>6, <3>7 DEF l
  <2> QED
    BY <2>4, <2>5
<1> HIDE DEF Good
<1>11. 0 .. n \subseteq Good
  BY <1>1, <1>9, <1>10, UpToN
<1>12. Ok(n)
  BY <1>1, <1>11 DEF Good
<1> QED
  BY <1>2, <1>12 DEF done

-----------------------------------------------------------------------------
(***************************************************************************)
(* The invariant holds: one lemma per action that disturbs more than pc.   *)
(***************************************************************************)

\* A sequence is one of its own elements.
LEMMA OfItsOwn ==
    ASSUME NEW S, NEW s \in Seq(S)
    PROVE  s \in Seq(ToSet(s))
<1>1. Len(s) \in Nat /\ DOMAIN s = 1 .. Len(s) /\ s \in [1 .. Len(s) -> S]
  BY LenProperties
<1>2. \A i \in 1 .. Len(s) : s[i] \in ToSet(s)
  BY <1>1 DEF ToSet
<1>3. s \in [1 .. Len(s) -> ToSet(s)]
  BY <1>1, <1>2
<1> QED
  BY <1>1, <1>3

\* The collector and the other scripts have not begun.
LEMMA InitCollect == Init => CollectInv
<1> SUFFICES ASSUME Init
             PROVE  CollectInv
  OBVIOUS
<1> USE DEF Init, CollectionInit
<1>1. ASSUME NEW a \in ToSet(Arms)
      PROVE  LeftByRuns(a, NoRun)
  <2>1. NoRun.series = <<>> /\ NoRun.proposals = <<>>
    BY DEF NoRun
  <2>2. PICK seed \in ToSet(Seeds) : TRUE
    BY PairFacts DEF ToSet
  <2>3. 0 \in 0 .. LastRevision
    BY CollectionAssumption
  <2>4. WholeRun(Simulate(0, a, seed))
    BY <2>3, RunsAssumption
  <2>5. /\ Simulate(0, a, seed).series \in Seq([slot : Nat, awake : Nat])
        /\ Simulate(0, a, seed).proposals \in Seq([start : Nat, end : Nat, outcome : STRING])
    BY <2>4 DEF WholeRun, Sound
  <2>6. ASSUME NEW S, NEW new \in Seq(S)
        PROVE  PartOf(new, <<>>)
    <3>1. 0 \in 0 .. Len(new)
      BY LenProperties
    <3>2. SubSeq(new, 1, 0) = <<>>
      BY SubSeqEmpty
    <3> QED
      BY <3>1, <3>2 DEF PartOf
  <2>7. PartOf(Simulate(0, a, seed).series, <<>>) /\ PartOf(Simulate(0, a, seed).proposals, <<>>)
    BY <2>5, <2>6
  <2> QED
    BY <2>1, <2>3, <2>7 DEF LeftByRuns, NoRun
<1>2. ResultsInv
  BY <1>1, CollectionAssumption DEF ResultsInv
<1>3. RunsInv
  BY LoopFacts DEF RunsInv, NoSource
<1>4. TodoInv
  BY DEF TodoInv
<1> QED
  BY <1>2, <1>3, <1>4 DEF CollectInv, RowInv, AuditInv

\* Steps that leave the tables, the results and the work of the collector alone.
LEMMA QuietStep ==
    ASSUME CollectInv, binary' \in 0 .. LastRevision, UNCHANGED <<results, runs, todo, measured, source>>,
           pc' = pc \/ pc' \notin {"run", "append_row", "append_decisions"}
    PROVE  ResultsInv' /\ RunsInv' /\ TodoInv' /\ RowInv'
<1>1. ResultsInv'
  BY DEF CollectInv, ResultsInv
<1>2. RunsInv'
  BY DEF CollectInv, RunsInv, Key
<1>3. TodoInv'
  BY DEF CollectInv, TodoInv, Keys
<1>4. RowInv'
  BY DEF CollectInv, RowInv, Key, Keys
<1> QED
  BY <1>1, <1>2, <1>3, <1>4

\* Steps after which the collector does not run.
LEMMA StopStep ==
    ASSUME CollectInv, UNCHANGED <<binary, results, runs, source>>, Stop
    PROVE  CollectInv'
<1>1. ResultsInv'
  BY DEF CollectInv, ResultsInv
<1>2. RunsInv'
  BY DEF CollectInv, RunsInv, Key
<1>3. TodoInv'
  BY DEF Stop, TodoInv
<1>4. RowInv' /\ AuditInv'
  BY DEF Stop, RowInv, AuditInv
<1> QED
  BY <1>1, <1>2, <1>3, <1>4 DEF CollectInv

\* --force has removed runs.csv.
LEMMA UnlinkRunsStep ==
    ASSUME CollectInv, UnlinkRuns
    PROVE  CollectInv'
<1> USE DEF UnlinkRuns
<1>1. ResultsInv'
  BY DEF CollectInv, ResultsInv
<1>2. RunsInv'
  BY LoopFacts DEF RunsInv, NoSource
<1>3. TodoInv'
  BY DEF CollectInv, TodoInv
<1>4. RowInv' /\ AuditInv'
  BY DEF RowInv, AuditInv
<1> QED
  BY <1>1, <1>2, <1>3, <1>4 DEF CollectInv

\* What remains is taken up.
LEMMA ResumeStep ==
    ASSUME CollectInv, Resume
    PROVE  CollectInv'
<1> USE DEF Resume, files, history
<1>1. ResultsInv'
  BY DEF CollectInv, ResultsInv
<1>2. RunsInv'
  BY DEF CollectInv, RunsInv, Key
<1>3. TodoInv'
  <2>1. todo' = Remaining /\ Keys(runs)' = Keys(runs)
    BY DEF Keys
  <2> QED
    BY <2>1, RemainingFacts DEF TodoInv
<1>4. RowInv' /\ AuditInv'
  BY DEF RowInv, AuditInv
<1> QED
  BY <1>1, <1>2, <1>3, <1>4 DEF CollectInv

\* A simulator that fails to export a file leaves it, or a part of the new one.
LEMMA LeftBehindFacts ==
    ASSUME NEW S, NEW new \in Seq(S), NEW old, NEW failing,
           NEW file \in LeftBehind(failing, old, new)
    PROVE  file = old \/ PartOf(new, file)
<1>1. Len(new) \in Nat
  BY LenProperties
<1>2. new = SubSeq(new, 1, Len(new)) /\ Len(new) \in 0 .. Len(new)
  BY <1>1, SubSeqFull
<1>3. 0 .. Len(new) - 1 \subseteq 0 .. Len(new)
  BY <1>1
<1>4. file = new \/ file = old \/ \E n \in 0 .. Len(new) - 1 : file = SubSeq(new, 1, n)
  BY DEF LeftBehind
<1> QED
  BY <1>2, <1>3, <1>4 DEF PartOf

\* Whichever exports fail, each file of the arm is of some run of it.
LEMMA ExportPairFacts ==
    ASSUME CollectInv, NEW arm \in ToSet(Arms), NEW seed \in ToSet(Seeds),
           ExportPair(arm, Simulate(binary, arm, seed))
    PROVE  /\ results' = [a \in ToSet(Arms) |-> results'[a]]
           /\ \A a \in ToSet(Arms) : LeftByRuns(a, results'[a])
<1> DEFINE made == Simulate(binary, arm, seed)
           old == results[arm]
<1>1. binary \in 0 .. LastRevision /\ results = [a \in ToSet(Arms) |-> results[a]]
      /\ \A a \in ToSet(Arms) : LeftByRuns(a, results[a])
  BY DEF CollectInv, ResultsInv
<1>2. /\ made.series \in Seq([slot : Nat, awake : Nat])
      /\ made.proposals \in Seq([start : Nat, end : Nat, outcome : STRING])
  BY <1>1, RunsAssumption DEF WholeRun, Sound
<1>0. PICK failed \in SUBSET {"series", "proposals"} :
        \E s \in LeftBehind("series" \in failed, old.series, made.series),
           p \in LeftBehind("proposals" \in failed, old.proposals, made.proposals) :
           results' = [results EXCEPT ![arm] = [series |-> s, proposals |-> p]]
  BY DEF ExportPair
<1>3. PICK s \in LeftBehind("series" \in failed, old.series, made.series),
           p \in LeftBehind("proposals" \in failed, old.proposals, made.proposals) :
             results' = [results EXCEPT ![arm] = [series |-> s, proposals |-> p]]
  BY <1>0
<1>4. s = old.series \/ PartOf(made.series, s)
  BY <1>2, <1>3, LeftBehindFacts
<1>5. p = old.proposals \/ PartOf(made.proposals, p)
  BY <1>2, <1>3, LeftBehindFacts
<1>6. LeftByRuns(arm, old)
  BY <1>1
<1> DEFINE new == [series |-> s, proposals |-> p]
<1>7. new.series = s /\ new.proposals = p /\ new = [series |-> new.series, proposals |-> new.proposals]
  OBVIOUS
<1>8. results' = [results EXCEPT ![arm] = new]
  BY <1>3
<1> HIDE DEF new
<1>9. LeftByRuns(arm, new)
  BY <1>1, <1>4, <1>5, <1>6, <1>7 DEF LeftByRuns
<1> HIDE DEF made, old
<1> QED
  BY <1>1, <1>8, <1>9

\* The row measured is of the arm and the seed that were to be run, and it and
\* its decisions were computed from what lies in the files of the arm.
LEMMA MeasureStep ==
    ASSUME CollectInv, Measure
    PROVE  CollectInv'
<1> DEFINE arm == Head(todo)[1]
           seed == Head(todo)[2]
           made == Simulate(binary, arm, seed)
           run == results'[arm]
           row == Row(arm, seed, made.charged, run)
<1>1. Head(todo) \in Pairs
  BY HeadTailProperties DEF CollectInv, TodoInv, Measure
<1>2. arm \in ToSet(Arms) /\ seed \in ToSet(Seeds) /\ Head(todo) = <<arm, seed>>
  BY <1>1, PairFacts
<1>3. ExportPair(arm, made)
  BY DEF Measure
<1>4. /\ pc = "run" /\ todo # <<>> /\ UNCHANGED <<binary, runs, decisions, source, cut>>
      /\ \/ /\ Accepted(made.charged, run) /\ pc' = "append_row" /\ todo' = todo
            /\ measured'.row = <<row>> /\ measured'.decisions = DecisionRows(arm, seed, run)
         \/ Stop
  BY DEF Measure, history
<1>5. ResultsInv'
  BY <1>2, <1>3, <1>4, ExportPairFacts DEF CollectInv, ResultsInv
<1>6. RunsInv'
  BY <1>4 DEF CollectInv, RunsInv, Key
<1>7. TodoInv'
  <2>1. CASE pc' = "append_row" /\ todo' = todo
    BY <1>4, <2>1 DEF CollectInv, TodoInv, Keys
  <2>2. CASE Stop
    BY <2>2 DEF Stop, TodoInv
  <2> QED
    BY <1>4, <2>1, <2>2
<1> HIDE DEF made
<1>8. RowInv'
  <2>1. CASE Stop
    BY <2>1 DEF Stop, RowInv
  <2>2. CASE ~Stop
    <3>1. /\ Accepted(made.charged, run) /\ pc' = "append_row" /\ todo' = todo
          /\ measured'.row = <<row>> /\ measured'.decisions = DecisionRows(arm, seed, run)
      BY <1>4, <2>2
    <3>2. /\ row.arm = arm /\ row.seed = seed
          /\ row.awake = made.charged.awake /\ row.asleep = made.charged.asleep
      BY DEF Row
    <3>3. ComputedFrom(row, run)
      <4> DEFINE charge == Charge(row)
      <4>1. charge.awake = made.charged.awake /\ charge.asleep = made.charged.asleep
        <5> HIDE DEF row
        <5> QED
          BY <3>2 DEF Charge
      <4> HIDE DEF charge
      <4>2. Row(arm, seed, charge, run) = row
        BY <4>1 DEF Row
      <4>3. Accepted(charge, run)
        BY <3>1, <4>1 DEF Accepted
      <4> HIDE DEF row
      <4> QED
        BY <3>2, <4>2, <4>3 DEF ComputedFrom, charge
    <3> HIDE DEF row
    <3>4. <<row>>[1] = row /\ Key(row) = Head(todo)
      BY <1>2, <3>2 DEF Key
    <3>5. measured'.row[1] = row
      BY <3>1, <3>4
    <3> QED
      BY <1>4, <3>1, <3>3, <3>4, <3>5 DEF RowInv, ComputedFrom, Key
  <2> QED
    BY <2>1, <2>2
<1>9. AuditInv'
  BY <1>4 DEF Stop, AuditInv
<1> QED
  BY <1>5, <1>6, <1>7, <1>8, <1>9 DEF CollectInv

\* The row of a run runs.csv did not hold is appended.
LEMMA AppendRowStep ==
    ASSUME CollectInv, AppendRow
    PROVE  CollectInv'
<1> DEFINE row == measured.row[1]
           n == Len(runs)
           X == ToSet(runs) \cup {row}
<1>1. /\ pc = "append_row" /\ pc' = "append_decisions" /\ runs' = runs \o measured.row
      /\ UNCHANGED <<binary, results, decisions, todo, measured>>
      /\ source' = [source EXCEPT ![Head(todo)] = results[Head(todo)[1]]]
  BY DEF AppendRow
<1>2. /\ todo # <<>> /\ measured.row = <<row>> /\ Key(row) = Head(todo)
      /\ ComputedFrom(row, results[Head(todo)[1]])
      /\ measured.decisions = DecisionRows(Head(todo)[1], Head(todo)[2], results[Head(todo)[1]])
  BY <1>1 DEF CollectInv, RowInv
<1>3. todo \in Seq(Pairs)
  BY DEF CollectInv, TodoInv
<1>4. Len(todo) \in Nat /\ DOMAIN todo = 1 .. Len(todo) /\ 1 \in DOMAIN todo /\ Head(todo) = todo[1]
      /\ Head(todo) \in Pairs
  BY <1>2, <1>3
<1>5. runs \in Seq(X) /\ row \in X
  <2>1. runs \in Seq(ToSet(runs))
    BY DEF CollectInv, RunsInv
  <2> QED
    BY <2>1, SeqMonotonic
<1>6. n \in Nat /\ DOMAIN runs = 1 .. n
  BY <1>5, LenProperties
<1> HIDE DEF row, n, X
<1>7. /\ runs' \in Seq(X) /\ DOMAIN runs' = 1 .. n + 1 /\ runs'[n + 1] = row
      /\ \A k \in 1 .. n : runs'[k] = runs[k]
  <2>1. <<row>> \in Seq(X) /\ Len(<<row>>) = 1 /\ <<row>>[1] = row
    BY <1>5
  <2>2. /\ runs' \in Seq(X) /\ Len(runs') = n + 1
        /\ \A k \in 1 .. n + 1 : runs'[k] = IF k <= n THEN runs[k] ELSE <<row>>[k - n]
    <3>1. runs' = runs \o <<row>>
      BY <1>1, <1>2
    <3> QED
      BY <1>5, <2>1, <3>1, ConcatProperties DEF n
  <2>3. DOMAIN runs' = 1 .. n + 1
    BY <2>2, LenProperties
  <2>4. n + 1 \in 1 .. n + 1 /\ ~(n + 1 <= n) /\ (n + 1) - n = 1
        /\ \A k \in 1 .. n : k \in 1 .. n + 1 /\ k <= n
    BY <1>6
  <2> QED
    BY <2>1, <2>2, <2>3, <2>4
<1>8. \A k \in 1 .. n + 1 : k \in 1 .. n \/ k = n + 1
  BY <1>6
<1>9. todo[1] \notin Keys(runs)
  BY <1>1, <1>4 DEF CollectInv, TodoInv
<1>10. \A k \in 1 .. n : Key(runs[k]) \in Pairs /\ Key(runs[k]) # Key(row)
  BY <1>2, <1>4, <1>6, <1>9 DEF CollectInv, RunsInv, Keys, Key
<1>11. ResultsInv'
  BY <1>1 DEF CollectInv, ResultsInv
<1>12. RunsInv'
  <2>1. runs' \in Seq(ToSet(runs'))
    BY <1>7, OfItsOwn
  <2>2. \A k \in DOMAIN runs' : Key(runs'[k]) \in Pairs
    BY <1>2, <1>4, <1>7, <1>8, <1>10
  <2>3. \A j, k \in DOMAIN runs' : Key(runs'[j]) = Key(runs'[k]) => j = k
    <3>1. \A j, k \in 1 .. n : Key(runs[j]) = Key(runs[k]) => j = k
      BY <1>6 DEF CollectInv, RunsInv
    <3> QED
      BY <1>7, <1>8, <1>10, <3>1
  <2>4. source' = [pair \in Pairs |-> source'[pair]] /\ source'[Head(todo)] = results[Head(todo)[1]]
        /\ \A pair \in Pairs : pair # Head(todo) => source'[pair] = source[pair]
    BY <1>1, <1>4 DEF CollectInv, RunsInv
  <2>5. ASSUME NEW k \in DOMAIN runs'
        PROVE  /\ ComputedFrom(runs'[k], source'[Key(runs'[k])])
               /\ LeftByRuns(runs'[k].arm, source'[Key(runs'[k])])
    <3>1. CASE k \in 1 .. n
      <4>1. runs'[k] = runs[k] /\ Key(runs[k]) \in Pairs /\ Key(runs[k]) # Head(todo)
        BY <1>2, <1>7, <1>10, <3>1
      <4>2. /\ ComputedFrom(runs[k], source[Key(runs[k])])
            /\ LeftByRuns(runs[k].arm, source[Key(runs[k])])
        BY <1>6, <3>1 DEF CollectInv, RunsInv
      <4> QED
        BY <2>4, <4>1, <4>2
    <3>2. CASE k = n + 1
      <4>1. runs'[k] = row /\ Key(runs'[k]) = Head(todo) /\ row.arm = Head(todo)[1]
        BY <1>2, <1>7, <3>2 DEF Key
      <4>2. LeftByRuns(row.arm, results[Head(todo)[1]])
        BY <1>4, <4>1, PairFacts DEF CollectInv, ResultsInv
      <4> QED
        BY <1>2, <2>4, <4>1, <4>2
    <3> QED
      BY <1>7, <1>8, <3>1, <3>2
  <2> QED
    BY <2>1, <2>2, <2>3, <2>4, <2>5 DEF RunsInv, Key
<1>13. TodoInv'
  <2>1. \A i \in DOMAIN todo : i # 1 => todo[i] \notin Keys(runs')
    <3> SUFFICES ASSUME NEW i \in DOMAIN todo, i # 1, NEW k \in DOMAIN runs', todo[i] = Key(runs'[k])
                 PROVE  FALSE
      BY DEF Keys, Key
    <3>1. todo[i] # todo[1] /\ todo[i] \notin Keys(runs)
      BY <1>1, <1>4 DEF CollectInv, TodoInv
    <3>2. CASE k \in 1 .. n
      BY <1>6, <1>7, <3>1, <3>2 DEF Keys, Key
    <3>3. CASE k = n + 1
      BY <1>2, <1>4, <1>7, <3>1, <3>3
    <3> QED
      BY <1>7, <1>8, <3>2, <3>3
  <2> QED
    BY <1>1, <1>2, <2>1 DEF CollectInv, TodoInv, Keys
<1>14. RowInv'
  <2>1. Head(todo) \in Keys(runs')
    BY <1>2, <1>7, <1>6 DEF Keys, Key
  <2>2. source'[Head(todo)] = results[Head(todo)[1]]
    BY <1>1, <1>4 DEF CollectInv, RunsInv
  <2> QED
    BY <1>1, <1>2, <2>1, <2>2 DEF RowInv, Keys
<1>15. AuditInv'
  BY <1>1 DEF AuditInv
<1> QED
  BY <1>11, <1>12, <1>13, <1>14, <1>15 DEF CollectInv

\* The run is done.
LEMMA AppendDecisionsStep ==
    ASSUME CollectInv, AppendDecisions
    PROVE  CollectInv'
<1>1. /\ pc = "append_decisions" /\ pc' = "run" /\ todo' = Tail(todo)
      /\ UNCHANGED <<binary, results, runs, source, cut>>
  BY DEF AppendDecisions, history
<1>2. /\ todo \in Seq(Pairs) /\ todo # <<>>
      /\ \A i, j \in DOMAIN todo : todo[i] = todo[j] => i = j
      /\ \A i \in DOMAIN todo : i # 1 => todo[i] \notin Keys(runs)
  BY <1>1 DEF CollectInv, TodoInv
<1>3. Len(todo) \in Nat /\ DOMAIN todo = 1 .. Len(todo)
  BY <1>2, LenProperties
<1>4. /\ Tail(todo) \in Seq(Pairs) /\ Len(Tail(todo)) = Len(todo) - 1
      /\ \A i \in 1 .. Len(Tail(todo)) : Tail(todo)[i] = todo[i + 1]
  BY <1>2, HeadTailProperties
<1>5. \A i \in DOMAIN Tail(todo) : i + 1 \in DOMAIN todo /\ i + 1 # 1 /\ Tail(todo)[i] = todo[i + 1]
                                   /\ i \in Int
  <2>1. DOMAIN Tail(todo) = 1 .. Len(todo) - 1
    BY <1>4, LenProperties
  <2> QED
    BY <1>3, <1>4, <2>1
<1>6. ResultsInv'
  BY <1>1 DEF CollectInv, ResultsInv
<1>7. RunsInv'
  BY <1>1 DEF CollectInv, RunsInv, Key
<1>8. TodoInv'
  <2>1. \A i, j \in DOMAIN Tail(todo) : Tail(todo)[i] = Tail(todo)[j] => i = j
    <3> SUFFICES ASSUME NEW i \in DOMAIN Tail(todo), NEW j \in DOMAIN Tail(todo),
                        Tail(todo)[i] = Tail(todo)[j]
                 PROVE  i = j
      OBVIOUS
    <3>1. i + 1 = j + 1
      BY <1>2, <1>5
    <3> QED
      BY <1>5, <3>1
  <2>2. \A i \in DOMAIN Tail(todo) : Tail(todo)[i] \notin Keys(runs)
    BY <1>2, <1>5
  <2>3. Keys(runs)' = Keys(runs)
    BY <1>1 DEF Keys
  <2> QED
    BY <1>1, <1>4, <2>1, <2>2, <2>3 DEF TodoInv
<1>9. RowInv' /\ AuditInv'
  BY <1>1 DEF RowInv, AuditInv
<1> QED
  BY <1>6, <1>7, <1>8, <1>9 DEF CollectInv

\* The collector, the other scripts, a rebuild and a kill keep the invariant.
LEMMA NextCollect ==
    ASSUME CollectInv, [Next]_vars
    PROVE  CollectInv'
<1>1. binary \in 0 .. LastRevision
  BY DEF CollectInv, ResultsInv
<1> USE DEF files, collector, history, collection, documents
<1>2. ASSUME NEW force \in BOOLEAN, StartCollector(force)
      PROVE  CollectInv'
  <2>1. AuditInv'
    BY <1>2 DEF StartCollector, AuditInv
  <2>2. ResultsInv' /\ RunsInv' /\ TodoInv' /\ RowInv'
    BY <1>1, <1>2, QuietStep DEF StartCollector
  <2> QED
    BY <2>1, <2>2 DEF CollectInv
<1>3. CASE CollectorStep
  <2>1. CASE UnlinkDecisions
    <3>1. AuditInv'
      BY <2>1 DEF UnlinkDecisions, AuditInv
    <3>2. ResultsInv' /\ RunsInv' /\ TodoInv' /\ RowInv'
      BY <1>1, <2>1, QuietStep DEF UnlinkDecisions
    <3> QED
      BY <3>1, <3>2 DEF CollectInv
  <2>2. CASE Complete
    BY <2>2, StopStep DEF Complete
  <2> QED
    BY <1>3, <2>1, <2>2, UnlinkRunsStep, ResumeStep, MeasureStep, AppendRowStep, AppendDecisionsStep
       DEF CollectorStep
<1>4. CASE Rebuild /\ UNCHANGED documents
  <2>1. binary' \in 0 .. LastRevision /\ pc' = pc /\ UNCHANGED <<results, runs, todo, measured, source>>
    BY <1>1, <1>4, CollectionAssumption DEF Rebuild
  <2>2. ResultsInv' /\ RunsInv' /\ TodoInv' /\ RowInv'
    BY <2>1, QuietStep
  <2>3. AuditInv'
    BY <1>4 DEF CollectInv, Rebuild, AuditInv, DataFiles
  <2> QED
    BY <2>2, <2>3 DEF CollectInv
<1>5. CASE Generate \/ WriteSpec \/ WritePatched \/ WriteReport
  <2>1. /\ UNCHANGED <<binary, results, runs, todo, measured, source>>
        /\ pc' \in {"idle", "write_spec", "write_patched"}
    BY <1>5 DEF Generate, WriteSpec, WritePatched, WriteReport
  <2>2. ResultsInv' /\ RunsInv' /\ TodoInv' /\ RowInv'
    BY <1>1, <2>1, QuietStep
  <2>3. AuditInv'
    BY <2>1 DEF AuditInv
  <2> QED
    BY <2>2, <2>3 DEF CollectInv
<1>6. ASSUME NEW data \in DataSets, Audit(data)
      PROVE  CollectInv'
  <2>1. /\ UNCHANGED <<binary, results, runs, todo, measured, source>>
        /\ pc' \in {"idle", "write_report"}
    BY <1>6 DEF Audit
  <2>2. ResultsInv' /\ RunsInv' /\ TodoInv' /\ RowInv'
    BY <1>1, <2>1, QuietStep
  <2>3. AuditInv'
    BY <1>6 DEF Audit, AuditInv, DataFiles
  <2> QED
    BY <2>2, <2>3 DEF CollectInv
<1>7. CASE KillScript
  BY <1>7, StopStep DEF KillScript, Kill
<1>8. CASE UNCHANGED vars
  <2>1. UNCHANGED <<binary, results, runs, todo, measured, source, pc>>
    BY <1>8 DEF vars
  <2>2. ResultsInv' /\ RunsInv' /\ TodoInv' /\ RowInv'
    BY <1>1, <2>1, QuietStep
  <2>3. AuditInv'
    BY <1>8 DEF CollectInv, vars, AuditInv, DataFiles
  <2> QED
    BY <2>2, <2>3 DEF CollectInv
<1> QED
  BY <1>2, <1>3, <1>4, <1>5, <1>6, <1>7, <1>8 DEF Next

(***************************************************************************)
(* Whatever is killed, resumed, rebuilt or not exported, runs.csv never    *)
(* has two rows for the same arm and seed.  A row was computed from two    *)
(* CSVs, each of which some run of the same arm wrote, whole or in part;   *)
(* nothing says that it was the run the row is about, or the same run for  *)
(* both, only that together they passed what collect asserts against the   *)
(* charge that run printed.                                                *)
(***************************************************************************)
THEOREM CollectCorrect == Spec => []CollectInv
<1>1. CollectInv /\ [Next]_vars => CollectInv'
  BY NextCollect
<1> QED
  BY InitCollect, <1>1, PTL DEF Spec

-----------------------------------------------------------------------------
(***************************************************************************)
(* The theorems.                                                           *)
(***************************************************************************)

\* A part of a sequence.
LEMMA PartFacts ==
    ASSUME NEW S, NEW new \in Seq(S), NEW file, PartOf(new, file)
    PROVE  /\ file \in Seq(S) /\ Len(file) \in Nat /\ Len(file) <= Len(new) /\ Len(new) \in Nat
           /\ DOMAIN new = 1 .. Len(new) /\ DOMAIN file = 1 .. Len(file)
           /\ \A i \in DOMAIN file : i \in DOMAIN new /\ file[i] = new[i]
<1>1. PICK n \in 0 .. Len(new) : file = SubSeq(new, 1, n)
  BY DEF PartOf
<1>2. Len(new) \in Nat /\ DOMAIN new = 1 .. Len(new) /\ n \in Nat /\ n <= Len(new)
  BY <1>1, LenProperties
<1>3. \A i \in 1 .. n : new[i] \in S
  BY <1>2, ElementOfSeq
<1>4. /\ file \in Seq(S) /\ Len(file) = IF 1 <= n THEN n - 1 + 1 ELSE 0
      /\ \A i \in 1 .. n - 1 + 1 : file[i] = new[1 + i - 1]
  BY <1>1, <1>2, <1>3, SubSeqProperties
<1>5. Len(file) = n /\ \A i \in 1 .. n : file[i] = new[i]
  BY <1>2, <1>4
<1>6. DOMAIN file = 1 .. n
  BY <1>4, <1>5, LenProperties
<1> QED
  BY <1>2, <1>4, <1>5, <1>6

\* Whatever lies in the files of an arm can be computed with.
LEMMA LeftIsSound ==
    ASSUME NEW arm \in ToSet(Arms), NEW run, LeftByRuns(arm, run)
    PROVE  Sound(run)
<1>1. PICK r1 \in 0 .. LastRevision, seed1 \in ToSet(Seeds) :
        PartOf(Simulate(r1, arm, seed1).series, run.series)
  BY DEF LeftByRuns
<1>2. PICK r2 \in 0 .. LastRevision, seed2 \in ToSet(Seeds) :
        PartOf(Simulate(r2, arm, seed2).proposals, run.proposals)
  BY DEF LeftByRuns
<1> DEFINE one == Simulate(r1, arm, seed1)
           two == Simulate(r2, arm, seed2)
<1>3. Sound(one) /\ Sound(two)
  BY RunsAssumption DEF WholeRun
<1> HIDE DEF one, two
<1>4. run.series \in Seq([slot : Nat, awake : Nat])
  BY <1>1, <1>3, PartFacts DEF Sound, one
<1>5. /\ two.proposals \in Seq([start : Nat, end : Nat, outcome : STRING])
      /\ \A p \in Proposals(two) : two.proposals[p].start <= two.proposals[p].end
      /\ \A c \in 1 .. Len(two.proposals) : Scale % c = 0
  BY <1>3 DEF Sound
<1>6. /\ run.proposals \in Seq([start : Nat, end : Nat, outcome : STRING])
      /\ Len(run.proposals) \in Nat /\ Len(two.proposals) \in Nat
      /\ Len(run.proposals) <= Len(two.proposals)
      /\ \A p \in DOMAIN run.proposals : /\ p \in DOMAIN two.proposals
                                         /\ run.proposals[p] = two.proposals[p]
  <2>1. PartOf(two.proposals, run.proposals)
    BY <1>2 DEF two
  <2> QED
    BY <1>5, <2>1, PartFacts
<1>7. \A c \in 1 .. Len(run.proposals) : Scale % c = 0
  BY <1>5, <1>6
<1> QED
  BY <1>4, <1>5, <1>6, <1>7 DEF Sound, Proposals

\* The CSVs the collector accepts.
LEMMA AcceptedAgree ==
    ASSUME CollectInv
    PROVE  EnergyIsConserved
<1>1. AgreeOnSamples
  BY RunsAssumption, MethodsAgreeOnRuns DEF AgreeOnSamples, Sane, WholeRun
<1>2. ASSUME pc = "append_row", NEW k \in DOMAIN measured.row
      PROVE  MethodsAgree(results[measured.row[k].arm])
  <2> DEFINE row == measured.row[1]
             run == results[Head(todo)[1]]
  <2>1. todo # <<>> /\ measured.row = <<row>> /\ Key(row) = Head(todo)
        /\ ComputedFrom(row, run)
    BY <1>2 DEF CollectInv, RowInv
  <2>2. Head(todo) \in Pairs
    BY <2>1, HeadTailProperties DEF CollectInv, TodoInv
  <2>3. Head(todo)[1] \in ToSet(Arms)
    BY <2>2, PairFacts
  <2>4. Sound(run)
    BY <2>3, LeftIsSound DEF CollectInv, ResultsInv
  <2>5. Sane(run)
    BY <2>1, <2>4 DEF ComputedFrom, Accepted, Sane, RowPerSlot
  <2>6. measured.row[k] = row
    <3> HIDE DEF row
    <3>1. \A r : DOMAIN <<r>> = {1} /\ <<r>>[1] = r
      OBVIOUS
    <3> QED
      BY <1>2, <2>1, <3>1
  <2>7. row.arm = Head(todo)[1]
    BY <2>1 DEF Key
  <2> HIDE DEF run
  <2>8. MethodsAgree(run)
    BY <2>5, MethodsAgreeOnRuns
  <2> QED
    BY <2>6, <2>7, <2>8 DEF run
<1> QED
  BY <1>1, <1>2 DEF EnergyIsConserved

(***************************************************************************)
(* Eq. (5) as plot_stacked_bar.py, plot_paper_energy.py and                *)
(* addition7_collect.py compute it: on the samples, and on all CSVs the    *)
(* collector accepts, be they of two different runs, the three say the     *)
(* same of every decision, and no awake node-slot is lost or shared out    *)
(* twice.                                                                  *)
(***************************************************************************)
THEOREM EnergyCorrect == Spec => []EnergyIsConserved
BY CollectCorrect, AcceptedAgree, PTL

\* A table that passes the check on its size has a row for every pair.
LEMMA TableIsFull ==
    ASSUME CollectInv, Len(runs) = Len(Arms) * Len(Seeds)
    PROVE  Keys(runs) = ToSet(Loop) /\ Len(runs) = Len(Loop)
<1> DEFINE n == Len(runs)
           keys == [k \in DOMAIN runs |-> Key(runs[k])]
<1>1. /\ runs \in Seq(ToSet(runs)) /\ \A k \in DOMAIN runs : Key(runs[k]) \in Pairs
      /\ \A j, k \in DOMAIN runs : Key(runs[j]) = Key(runs[k]) => j = k
  BY DEF CollectInv, RunsInv
<1>2. n \in Nat /\ DOMAIN runs = 1 .. n
  BY <1>1, LenProperties
<1>3. keys = [k \in 1 .. n |-> keys[k]] /\ \A k \in 1 .. n : keys[k] = Key(runs[k])
  BY <1>2
<1> HIDE DEF n, keys
<1>4. \A k \in 1 .. n : keys[k] \in Pairs
  BY <1>1, <1>2, <1>3
<1>5. keys \in [1 .. n -> Pairs]
  BY <1>3, <1>4
<1>6. keys \in Seq(Pairs) /\ Len(keys) = n /\ DOMAIN keys = 1 .. n
  BY <1>2, <1>5
<1>7. \A j, k \in DOMAIN keys : keys[j] = keys[k] => j = k
  BY <1>1, <1>2, <1>3, <1>6
<1>8. Cardinality(ToSet(keys)) = n /\ ToSet(keys) \in SUBSET Pairs
  BY <1>6, <1>7, NoDoubles
<1>9. IsFiniteSet(Pairs) /\ Cardinality(Pairs) = n
  BY PairFacts DEF n
<1>10. ToSet(keys) = Pairs
  BY <1>8, <1>9, FS_Subset
<1>11. Keys(runs) = ToSet(keys)
  <2>1. Keys(runs) = {Key(runs[k]) : k \in 1 .. n}
    BY <1>2 DEF Keys, Key
  <2>2. ToSet(keys) = {keys[k] : k \in 1 .. n}
    BY <1>6 DEF ToSet
  <2> QED
    BY <1>3, <2>1, <2>2
<1> QED
  BY <1>9, <1>10, <1>11, LoopFacts DEF n

(***************************************************************************)
(* A report of check_patch_spec.py is about a specification that has       *)
(* blocks, whose every decimal is the rounding of a quantity recomputed,   *)
(* and about a complete runs.csv: the script checks no more than its size, *)
(* from which it follows that every arm and seed is in it, once, because   *)
(* no collector, however it was killed and resumed, has made a double row. *)
(***************************************************************************)
THEOREM ReportCorrect == Spec => ReportMeansReproduced
<1> DEFINE Says(data) ==
             /\ spec.rows # <<>> /\ Keys(runs) = ToSet(Loop) /\ Len(runs) = Len(Loop)
             /\ \A lit \in Decimals(spec.rows) :
                  \E q \in Quantities(DataFiles(data)) : Printed(q, lit.places) = lit.digits
<1>1. ASSUME CollectInv, WriteReport, NEW data \in report.data
      PROVE  Says(data)
  <2>1. ~AuditFails(DataFiles(data))
    BY <1>1 DEF CollectInv, AuditInv, WriteReport
  <2>2. ~DutyFails(DataFiles(data).runs)
        /\ ~LiteralsFail(DataFiles(data).spec, Quantities(DataFiles(data)))
    BY <2>1 DEF AuditFails
  <2>3. DataFiles(data).runs.rows = runs /\ DataFiles(data).spec = spec
    BY DEF DataFiles
  <2>4. Len(runs) = Len(Arms) * Len(Seeds)
    BY <2>2, <2>3 DEF DutyFails, Sizes
  <2>5. Keys(runs) = ToSet(Loop) /\ Len(runs) = Len(Loop)
    BY <1>1, <2>4, TableIsFull
  <2>6. spec.rows # <<>> /\ \A lit \in Decimals(spec.rows) :
                               Reproduced(lit, Quantities(DataFiles(data)))
    BY <2>2, <2>3 DEF LiteralsFail
  <2> QED
    BY <2>5, <2>6 DEF Reproduced
<1>2. CollectInv /\ [Next]_vars => [WriteReport => \A data \in report.data : Says(data)]_vars
  BY <1>1
<1> QED
  BY CollectCorrect, <1>2, PTL DEF Spec, ReportMeansReproduced

-----------------------------------------------------------------------------
(***************************************************************************)
(* What a clean reconciliation says.                                       *)
(***************************************************************************)

\* One row of decisions.csv for every committed proposal.
OwnRows(arm, seed, run) == {DecisionRow(arm, seed, run, p) : p \in Committed(run)}
LEMMA DecisionRowsFacts ==
    ASSUME NEW run, Sound(run), NEW arm, NEW seed
    PROVE  LET rows == DecisionRows(arm, seed, run)
               S == OwnRows(arm, seed, run)
           IN /\ rows \in Seq(S) /\ Len(rows) = Cardinality(Committed(run))
              /\ \A s \in S : \E i \in DOMAIN rows : rows[i] = s
<1> DEFINE n == Len(run.proposals)
           C == Committed(run)
           r(p) == DecisionRow(arm, seed, run, p)
           S == {r(p) : p \in C}
           A == Seq(S)
           F == [x \in (1 .. n) \X A |-> IF x[1] \notin C THEN x[2] ELSE Append(x[2], r(x[1]))]
           Goes(g) == g = [p \in 0 .. n |->
                        IF p = 0 THEN <<>>
                        ELSE IF p \notin C THEN g[p-1] ELSE Append(g[p-1], r(p))]
           W == CHOOSE g : Goes(g)
<1>1. n \in Nat /\ C \subseteq 1 .. n
  BY LenProperties DEF Sound, Committed, Proposals
<1>0. \A p \in C : p \in Int /\ 0 < p /\ p <= n
  <2> HIDE DEF C, n
  <2> QED
    BY <1>1
<1>2. DecisionRows(arm, seed, run) = W[n]
  BY DEF DecisionRows
<1> HIDE DEF C, n
<1> HIDE DEF r
<1>3. F \in [(1 .. n) \X A -> A]
  <2> SUFFICES ASSUME NEW x \in (1 .. n) \X A
               PROVE  (IF x[1] \notin C THEN x[2] ELSE Append(x[2], r(x[1]))) \in A
    OBVIOUS
  <2>1. x[1] \in C => r(x[1]) \in S
    OBVIOUS
  <2> HIDE DEF S
  <2> QED
    BY <2>1
<1> HIDE DEF S
<1>4. <<>> \in A
  OBVIOUS
<1>5. PICK g \in [0 .. n -> A] : Follows(n, <<>>, F, g)
  <2> HIDE DEF F, A
  <2> QED
    BY <1>1, <1>3, <1>4, RecursionExists
<1>6. \E h : Goes(h)
  <2>1. \A p \in 0 .. n : p # 0 =>
          F[<<p, g[p-1]>>] = IF p \notin C THEN g[p-1] ELSE Append(g[p-1], r(p))
    <3> SUFFICES ASSUME NEW p \in 0 .. n, p # 0
                 PROVE  F[<<p, g[p-1]>>] = IF p \notin C THEN g[p-1] ELSE Append(g[p-1], r(p))
      OBVIOUS
    <3>1. p \in 1 .. n /\ p - 1 \in 0 .. n
      BY <1>1
    <3>2. g[p-1] \in A
      BY <1>5, <3>1
    <3> HIDE DEF A
    <3> QED
      BY <3>1, <3>2
  <2>2. g = [p \in 0 .. n |-> IF p = 0 THEN <<>> ELSE F[<<p, g[p-1]>>]]
    BY <1>5 DEF Follows
  <2> HIDE DEF F
  <2>3. Goes(g)
    BY <2>1, <2>2
  <2> HIDE DEF Goes
  <2> QED
    BY <2>3
<1>7. Goes(W)
  <2> HIDE DEF Goes
  <2> QED
    BY <1>6
<1> HIDE DEF W, F
<1>8. \A p \in 0 .. n : W[p] = IF p = 0 THEN <<>>
                              ELSE IF p \notin C THEN W[p-1] ELSE Append(W[p-1], r(p))
  BY <1>7
<1> HIDE DEF Goes
<1> DEFINE upto(k) == {p \in C : p <= k}
           Ok(k) == /\ W[k] \in A /\ IsFiniteSet(upto(k)) /\ Len(W[k]) = Cardinality(upto(k))
                    /\ \A p \in upto(k) : \E i \in DOMAIN W[k] : W[k][i] = r(p)
           Good == {k \in 0 .. n : Ok(k)}
<1>9. 0 \in Good
  <2>1. 0 \in 0 .. n /\ W[0] = <<>>
    BY <1>1, <1>8
  <2>2. upto(0) = {}
    BY <1>0
  <2> HIDE DEF A, upto
  <2> QED
    BY <1>4, <2>1, <2>2, FS_EmptySet
<1>10. ASSUME NEW k \in 0 .. n-1, k \in Good
       PROVE  k + 1 \in Good
  <2> DEFINE u == W[k]
             l == k + 1
  <2>1. l \in 0 .. n /\ l # 0 /\ l - 1 = k
    BY <1>1
  <2>2. W[l] = IF l \notin C THEN u ELSE Append(u, r(l))
    BY <1>8, <2>1
  <2>3. Ok(k)
    BY <1>10
  <2>4. CASE l \notin C
    <3>1. W[l] = W[k]
      BY <2>2, <2>4
    <3>2. upto(l) = upto(k)
      <4>1. \A p \in C : p <= l <=> p <= k
        BY <1>0, <2>4
      <4> QED
        BY <4>1
    <3> HIDE DEF l, u, A, upto
    <3> QED
      BY <2>1, <2>3, <3>1, <3>2 DEF l
  <2>5. CASE l \in C
    <3>1. u \in A /\ r(l) \in S /\ W[l] = Append(u, r(l))
      BY <2>2, <2>3, <2>5 DEF S
    <3> DEFINE a == W[l]
    <3>2. Len(u) \in Nat /\ DOMAIN u = 1 .. Len(u)
      BY <2>3, LenProperties
    <3>3. /\ a \in A /\ Len(a) = Len(u) + 1 /\ DOMAIN a = 1 .. Len(u) + 1 /\ a[Len(u) + 1] = r(l)
          /\ \A i \in 1 .. Len(u) : a[i] = u[i]
      <4> HIDE DEF u, l
      <4> QED
        BY <3>1, <3>2
    <3>4. upto(l) = upto(k) \cup {l} /\ l \notin upto(k)
      <4>1. \A p \in C : p <= l <=> p <= k \/ p = l
        BY <1>0
      <4> QED
        BY <2>5, <4>1
    <3>5. IsFiniteSet(upto(l)) /\ Cardinality(upto(l)) = Cardinality(upto(k)) + 1
      <4> HIDE DEF upto, l
      <4> QED
        BY <2>3, <3>4, FS_AddElement
    <3>6. \A p \in upto(l) : \E i \in DOMAIN a : a[i] = r(p)
      <4> SUFFICES ASSUME NEW p \in upto(l)
                   PROVE  \E i \in DOMAIN a : a[i] = r(p)
        OBVIOUS
      <4>1. CASE p = l
        BY <3>2, <3>3, <4>1
      <4>2. CASE p \in upto(k)
        <5>1. PICK i \in DOMAIN u : u[i] = r(p)
          BY <2>3, <4>2
        <5>2. i \in 1 .. Len(u) /\ i \in 1 .. Len(u) + 1
          BY <3>2, <5>1
        <5> HIDE DEF a, u
        <5> QED
          BY <3>3, <5>1, <5>2
      <4> HIDE DEF l, upto
      <4> QED
        BY <3>4, <4>1, <4>2
    <3> HIDE DEF l, A, upto
    <3> QED
      BY <2>1, <2>3, <3>3, <3>5, <3>6 DEF l
  <2> QED
    BY <2>4, <2>5
<1> HIDE DEF Good
<1>11. 0 .. n \subseteq Good
  BY <1>1, <1>9, <1>10, UpToN
<1>12. Ok(n)
  <2>1. n \in Good
    BY <1>1, <1>11
  <2> HIDE DEF Ok
  <2> QED
    BY <2>1 DEF Good
<1>13. upto(n) = C
  BY <1>0
<1>14. S = OwnRows(arm, seed, run)
  BY DEF S, r, C, OwnRows
<1>15. \A s \in S : \E p \in C : s = r(p)
  BY DEF S
<1> HIDE DEF upto
<1> QED
  BY <1>2, <1>12, <1>13, <1>14, <1>15 DEF C

\* A run has finitely many proposals.
LEMMA CommittedIsFinite ==
    ASSUME NEW run, Sound(run)
    PROVE  IsFiniteSet(Committed(run))
<1> DEFINE n == Len(run.proposals)
<1>1. n \in Nat /\ DOMAIN run.proposals = 1 .. n
  BY LenProperties DEF Sound
<1>2. Committed(run) \in SUBSET (1 .. n)
  BY <1>1 DEF Committed, Proposals
<1>3. IsFiniteSet(1 .. n)
  BY <1>1, FS_Interval
<1> HIDE DEF n
<1> QED
  BY <1>2, <1>3, FS_Subset

\* The CSVs a row of runs.csv was computed from can be computed with.
LEMMA SourceFacts ==
    ASSUME CollectInv, NEW pair \in Keys(runs)
    PROVE  /\ Sound(source[pair]) /\ IsFiniteSet(Committed(source[pair]))
           /\ \E k \in DOMAIN runs :
                Key(runs[k]) = pair /\ ComputedFrom(runs[k], source[pair])
<1>1. PICK k \in DOMAIN runs : Key(runs[k]) = pair
  BY DEF Keys, Key
<1>2. /\ ComputedFrom(runs[k], source[pair]) /\ LeftByRuns(runs[k].arm, source[pair])
      /\ pair \in Pairs
  BY <1>1 DEF CollectInv, RunsInv
<1>3. runs[k].arm \in ToSet(Arms)
  BY <1>1, <1>2, PairFacts DEF Key
<1>4. Sound(source[pair])
  BY <1>2, <1>3, LeftIsSound
<1>5. IsFiniteSet(Committed(source[pair]))
  BY <1>4, CommittedIsFinite
<1> QED
  BY <1>1, <1>2, <1>4, <1>5

\* A table with one row more.
LEMMA KeysOfAppended ==
    ASSUME NEW T, NEW table \in Seq(T), NEW row
    PROVE  Keys(table \o <<row>>) = Keys(table) \cup {Key(row)}
<1> DEFINE n == Len(table)
           longer == table \o <<row>>
<1>1. n \in Nat /\ DOMAIN table = 1 .. n
  BY LenProperties
<1>2. DOMAIN longer = 1 .. n + 1 /\ longer[n + 1] = row /\ \A k \in 1 .. n : longer[k] = table[k]
  BY <1>1
<1> HIDE DEF n, longer
<1>3. \A k \in 1 .. n + 1 : k \in 1 .. n \/ k = n + 1
  BY <1>1
<1>4. n + 1 \in 1 .. n + 1 /\ \A k \in 1 .. n : k \in 1 .. n + 1
  BY <1>1
<1>5. Keys(longer) = Keys(table) \cup {Key(row)}
  BY <1>1, <1>2, <1>3, <1>4 DEF Keys, Key
<1> QED
  BY <1>5 DEF longer

\* Where the ledger stands with a pair: no kill has come between the two
\* removals of --force; the decisions of the pair are being appended; what it
\* has in decisions.csv is, if their number is right, what it should have.
Cleared == ~cut.removal /\ pc # "unlink_decisions"
Inflight(pair) == pc = "append_decisions" /\ Head(todo) = pair
Held(pair) == DecisionsOf(pair[1], pair[2])
ExactIfCounted(pair) ==
    Cardinality(Held(pair)) = Cardinality(Committed(source[pair])) =>
        {decisions[k] : k \in Held(pair)} = OwnRows(pair[1], pair[2], source[pair])

\* decisions.csv has no rows of a pair before its row is in runs.csv, unless the
\* removal was cut short; and afterwards it has them exactly, if as many as
\* runs.csv says, unless both the removal and the append were cut short.
LedgerInv ==
    /\ decisions \in Seq(ToSet(decisions))
    /\ cut = [appends |-> cut.appends, removal |-> cut.removal] /\ cut.removal \in BOOLEAN
    /\ \A pair \in Pairs :
         /\ Cleared /\ (pair \notin Keys(runs) \/ Inflight(pair)) => Held(pair) = {}
         /\ pair \in Keys(runs) /\ ~Inflight(pair) /\ ~(cut.removal /\ pair \in cut.appends) =>
              ExactIfCounted(pair)

\* Nothing has been collected.
LEMMA InitLedger == Init => LedgerInv
<1> SUFFICES ASSUME Init
             PROVE  LedgerInv
  OBVIOUS
<1>1. runs = <<>> /\ decisions = <<>> /\ cut = [appends |-> {}, removal |-> FALSE]
  BY DEF Init, CollectionInit, NoCut
<1>2. Keys(runs) = {} /\ \A pair \in Pairs : Held(pair) = {}
  BY <1>1 DEF Keys, Held, DecisionsOf
<1> QED
  BY <1>1, <1>2 DEF LedgerInv

\* Steps that append nothing and do not come into or out of an append.
LEMMA QuietLedger ==
    ASSUME LedgerInv, UNCHANGED <<decisions, runs, source>>,
           cut' = [appends |-> cut'.appends, removal |-> cut'.removal], cut'.removal \in BOOLEAN,
           Cleared' => Cleared, cut.removal => cut'.removal, cut.appends \subseteq cut'.appends,
           \A pair \in Pairs : Inflight(pair)' = Inflight(pair)
    PROVE  LedgerInv'
<1>1. ASSUME NEW pair \in Pairs
      PROVE  Held(pair)' = Held(pair) /\ ExactIfCounted(pair)' = ExactIfCounted(pair)
  BY DEF Held, DecisionsOf, ExactIfCounted
<1>2. Keys(runs)' = Keys(runs)
  BY DEF Keys
<1> QED
  BY <1>1, <1>2 DEF LedgerInv

\* --force has removed one of the two files.
LEMMA UnlinkLedger ==
    ASSUME LedgerInv, CollectInv, UnlinkRuns \/ UnlinkDecisions
    PROVE  LedgerInv'
<1>1. CASE UnlinkRuns
  <2>1. /\ Keys(runs)' = {} /\ ~Cleared' /\ UNCHANGED decisions
        /\ cut' = [cut EXCEPT !.appends = {}]
    BY <1>1 DEF UnlinkRuns, Keys, Cleared
  <2>2. cut' = [appends |-> cut'.appends, removal |-> cut'.removal] /\ cut'.removal = cut.removal
    BY <2>1 DEF LedgerInv
  <2> QED
    BY <2>1, <2>2 DEF LedgerInv
<1>2. CASE UnlinkDecisions
  <2>1. /\ decisions' = <<>> /\ UNCHANGED <<runs, source>>
        /\ cut' = [appends |-> {}, removal |-> FALSE]
    BY <1>2 DEF UnlinkDecisions, NoCut
  <2>2. ASSUME NEW pair \in Pairs
        PROVE  Held(pair)' = {} /\ (pair \in Keys(runs) => ExactIfCounted(pair)')
    <3>1. Held(pair)' = {}
      BY <2>1 DEF Held, DecisionsOf
    <3>2. ASSUME pair \in Keys(runs)
          PROVE  ExactIfCounted(pair)'
      <4>1. IsFiniteSet(Committed(source[pair]))
        BY <3>2, SourceFacts
      <4>2. Cardinality({}) = Cardinality(Committed(source[pair])) => Committed(source[pair]) = {}
        BY <4>1, FS_EmptySet
      <4> QED
        BY <2>1, <3>1, <4>2 DEF ExactIfCounted, OwnRows
    <3> QED
      BY <3>1, <3>2
  <2>3. decisions' \in Seq(ToSet(decisions'))
    BY <2>1
  <2>4. Keys(runs)' = Keys(runs)
    BY <2>1 DEF Keys
  <2> QED
    BY <2>1, <2>2, <2>3, <2>4 DEF LedgerInv
<1> QED
  BY <1>1, <1>2

\* The row of the pair is in runs.csv, and its decisions are now to come.
LEMMA AppendRowLedger ==
    ASSUME LedgerInv, CollectInv, AppendRow
    PROVE  LedgerInv'
<1>1. /\ pc = "append_row" /\ pc' = "append_decisions"
      /\ UNCHANGED <<decisions, todo, cut>>
      /\ runs' = runs \o measured.row /\ source' = [source EXCEPT ![Head(todo)] = results[Head(todo)[1]]]
  BY DEF AppendRow
<1>2. todo # <<>> /\ todo \in Seq(Pairs) /\ Head(todo) \in Pairs /\ Head(todo) \notin Keys(runs)
  BY <1>1 DEF CollectInv, TodoInv, RowInv
<1>3. Keys(runs') = Keys(runs) \cup {Head(todo)}
  <2>1. measured.row = <<measured.row[1]>> /\ Key(measured.row[1]) = Head(todo)
    BY <1>1 DEF CollectInv, RowInv
  <2> QED
    BY <1>1, <2>1, KeysOfAppended DEF CollectInv, RunsInv
<1>4. Cleared' <=> Cleared
  BY <1>1 DEF Cleared
<1>5. ASSUME NEW pair \in Pairs
      PROVE  /\ Held(pair)' = Held(pair) /\ ~Inflight(pair)
             /\ Inflight(pair)' <=> pair = Head(todo)
             /\ pair # Head(todo) => ExactIfCounted(pair)' = ExactIfCounted(pair)
  <2>1. Held(pair)' = Held(pair)
    BY <1>1 DEF Held, DecisionsOf
  <2>2. ~Inflight(pair) /\ (Inflight(pair)' <=> pair = Head(todo))
    BY <1>1 DEF Inflight
  <2>3. pair # Head(todo) => source'[pair] = source[pair]
    BY <1>1 DEF CollectInv, RunsInv
  <2> QED
    BY <1>1, <2>1, <2>2, <2>3 DEF ExactIfCounted
<1> HIDE DEF Pairs
<1>6. ASSUME NEW pair \in Pairs
      PROVE  /\ Cleared' /\ (pair \notin Keys(runs') \/ Inflight(pair)') => Held(pair)' = {}
             /\ pair \in Keys(runs') /\ ~Inflight(pair)' /\ ~(cut.removal /\ pair \in cut.appends) =>
                  ExactIfCounted(pair)'
  BY <1>2, <1>3, <1>4, <1>5 DEF LedgerInv
<1> QED
  BY <1>1, <1>6 DEF LedgerInv

\* The n positions after l.
After(l, n) == {l + i : i \in 1 .. n}
LEMMA ShiftFacts ==
    ASSUME NEW l \in Nat, NEW n \in Nat, NEW held \in SUBSET (1 .. l)
    PROVE  /\ IsFiniteSet(held) /\ Cardinality(held) \in Nat
           /\ Cardinality(held \cup After(l, n)) = Cardinality(held) + n
<1> DEFINE added == After(l, n)
           f == [i \in 1 .. n |-> l + i]
<1>1. f \in Surjection(1 .. n, added) /\ f \in Injection(1 .. n, added)
  <2>1. \A i \in 1 .. n : l + i \in added
    BY DEF After
  <2>2. \A k \in added : \E i \in 1 .. n : k = l + i
    BY DEF After
  <2>3. \A i, j \in 1 .. n : l + i = l + j => i = j
    OBVIOUS
  <2> HIDE DEF added
  <2>4. f \in [1 .. n -> added] /\ DOMAIN f = 1 .. n /\ \A i \in 1 .. n : f[i] = l + i
    BY <2>1
  <2> HIDE DEF f
  <2> QED
    BY <2>2, <2>3, <2>4 DEF Surjection, Injection, IsInjective
<1>2. /\ IsFiniteSet(1 .. n) /\ Cardinality(1 .. n) = n
      /\ IsFiniteSet(1 .. l)
  BY FS_Interval
<1>3. held \cap added = {}
  BY DEF After
<1> HIDE DEF f, added
<1>4. IsFiniteSet(added) /\ Cardinality(added) = n
  BY <1>1, <1>2, FS_Surjection
<1>5. IsFiniteSet(held) /\ Cardinality(held) \in Nat
  BY <1>2, FS_Subset, FS_CardinalityType
<1>6. Cardinality(held \cup added) = Cardinality(held) + n - Cardinality({})
  BY <1>3, <1>4, <1>5, FS_Union
<1>7. Cardinality({}) = 0
  BY FS_EmptySet
<1> QED
  BY <1>5, <1>6, <1>7 DEF added

\* Some of the decisions of a pair are appended: the others keep theirs, and the
\* pair has exactly its own if those are all, or it had none before.
LEMMA AppendFacts ==
    ASSUME CollectInv, decisions \in Seq(ToSet(decisions)),
           NEW pair \in Keys(runs), NEW rows, rows = DecisionRows(pair[1], pair[2], source[pair]),
           NEW n \in 0 .. Len(rows), decisions' = decisions \o SubSeq(rows, 1, n),
           UNCHANGED source
    PROVE  /\ decisions' \in Seq(ToSet(decisions'))
           /\ \A other \in Pairs : other # pair =>
                Held(other)' = Held(other) /\ (ExactIfCounted(other) => ExactIfCounted(other)')
           /\ n = Len(rows) \/ Held(pair) = {} => ExactIfCounted(pair)'
<1> DEFINE run == source[pair]
           S == OwnRows(pair[1], pair[2], run)
           l == Len(decisions)
           X == ToSet(decisions) \cup S
<1>1. pair \in Pairs /\ pair = <<pair[1], pair[2]>>
  BY PairFacts DEF CollectInv, RunsInv, Keys, Key
<1>2. Sound(run) /\ IsFiniteSet(Committed(run))
  BY SourceFacts
<1>3. /\ rows \in Seq(S) /\ Len(rows) = Cardinality(Committed(run))
      /\ \A s \in S : \E i \in DOMAIN rows : rows[i] = s
  BY <1>2, DecisionRowsFacts
<1>4. \A s \in S : s.arm = pair[1] /\ s.seed = pair[2]
  BY DEF DecisionRow, OwnRows
<1> HIDE DEF run, S
<1>5. decisions \in Seq(ToSet(decisions))
  OBVIOUS
<1>6. l \in Nat /\ DOMAIN decisions = 1 .. l /\ decisions \in Seq(X) /\ rows \in Seq(X)
      /\ Len(rows) \in Nat /\ n \in Nat /\ n <= Len(rows) /\ DOMAIN rows = 1 .. Len(rows)
  <2>1. decisions \in Seq(X) /\ rows \in Seq(X)
    BY <1>3, <1>5, SeqMonotonic
  <2> HIDE DEF X
  <2> QED
    BY <2>1, LenProperties
<1> HIDE DEF X, l
<1>7. /\ decisions' \in Seq(X) /\ DOMAIN decisions' = 1 .. l + n
      /\ \A k \in 1 .. l : decisions'[k] = decisions[k]
      /\ \A k \in 1 .. n : decisions'[l + k] = rows[k]
  <2> DEFINE new == SubSeq(rows, 1, n)
  <2>1. new \in Seq(X) /\ Len(new) = n /\ \A k \in 1 .. n : new[k] = rows[k]
    <3>1. \A i \in 1 .. n : rows[i] \in X
      BY <1>6, ElementOfSeq
    <3>2. /\ new \in Seq(X) /\ Len(new) = IF 1 <= n THEN n - 1 + 1 ELSE 0
          /\ \A i \in 1 .. n - 1 + 1 : new[i] = rows[1 + i - 1]
      BY <1>6, <3>1, SubSeqProperties
    <3> HIDE DEF new
    <3>3. n - 1 + 1 = n /\ \A i \in 1 .. n : 1 + i - 1 = i
      BY <1>6
    <3>4. Len(new) = n
      BY <1>6, <3>2
    <3> QED
      BY <3>2, <3>3, <3>4
  <2>2. decisions' = decisions \o new
    OBVIOUS
  <2> HIDE DEF new
  <2>3. /\ decisions' \in Seq(X) /\ Len(decisions') = l + n
        /\ \A k \in 1 .. l + n : decisions'[k] = IF k <= l THEN decisions[k] ELSE new[k - l]
    BY <1>6, <2>1, <2>2, ConcatProperties DEF l
  <2>4. DOMAIN decisions' = 1 .. l + n
    BY <2>3, LenProperties
  <2>5. \A k \in 1 .. n : l + k \in 1 .. l + n /\ ~(l + k <= l) /\ (l + k) - l = k
    BY <1>6
  <2>6. \A k \in 1 .. l : k \in 1 .. l + n /\ k <= l
    BY <1>6
  <2>7. \A k \in 1 .. l : decisions'[k] = decisions[k]
    BY <2>3, <2>6
  <2>8. ASSUME NEW k \in 1 .. n
        PROVE  decisions'[l + k] = rows[k]
    <3>1. decisions'[l + k] = new[(l + k) - l]
      BY <2>3, <2>5
    <3>2. (l + k) - l = k
      BY <2>5
    <3> QED
      BY <2>1, <3>1, <3>2
  <2> QED
    BY <2>3, <2>4, <2>7, <2>8
<1>8. \A k \in 1 .. n : rows[k] \in S
  BY <1>3, <1>6, ElementOfSeq
<1>9. ASSUME NEW k \in DOMAIN decisions'
      PROVE  k \in 1 .. l \/ \E i \in 1 .. n : k = l + i
  <2>1. k \in 1 .. l \/ (k - l \in 1 .. n /\ k = l + (k - l))
    BY <1>6, <1>7
  <2> QED
    BY <2>1
<1>10. \A i \in 1 .. n : l + i \in DOMAIN decisions' /\ l + i \notin 1 .. l
  BY <1>6, <1>7
<1>11. \A k \in 1 .. l : k \in DOMAIN decisions'
  BY <1>6, <1>7
<1> DEFINE added == After(l, n)
<1>12. ASSUME NEW other \in Pairs, other # pair
       PROVE  Held(other)' = Held(other) /\ (ExactIfCounted(other) => ExactIfCounted(other)')
  <2>1. other = <<other[1], other[2]>>
    BY PairFacts
  <2>2. \A i \in 1 .. n : l + i \notin Held(other)'
    BY <1>1, <1>4, <1>7, <1>8, <1>12, <2>1 DEF Held, DecisionsOf
  <2>3. \A k \in 1 .. l : k \in Held(other)' <=> k \in Held(other)
    BY <1>6, <1>7, <1>11 DEF Held, DecisionsOf
  <2>4. Held(other) \subseteq 1 .. l /\ Held(other)' \subseteq DOMAIN decisions'
    BY <1>6 DEF Held, DecisionsOf
  <2>5. Held(other)' = Held(other)
    BY <1>9, <2>2, <2>3, <2>4
  <2>6. {decisions'[k] : k \in Held(other)} = {decisions[k] : k \in Held(other)}
    <3>1. \A k \in 1 .. l : decisions'[k] = decisions[k]
      BY <1>7
    <3>2. \A k \in Held(other) : decisions'[k] = decisions[k]
      BY <2>4, <3>1, Zenon
    <3> QED
      BY <3>2, Zenon
  <2> QED
    BY <2>5, <2>6 DEF ExactIfCounted
<1>13. Held(pair)' = Held(pair) \cup added /\ Held(pair) \subseteq 1 .. l
  <2>1. \A i \in 1 .. n : l + i \in Held(pair)'
    BY <1>4, <1>7, <1>8, <1>10 DEF Held, DecisionsOf
  <2>2. \A k \in 1 .. l : k \in Held(pair)' <=> k \in Held(pair)
    BY <1>6, <1>7, <1>11 DEF Held, DecisionsOf
  <2>3. Held(pair) \subseteq 1 .. l /\ Held(pair)' \subseteq DOMAIN decisions'
    BY <1>6 DEF Held, DecisionsOf
  <2> QED
    BY <1>9, <2>1, <2>2, <2>3 DEF After
<1>14. /\ Cardinality(Held(pair)') = Cardinality(Held(pair)) + n
       /\ IsFiniteSet(Held(pair)) /\ Cardinality(Held(pair)) \in Nat
  <2> DEFINE held == Held(pair)
  <2>1. held \in SUBSET (1 .. l)
    BY <1>13
  <2>2. Held(pair)' = held \cup After(l, n)
    BY <1>13
  <2> HIDE DEF held
  <2>3. /\ IsFiniteSet(held) /\ Cardinality(held) \in Nat
        /\ Cardinality(held \cup After(l, n)) = Cardinality(held) + n
    BY <1>6, <2>1, ShiftFacts
  <2> QED
    BY <2>2, <2>3 DEF held
<1>15. ASSUME n = Len(rows) \/ Held(pair) = {}
       PROVE  ExactIfCounted(pair)'
  <2> SUFFICES ASSUME Cardinality(Held(pair)') = Cardinality(Committed(run))
               PROVE  {decisions'[k] : k \in Held(pair)'} = S
    BY DEF ExactIfCounted, run, S
  <2>2. n = Len(rows) /\ Held(pair) = {}
    <3>1. Cardinality(Held(pair)) + n = Len(rows)
      BY <1>3, <1>14
    <3>2. Held(pair) = {} => Cardinality(Held(pair)) = 0
      BY FS_EmptySet
    <3>3. Cardinality(Held(pair)) = 0 => Held(pair) = {}
      BY <1>14, FS_EmptySet
    <3> QED
      BY <1>6, <1>14, <1>15, <3>1, <3>2, <3>3
  <2>3. Held(pair)' = added
    BY <1>13, <2>2
  <2>4. \A k \in added : decisions'[k] \in S
    BY <1>7, <1>8 DEF After
  <2>5. \A s \in S : \E k \in added : decisions'[k] = s
    <3> SUFFICES ASSUME NEW s \in S
                 PROVE  \E k \in added : decisions'[k] = s
      OBVIOUS
    <3>1. PICK i \in 1 .. n : rows[i] = s
      BY <1>3, <1>6, <2>2
    <3>2. l + i \in added /\ decisions'[l + i] = s
      BY <1>7, <3>1 DEF After
    <3> QED
      BY <3>2
  <2> HIDE DEF added
  <2> QED
    BY <2>3, <2>4, <2>5
<1> QED
  BY <1>7, <1>12, <1>15, OfItsOwn

\* The decisions of the first run to do are appended, or, by a kill, some of them.
LEMMA AppendLedger ==
    ASSUME LedgerInv, CollectInv, AppendDecisions \/ (Kill /\ pc = "append_decisions")
    PROVE  LedgerInv'
<1> DEFINE pair == Head(todo)
<1>1. PICK rows : rows = measured.decisions
  OBVIOUS
<1>2. pair \in Keys(runs) /\ rows = DecisionRows(pair[1], pair[2], source[pair]) /\ todo # <<>>
  BY <1>1 DEF AppendDecisions, CollectInv, RowInv, TodoInv
<1>3. PICK head : head = pair
  OBVIOUS
<1>4. head \in Keys(runs) /\ rows = DecisionRows(head[1], head[2], source[head])
  BY <1>2, <1>3
<1>5. Len(rows) \in Nat /\ rows = SubSeq(rows, 1, Len(rows))
  BY <1>4, SourceFacts, DecisionRowsFacts, LenProperties, SubSeqFull
<1>6. /\ pc = "append_decisions" /\ pc' \in {"run", "idle"} /\ UNCHANGED <<runs, source>>
      /\ cut'.removal = cut.removal /\ cut.appends \subseteq cut'.appends
      /\ cut' = [appends |-> cut'.appends, removal |-> cut'.removal]
  BY DEF AppendDecisions, Kill, Stop, history, LedgerInv
<1>7. PICK n \in 0 .. Len(rows) :
        /\ decisions' = decisions \o SubSeq(rows, 1, n)
        /\ n = Len(rows) \/ head \in cut'.appends
  <2>1. CASE AppendDecisions
    <3>1. decisions' = decisions \o SubSeq(rows, 1, Len(rows))
      BY <1>1, <1>5, <2>1 DEF AppendDecisions
    <3>2. Len(rows) \in 0 .. Len(rows)
      BY <1>5
    <3> QED
      BY <3>1, <3>2
  <2>2. CASE Kill /\ pc = "append_decisions"
    <3>1. PICK n \in 0 .. Len(rows) :
            /\ decisions' = decisions \o SubSeq(rows, 1, n)
            /\ cut' = [cut EXCEPT !.appends = @ \cup {pair}]
      BY <1>1, <2>2 DEF Kill
    <3>2. head \in cut'.appends
      BY <1>3, <3>1 DEF LedgerInv
    <3> QED
      BY <3>1, <3>2
  <2> QED
    BY <2>1, <2>2
<1>8. /\ decisions' \in Seq(ToSet(decisions'))
      /\ \A other \in Pairs : other # head =>
           Held(other)' = Held(other) /\ (ExactIfCounted(other) => ExactIfCounted(other)')
      /\ n = Len(rows) \/ Held(head) = {} => ExactIfCounted(head)'
  BY <1>4, <1>6, <1>7, AppendFacts DEF LedgerInv
<1>9. /\ Keys(runs)' = Keys(runs) /\ (Cleared' <=> Cleared) /\ head \in Pairs /\ Inflight(head)
      /\ \A other \in Pairs : ~Inflight(other)' /\ (Inflight(other) => other = head)
  <2>1. Keys(runs)' = Keys(runs)
    BY <1>6 DEF Keys
  <2>2. Cleared' <=> Cleared
    BY <1>6 DEF Cleared
  <2>3. head \in Pairs
    BY <1>4 DEF CollectInv, RunsInv, Keys, Key
  <2> QED
    BY <1>3, <1>6, <2>1, <2>2, <2>3 DEF Inflight
<1>10. ~(cut'.removal /\ head \in cut'.appends) => ExactIfCounted(head)'
  <2>1. CASE n = Len(rows)
    BY <1>8, <2>1
  <2>2. CASE head \in cut'.appends /\ ~cut'.removal
    <3>1. Cleared
      BY <1>6, <2>2 DEF Cleared
    <3>2. Held(head) = {}
      BY <1>9, <3>1 DEF LedgerInv
    <3> QED
      BY <1>8, <3>2
  <2> QED
    BY <1>7, <2>1, <2>2
<1>11. ASSUME NEW other \in Pairs
       PROVE  /\ Cleared' /\ (other \notin Keys(runs)' \/ Inflight(other)') => Held(other)' = {}
              /\ other \in Keys(runs)' /\ ~Inflight(other)' /\ ~(cut'.removal /\ other \in cut'.appends)
                   => ExactIfCounted(other)'
  <2>1. CASE other = head
    BY <1>4, <1>9, <1>10, <2>1
  <2>2. CASE other # head
    BY <1>6, <1>8, <1>9, <2>2 DEF LedgerInv
  <2> QED
    BY <2>1, <2>2
<1> QED
  BY <1>6, <1>8, <1>11 DEF LedgerInv

\* Every step keeps it.
LEMMA NextLedger ==
    ASSUME LedgerInv, CollectInv, [Next]_vars
    PROVE  LedgerInv'
<1> DEFINE SameCut == cut' = cut
           Same == UNCHANGED <<decisions, runs, source>>
<1>1. /\ cut = [appends |-> cut.appends, removal |-> cut.removal]
      /\ cut.removal \in BOOLEAN
  BY DEF LedgerInv
<1>2. ASSUME Same, SameCut, pc = "unlink_decisions" => pc' = "unlink_decisions",
             "append_decisions" \notin {pc, pc'}
      PROVE  LedgerInv'
  <2>1. (Cleared' => Cleared) /\ \A pair \in Pairs : Inflight(pair)' = Inflight(pair)
    BY <1>2 DEF Cleared, Inflight
  <2> QED
    BY <1>1, <1>2, <2>1, QuietLedger
<1>3. ASSUME Same, SameCut, UNCHANGED <<pc, todo>>
      PROVE  LedgerInv'
  <2>1. (Cleared' => Cleared) /\ \A pair \in Pairs : Inflight(pair)' = Inflight(pair)
    BY <1>3 DEF Cleared, Inflight
  <2> QED
    BY <1>1, <1>3, <2>1, QuietLedger
<1>4. CASE \E force \in BOOLEAN : StartCollector(force)
  BY <1>2, <1>4 DEF StartCollector, files, history
<1>5. CASE Resume \/ Measure \/ Complete
  BY <1>2, <1>5 DEF Resume, Measure, Complete, Stop, files, history
<1>6. CASE Rebuild \/ UNCHANGED vars
  BY <1>3, <1>6 DEF Rebuild, vars, collection, files, collector, history
<1>7. CASE Generate \/ WriteSpec \/ WritePatched \/ WriteReport
  BY <1>2, <1>7 DEF Generate, WriteSpec, WritePatched, WriteReport, files, history
<1>8. CASE \E data \in DataSets : Audit(data)
  BY <1>2, <1>8 DEF Audit, files, history
<1>9. CASE KillScript
  <2>1. CASE pc = "append_decisions"
    BY <1>9, <2>1, AppendLedger DEF KillScript
  <2>2. CASE pc # "append_decisions"
    <3>1. Same /\ pc' = "idle" /\ cut' = [cut EXCEPT !.removal = @ \/ pc = "unlink_decisions"]
      BY <1>9, <2>2 DEF KillScript, Kill, Stop
    <3>2. /\ cut' = [appends |-> cut'.appends, removal |-> cut'.removal]
          /\ cut'.appends = cut.appends /\ (cut'.removal <=> cut.removal \/ pc = "unlink_decisions")
          /\ cut'.removal \in BOOLEAN
      BY <1>1, <3>1
    <3>3. (Cleared' => Cleared) /\ \A pair \in Pairs : Inflight(pair)' = Inflight(pair)
      BY <2>2, <3>1, <3>2 DEF Cleared, Inflight
    <3> QED
      BY <3>1, <3>2, <3>3, QuietLedger
  <2> QED
    BY <2>1, <2>2
<1> QED
  BY <1>4, <1>5, <1>6, <1>7, <1>8, <1>9, UnlinkLedger, AppendRowLedger, AppendLedger
     DEF Next, CollectorStep

(***************************************************************************)
(* When addition7_reconcile.py is clean and the collector has come to its  *)
(* end, every row of runs.csv was computed from CSVs as long as the        *)
(* published run, with as many proposals and commits and the same latency  *)
(* and end, and decisions.csv holds, for every arm over CI and every seed, *)
(* the decisions of those CSVs, each once, unless a removal and then this  *)
(* append were cut short: whatever was killed, resumed, rebuilt or not     *)
(* exported, and however often.                                            *)
(***************************************************************************)
THEOREM ReconciledCorrect == Spec => []ReconciledIsComplete
<1>1. ASSUME CollectInv, LedgerInv
      PROVE  ReconciledIsComplete
  <2> SUFFICES ASSUME Finished, Reconciled, NEW arm \in ToSet(Arms), NEW seed \in ToSet(Seeds)
               PROVE  /\ AsPublished(arm, seed, source[<<arm, seed>>])
                      /\ arm \in ToSet(CiArms) /\ ~(cut.removal /\ <<arm, seed>> \in cut.appends) =>
                           EachOnce(arm, seed, source[<<arm, seed>>])
    BY DEF ReconciledIsComplete
  <2> DEFINE pair == <<arm, seed>>
             run == source[pair]
             made == Simulate(0, arm, seed)
  <2>1. pair \in Pairs /\ pair \in Keys(runs)
    BY LoopFacts DEF Finished, Pairs
  <2>0. pair[1] = arm /\ pair[2] = seed
    OBVIOUS
  <2> HIDE DEF pair
  <2>2. PICK k \in DOMAIN runs : Key(runs[k]) = pair /\ ComputedFrom(runs[k], run)
    BY <1>1, <2>1, SourceFacts
  <2>3. runs[k].arm = arm /\ runs[k].seed = seed
    BY <2>2 DEF Key, pair
  <2>4. Sound(run) /\ IsFiniteSet(Committed(run)) /\ Sound(made) /\ IsFiniteSet(Committed(made))
    <3>1. Sound(run) /\ IsFiniteSet(Committed(run))
      BY <1>1, <2>1, SourceFacts
    <3>2. Sound(made)
      BY CollectionAssumption, RunsAssumption DEF WholeRun
    <3> QED
      BY <3>1, <3>2, CommittedIsFinite
  <2> DEFINE row == runs[k]
             charge == Charge(row)
             sweep == SweepRow(arm, seed)
  <2>5. /\ row.committed = Cardinality(Committed(run)) /\ row.proposals = Len(run.proposals)
        /\ row.latency = SumLatency(run) /\ row.end_slot = EndSlot(run)
        /\ row.awake + row.asleep = NumNodes * Len(run.series)
    <3> HIDE DEF run, row
    <3>1. charge.awake = row.awake /\ charge.asleep = row.asleep
      BY DEF Charge
    <3> HIDE DEF charge
    <3>2. row = Row(row.arm, row.seed, charge, run)
      BY <2>2 DEF ComputedFrom, charge, row
    <3>3. charge.awake + charge.asleep = NumNodes * Len(run.series)
      BY <2>2 DEF ComputedFrom, charge, row, Accepted
    <3>4. /\ Row(row.arm, row.seed, charge, run).committed = Cardinality(Committed(run))
          /\ Row(row.arm, row.seed, charge, run).proposals = Len(run.proposals)
          /\ Row(row.arm, row.seed, charge, run).latency = SumLatency(run)
          /\ Row(row.arm, row.seed, charge, run).end_slot = EndSlot(run)
      BY DEF Row
    <3> QED
      BY <3>1, <3>2, <3>3, <3>4
  <2>6. /\ sweep.committed = Cardinality(Committed(made)) /\ sweep.proposals = Len(made.proposals)
        /\ sweep.latency = SumLatency(made) /\ sweep.end_slot = EndSlot(made)
        /\ sweep.awake = made.charged.awake /\ sweep.asleep = made.charged.asleep
    BY DEF SweepRow, Row
  <2>7. /\ row.committed = sweep.committed /\ row.latency = sweep.latency
        /\ row.proposals - row.committed = sweep.proposals - sweep.committed
        /\ row.awake = sweep.awake /\ row.asleep = sweep.asleep /\ row.end_slot = sweep.end_slot
    <3>1. Compared(row) = Compared(sweep)
      BY <2>3 DEF Reconciled, RowsAgree
    <3> HIDE DEF row, sweep
    <3> QED
      BY <3>1 DEF Compared
  <2> HIDE DEF row, sweep
  <2>8. AsPublished(arm, seed, run)
    <3>1. Len(run.proposals) \in Nat /\ Len(made.proposals) \in Nat
      BY <2>4, LenProperties DEF Sound
    <3>2. Cardinality(Committed(run)) \in Nat /\ Cardinality(Committed(made)) \in Nat
      BY <2>4, FS_CardinalityType
    <3> HIDE DEF run, made
    <3>3. Len(run.proposals) = Len(made.proposals)
      BY <2>5, <2>6, <2>7, <3>1, <3>2
    <3>4. Counts(run) = Counts(made)
      BY <2>5, <2>6, <2>7, <3>3 DEF Counts
    <3> QED
      BY <2>5, <2>6, <2>7, <3>4 DEF AsPublished, made
  <2>9. ASSUME arm \in ToSet(CiArms), ~(cut.removal /\ pair \in cut.appends)
        PROVE  EachOnce(arm, seed, run)
    <3>1. Cardinality(DecisionsOf(arm, seed)) = Cardinality(Committed(run))
      BY <2>3, <2>5, <2>9 DEF Reconciled, CountsAgree, row
    <3>2. ExactIfCounted(pair)
      BY <1>1, <2>1, <2>9 DEF LedgerInv, Inflight, Finished
    <3>4. {decisions[j] : j \in DecisionsOf(arm, seed)} = OwnRows(arm, seed, run)
      BY <2>0, <3>1, <3>2 DEF ExactIfCounted, Held
    <3> HIDE DEF run
    <3> QED
      BY <3>1, <3>4 DEF EachOnce, OwnRows
  <2> QED
    BY <2>8, <2>9 DEF pair
<1>2. LedgerInv /\ CollectInv /\ [Next]_vars => LedgerInv'
  BY NextLedger
<1> QED
  BY CollectCorrect, InitLedger, <1>1, <1>2, PTL DEF Spec

-----------------------------------------------------------------------------
(***************************************************************************)
(* The patch specification: the entries applied bottom-up.  Their spans in *)
(* the base and those of their replacements in the result are two rows of  *)
(* intervals with the same gaps between them.                              *)
(***************************************************************************)

\* A splice within the lines replaces its span and moves what is behind it.
LEMMA SpliceFacts ==
    ASSUME NEW P, NEW X \in Seq(P), NEW e, e.a \in Nat, e.b \in Nat, e.repl \in Seq(P),
           1 <= e.a, e.a <= e.b, e.b <= Len(X)
    PROVE  /\ Splice(X, e) \in Seq(P)
           /\ Len(Splice(X, e)) = Len(X) + Delta(e)
           /\ \A i \in 1 .. e.a - 1 : Splice(X, e)[i] = X[i]
           /\ \A q \in 1 .. Len(e.repl) : Splice(X, e)[e.a + q - 1] = e.repl[q]
           /\ \A i \in e.b + 1 .. Len(X) : Splice(X, e)[i + Delta(e)] = X[i]
<1> DEFINE n == Len(X)
           l == Len(e.repl)
           left == SubSeq(X, 1, e.a - 1)
           right == SubSeq(X, e.b + 1, n)
<1>1. n \in Nat /\ l \in Nat /\ \A i \in 1 .. n : X[i] \in P
  BY LenProperties, ElementOfSeq
<1>2. Min({e.a - 1, n}) = e.a - 1 /\ Min({e.b, n}) = e.b /\ Max({e.b, e.a - 1}) = e.b
  <2>1. Min({e.a - 1, n}) = IF e.a - 1 <= n THEN e.a - 1 ELSE n
    BY <1>1, MinMaxOfTwo
  <2>2. Min({e.b, n}) = IF e.b <= n THEN e.b ELSE n
    BY <1>1, MinMaxOfTwo
  <2>3. Max({e.b, e.a - 1}) = IF e.b <= e.a - 1 THEN e.a - 1 ELSE e.b
    <3>1. e.b \in Int /\ e.a - 1 \in Int
      OBVIOUS
    <3> QED
      BY ONLY <3>1, MinMaxOfTwo
  <2> QED
    BY <1>1, <2>1, <2>2, <2>3
<1>3. Splice(X, e) = left \o e.repl \o right
  BY <1>2 DEF Splice
<1>4. /\ left \in Seq(P) /\ Len(left) = e.a - 1
      /\ \A i \in 1 .. e.a - 1 : left[i] = X[i]
  <2>1. \A i \in 1 .. e.a - 1 : X[i] \in P
    BY <1>1
  <2>2. Len(left) = IF 1 <= e.a - 1 THEN e.a - 1 - 1 + 1 ELSE 0
    BY <2>1, SubSeqProperties
  <2>3. \A i \in 1 .. e.a - 1 - 1 + 1 : left[i] = X[1 + i - 1]
    BY <2>1, SubSeqProperties
  <2> QED
    BY <2>1, <2>2, <2>3, SubSeqProperties
<1>5. /\ right \in Seq(P) /\ Len(right) = n - e.b
      /\ \A i \in 1 .. n - e.b : right[i] = X[e.b + i]
  <2>1. \A i \in e.b + 1 .. n : X[i] \in P
    BY <1>1
  <2>2. Len(right) = IF e.b + 1 <= n THEN n - (e.b + 1) + 1 ELSE 0
    BY <1>1, <2>1, SubSeqProperties
  <2>3. \A i \in 1 .. n - (e.b + 1) + 1 : right[i] = X[(e.b + 1) + i - 1]
    BY <1>1, <2>1, SubSeqProperties
  <2>4. right \in Seq(P)
    BY <1>1, <2>1, SubSeqProperties
  <2> HIDE DEF right
  <2> QED
    BY <1>1, <2>2, <2>3, <2>4, SMTT(30)
<1> DEFINE both == left \o e.repl
<1> HIDE DEF left, right
<1>6. /\ both \in Seq(P) /\ Len(both) = e.a - 1 + l
      /\ \A i \in 1 .. e.a - 1 + l : both[i] = IF i <= e.a - 1 THEN left[i] ELSE e.repl[i - (e.a - 1)]
  <2>1. both \in Seq(P)
    BY <1>4, ConcatProperties
  <2>2. Len(both) = Len(left) + l
    BY <1>4, ConcatProperties
  <2>3. \A i \in 1 .. Len(left) + l :
           both[i] = IF i <= Len(left) THEN left[i] ELSE e.repl[i - Len(left)]
    BY <1>4, ConcatProperties
  <2> HIDE DEF both, l
  <2> QED
    BY <1>4, <2>1, <2>2, <2>3
<1> HIDE DEF both
<1> DEFINE Y == both \o right
<1>7. /\ Y \in Seq(P) /\ Len(Y) = e.a - 1 + l + (n - e.b)
      /\ \A i \in 1 .. e.a - 1 + l + (n - e.b) :
           Y[i] = IF i <= e.a - 1 + l THEN both[i] ELSE right[i - (e.a - 1 + l)]
  <2>1. Y \in Seq(P)
    BY <1>5, <1>6, ConcatProperties
  <2>2. Len(Y) = Len(both) + Len(right)
    BY <1>5, <1>6, ConcatProperties
  <2>3. \A i \in 1 .. Len(both) + Len(right) :
           Y[i] = IF i <= Len(both) THEN both[i] ELSE right[i - Len(both)]
    BY <1>5, <1>6, ConcatProperties, SMTT(30)
  <2> HIDE DEF Y, n, l
  <2> QED
    BY <1>5, <1>6, <2>1, <2>2, <2>3
<1> HIDE DEF Y
<1>8. Splice(X, e) = Y
  BY <1>3 DEF both, Y
<1>10. Delta(e) = l - (e.b - e.a + 1) /\ Delta(e) \in Int
  BY <1>1 DEF Delta
<1> HIDE DEF n, l
<1>11. Len(Y) = n + Delta(e)
  BY <1>1, <1>7, <1>10, SMTT(30)
<1>12. ASSUME NEW i \in 1 .. e.a - 1
       PROVE  Y[i] = X[i]
  <2>1. i \in 1 .. e.a - 1 + l + (n - e.b) /\ i \in 1 .. e.a - 1 + l /\ i <= e.a - 1 /\ i <= e.a - 1 + l
    BY <1>1 DEF n
  <2>2. Y[i] = both[i]
    BY <1>7, <2>1
  <2>3. both[i] = left[i]
    BY <1>6, <2>1
  <2> QED
    BY <1>4, <2>2, <2>3
<1>13. ASSUME NEW q \in 1 .. l
       PROVE  Y[e.a + q - 1] = e.repl[q]
  <2> DEFINE i == e.a + q - 1
  <2>1. /\ i \in 1 .. e.a - 1 + l + (n - e.b) /\ i \in 1 .. e.a - 1 + l
        /\ ~(i <= e.a - 1) /\ i <= e.a - 1 + l /\ i - (e.a - 1) = q
    BY <1>1 DEF n
  <2> HIDE DEF i
  <2>2. Y[i] = both[i]
    BY <1>7, <2>1
  <2>3. both[i] = e.repl[q]
    BY <1>6, <2>1
  <2> QED
    BY <2>2, <2>3 DEF i
<1>14. ASSUME NEW j \in e.b + 1 .. n
       PROVE  Y[j + Delta(e)] = X[j]
  <2> DEFINE i == j + Delta(e)
  <2>1. /\ i \in 1 .. e.a - 1 + l + (n - e.b) /\ ~(i <= e.a - 1 + l)
        /\ i - (e.a - 1 + l) = j - e.b /\ j - e.b \in 1 .. n - e.b /\ e.b + (j - e.b) = j
    <3>1. n \in Nat /\ l \in Nat /\ j \in Int /\ e.b <= n /\ e.b + 1 <= j /\ j <= n
      BY <1>1 DEF n
    <3>2. i = j + (l - (e.b - e.a + 1)) /\ e.a \in Int /\ e.b \in Int
      BY <1>10
    <3> HIDE DEF i, n, l
    <3>3. i \in Int /\ i = (j - e.b) + (e.a - 1 + l) /\ j - e.b \in 1 .. n - e.b
      BY ONLY <3>1, <3>2, SMTT(30)
    <3> DEFINE d == j - e.b
               k == e.a - 1 + l
               m == n - e.b
    <3>4. d \in 1 .. m /\ k \in Nat /\ m \in Nat /\ i = d + k /\ e.b + d = j
      <4>1. d \in 1 .. m
        BY <3>3
      <4>2. k \in Nat
        BY <3>1
      <4>3. m \in Nat
        BY <3>1
      <4>4. i = d + k
        BY <3>3
      <4>5. e.b + d = j
        BY <3>1
      <4> QED
        BY <4>1, <4>2, <4>3, <4>4, <4>5
    <3> HIDE DEF d, k, m
    <3>5. i \in 1 .. k + m /\ ~(i <= k) /\ i - k = d
      BY ONLY <3>4
    <3> QED
      BY <3>4, <3>5 DEF d, k, m
  <2> HIDE DEF i
  <2>2. Y[i] = right[j - e.b]
    BY <1>7, <2>1
  <2>3. right[j - e.b] = X[j]
    BY <1>5, <2>1
  <2> QED
    BY <2>2, <2>3 DEF i
<1> QED
  BY <1>8, <1>7, <1>11, <1>12, <1>13, <1>14 DEF n, l

(***************************************************************************)
(* FoldLeft goes through the entries from the first to the last: o[k] is   *)
(* what the lines are after k of them.                                     *)
(***************************************************************************)
AppliedInSteps(b, E, m, A) ==
    \E o \in [0 .. m -> A] :
        /\ o[0] = b /\ Applied(b, E) = o[m]
        /\ \A k \in 1 .. m : o[k] = Splice(o[k-1], BottomUp(E)[k])

\* Applied goes by such steps when each splice stays in A.
LEMMA FoldSteps ==
    ASSUME NEW m \in Nat, NEW E, DOMAIN BottomUp(E) = 1 .. m, NEW A, NEW b \in A,
           \A X \in A, k \in 1 .. m : Splice(X, BottomUp(E)[k]) \in A
    PROVE  AppliedInSteps(b, E, m, A)
<1> DEFINE t == BottomUp(E)
           D == 1 .. m
           Fits(g) == g = [s \in SUBSET D |-> IF s = {} THEN b
                                              ELSE Splice(g[s \ {Max(s)}], t[Max(s)])]
           W == CHOOSE g : Fits(g)
           r == [s \in SUBSET D |-> s \ {Max(s)}]
           F == [x \in (SUBSET D) \X A |-> IF x[1] = {} THEN b ELSE Splice(x[2], t[Max(x[1])])]
<1>1. Applied(b, E) = W[D]
  BY DEF Applied, FoldLeft, MapThenFoldSet
<1>t. DOMAIN t = 1 .. m /\ \A X \in A, k \in 1 .. m : Splice(X, t[k]) \in A
  OBVIOUS
<1> HIDE DEF t
<1>2. IsFiniteSet(D) /\ D \in SUBSET Int
  BY FS_Interval
<1>3. \A s \in SUBSET D : s # {} => Max(s) \in s /\ \A y \in s : Max(s) >= y
  <2> SUFFICES ASSUME NEW s \in SUBSET D, s # {}
               PROVE  Max(s) \in s /\ \A y \in s : Max(s) >= y
    OBVIOUS
  <2>1. IsFiniteSet(s) /\ s \in SUBSET Int
    BY <1>2, FS_Subset
  <2> QED
    BY <2>1, MaxOfFinite
<1>4. r \in [SUBSET D -> SUBSET D]
  OBVIOUS
<1>5. \A s \in SUBSET D : s # {} => Cardinality(r[s]) < Cardinality(s)
  <2> SUFFICES ASSUME NEW s \in SUBSET D, s # {}
               PROVE  Cardinality(r[s]) < Cardinality(s)
    OBVIOUS
  <2>1. IsFiniteSet(s) /\ Cardinality(s) \in Nat /\ Max(s) \in s
    BY <1>2, <1>3, FS_Subset, FS_CardinalityType
  <2>2. Cardinality(s \ {Max(s)}) = Cardinality(s) - 1
    BY <2>1, FS_RemoveElement
  <2>3. r[s] = s \ {Max(s)}
    OBVIOUS
  <2> HIDE DEF r
  <2> QED
    BY <2>1, <2>2, <2>3
<1>6. F \in [(SUBSET D) \X A -> A]
  <2> SUFFICES ASSUME NEW s \in SUBSET D, NEW X \in A, s # {}
               PROVE  Splice(X, t[Max(s)]) \in A
    OBVIOUS
  <2>1. Max(s) \in D
    BY <1>3
  <2> QED
    BY <1>t, <2>1
<1>7. PICK h \in [SUBSET D -> A] : UnfoldsBySubset(D, b, r, F, h)
  <2> HIDE DEF r, F, D
  <2> QED
    BY <1>2, <1>4, <1>5, <1>6, SubsetRecursionExists
<1>8. Fits(h)
  <2>1. h = [s \in SUBSET D |-> IF s = {} THEN b ELSE F[<<s, h[r[s]]>>]]
    <3> HIDE DEF r, F, D
    <3> QED
      BY <1>7 DEF UnfoldsBySubset
  <2>2. ASSUME NEW s \in SUBSET D, s # {}
        PROVE  F[<<s, h[r[s]]>>] = Splice(h[s \ {Max(s)}], t[Max(s)])
    <3>1. r[s] = s \ {Max(s)} /\ r[s] \in SUBSET D
      OBVIOUS
    <3> HIDE DEF r, D
    <3>2. h[r[s]] \in A
      BY <3>1
    <3>3. F[<<s, h[r[s]]>>] = Splice(h[r[s]], t[Max(s)])
      BY <2>2, <3>2
    <3> QED
      BY <3>1, <3>3
  <2> HIDE DEF F, r, D
  <2> QED
    BY <2>1, <2>2
<1>9. Fits(W)
  <2> HIDE DEF Fits
  <2> QED
    BY <1>8
<1>10. \A s \in SUBSET D : W[s] = IF s = {} THEN b ELSE Splice(W[s \ {Max(s)}], t[Max(s)])
  <2> HIDE DEF W, D
  <2> QED
    BY <1>9
<1> HIDE DEF W, r, F
<1>11. W[1 .. 0] = b
  <2>1. 1 .. 0 = {} /\ {} \in SUBSET D
    OBVIOUS
  <2> QED
    BY <1>10, <2>1
<1>12. ASSUME NEW k \in 1 .. m
       PROVE  W[1 .. k] = Splice(W[1 .. k-1], t[k])
  <2>1. 1 .. k \in SUBSET D /\ 1 .. k # {} /\ k \in 1 .. k /\ k \in Nat
    <3>1. k \in 1 .. k /\ k \in Nat
      OBVIOUS
    <3>2. \A i \in 1 .. k : i \in D
      OBVIOUS
    <3> QED
      BY <3>1, <3>2
  <2>2. Max(1 .. k) = k
    <3>1. Max(1 .. k) \in 1 .. k /\ Max(1 .. k) >= k
      BY <1>3, <2>1
    <3> QED
      BY <3>1
  <2>3. (1 .. k) \ {k} = 1 .. k-1
    OBVIOUS
  <2> QED
    BY <1>10, <2>1, <2>2, <2>3
<1> DEFINE o == [k \in 0 .. m |-> W[1 .. k]]
           Good == {k \in 0 .. m : W[1 .. k] \in A}
<1>13. 0 \in Good
  BY <1>11
<1>14. ASSUME NEW k \in 0 .. m-1, k \in Good
       PROVE  k + 1 \in Good
  <2>1. k + 1 \in 1 .. m /\ k + 1 \in 0 .. m /\ (k + 1) - 1 = k
    OBVIOUS
  <2>2. W[1 .. k+1] = Splice(W[1 .. (k+1)-1], t[k+1])
    BY <1>12, <2>1
  <2>3. W[1 .. k] \in A
    BY <1>14
  <2> QED
    BY <1>t, <2>1, <2>2, <2>3
<1>15. 0 .. m \subseteq Good
  <2> HIDE DEF Good
  <2> QED
    BY <1>13, <1>14, UpToN
<1>16. o \in [0 .. m -> A]
  BY <1>15
<1>17. o[0] = b /\ o[m] = W[D]
  BY <1>11
<1>18. ASSUME NEW k \in 1 .. m
       PROVE  o[k] = Splice(o[k-1], t[k])
  <2>1. k \in 0 .. m /\ k-1 \in 0 .. m
    OBVIOUS
  <2>2. o[k] = W[1 .. k] /\ o[k-1] = W[1 .. k-1]
    BY <2>1
  <2> HIDE DEF o
  <2> QED
    BY <1>12, <2>2
<1> HIDE DEF o
<1> QED
  BY <1>1, <1>16, <1>17, <1>18 DEF t, AppliedInSteps

(***************************************************************************)
(* Lists of entries.                                                       *)
(***************************************************************************)

\* No two spans overlap.
Apart(E) == \A i, j \in DOMAIN E : i # j => E[i].b < E[j].a \/ E[j].b < E[i].a
\* An entry names a span and what comes in its place, and no two spans overlap.
Listed(E) ==
    /\ \A k \in DOMAIN E : /\ E[k].a \in Nat /\ E[k].b \in Nat /\ E[k].repl \in Seq(DOMAIN Text)
                           /\ 1 <= E[k].a /\ E[k].a <= E[k].b /\ E[k].repl # <<>>
    /\ Apart(E)
InLineOrder(s) == \A j, k \in DOMAIN s : j < k => s[j].b < s[k].a

\* Of entries apart the first line decides the order.
LEMMA SortedFacts ==
    ASSUME NEW m \in Nat, NEW E, DOMAIN E = 1 .. m, Listed(E)
    PROVE  /\ DOMAIN Sorted(E) = 1 .. m
           /\ Listed(Sorted(E))
           /\ InLineOrder(Sorted(E))
           /\ \A k \in 1 .. m : \E i \in 1 .. m : Sorted(E)[k] = E[i]
<1> DEFINE D == 1 .. m
           Before(j, i) == \/ E[j].a < E[i].a
                           \/ E[j].a = E[i].a /\ E[j].b < E[i].b
                           \/ E[j].a = E[i].a /\ E[j].b = E[i].b /\ j < i
           pos(k) == CHOOSE i \in D : Cardinality({j \in D : Before(j, i)}) = k - 1
           s == [k \in D |-> E[pos(k)]]
           R == {p \in D \X D : E[p[1]].a < E[p[2]].a}
<1>1. Sorted(E) = s
  BY DEF Sorted
<1>2. IsFiniteSet(D) /\ Cardinality(D) = m /\ D \in SUBSET Int
  <2>1. IsFiniteSet(D) /\ Cardinality(D) = IF 1 > m THEN 0 ELSE m - 1 + 1
    BY FS_Interval
  <2> QED
    BY <2>1
<1>3. \A i \in D : E[i].a \in Nat /\ E[i].b \in Nat /\ E[i].a <= E[i].b
  BY DEF Listed
<1>4. \A i, j \in D : i # j => E[i].b < E[j].a \/ E[j].b < E[i].a
  BY DEF Listed, Apart
<1>5. \A i, j \in D : <<i, j>> \in R <=> E[i].a < E[j].a
  OBVIOUS
<1> HIDE DEF R
<1>6. \A i, j \in D : i # j => E[i].a < E[j].a \/ E[j].a < E[i].a
  BY <1>3, <1>4
<1>7. StrictlyOrders(R, D)
  <2>1. \A i \in D : ~(E[i].a < E[i].a)
    BY <1>3
  <2>2. \A i, j, k \in D : E[i].a < E[j].a /\ E[j].a < E[k].a => E[i].a < E[k].a
    BY <1>3
  <2> QED
    BY <1>5, <1>6, <2>1, <2>2 DEF StrictlyOrders
<1>8. \A i, j \in D : Before(j, i) <=> <<j, i>> \in R
  <2> SUFFICES ASSUME NEW i \in D, NEW j \in D
               PROVE  Before(j, i) <=> E[j].a < E[i].a
    BY <1>5
  <2>1. CASE i = j
    BY <1>2, <1>3, <2>1
  <2>2. CASE i # j
    BY <1>3, <1>6, <2>2
  <2> QED
    BY <2>1, <2>2
<1>9. \A i \in D : Cardinality({j \in D : Before(j, i)}) = Rank(D, R, i)
  <2> SUFFICES ASSUME NEW i \in D
               PROVE  {j \in D : Before(j, i)} = Earlier(D, R, i)
    BY DEF Rank
  <2> HIDE DEF Before
  <2> QED
    BY <1>8 DEF Earlier
<1> HIDE DEF Before
<1>10. \A k \in D : pos(k) \in D /\ Rank(D, R, pos(k)) = k - 1
  <2> SUFFICES ASSUME NEW k \in D
               PROVE  pos(k) \in D /\ Rank(D, R, pos(k)) = k - 1
    OBVIOUS
  <2>1. \E i \in D : Rank(D, R, i) = k - 1
    <3> HIDE DEF D
    <3>1. \A n \in 1 .. Cardinality(D) : \E i \in D : Rank(D, R, i) = n - 1
      BY <1>2, <1>7, RanksReachAll
    <3> QED
      BY <1>2, <3>1 DEF D
  <2>2. \E i \in D : Cardinality({j \in D : Before(j, i)}) = k - 1
    BY <1>9, <2>1
  <2>3. pos(k) \in D /\ Cardinality({j \in D : Before(j, pos(k))}) = k - 1
    <3> HIDE DEF D
    <3> QED
      BY <2>2
  <2> QED
    BY <1>9, <2>3
<1> HIDE DEF pos
<1>11. ASSUME NEW j \in D, NEW k \in D, j < k
       PROVE  E[pos(j)].b < E[pos(k)].a
  <2>1. /\ pos(j) \in D /\ pos(k) \in D
        /\ Rank(D, R, pos(j)) = j - 1 /\ Rank(D, R, pos(k)) = k - 1
    BY <1>10
  <2>2. pos(j) # pos(k) /\ ~(<<pos(k), pos(j)>> \in R)
    <3>1. ~(k - 1 < j - 1) /\ j - 1 # k - 1
      BY <1>11
    <3>2. <<pos(k), pos(j)>> \in R => Rank(D, R, pos(k)) < Rank(D, R, pos(j))
      BY <1>2, <1>7, <2>1, RanksGrow
    <3> QED
      BY <2>1, <3>1, <3>2
  <2>3. ~(E[pos(k)].a < E[pos(j)].a)
    BY <1>5, <2>1, <2>2
  <2> QED
    BY <1>3, <1>4, <2>1, <2>2, <2>3, SMTT(30)
<1>12. DOMAIN s = D /\ \A k \in D : s[k] = E[pos(k)] /\ pos(k) \in D
  BY <1>10
<1> HIDE DEF s
<1>13. InLineOrder(s)
  BY <1>11, <1>12 DEF InLineOrder
<1>14. Apart(s)
  <2> SUFFICES ASSUME NEW i \in D, NEW j \in D, i # j
               PROVE  s[i].b < s[j].a \/ s[j].b < s[i].a
    BY <1>12 DEF Apart
  <2>1. i < j \/ j < i
    OBVIOUS
  <2> QED
    BY <1>12, <1>13, <2>1 DEF InLineOrder
<1>15. Listed(s)
  BY <1>12, <1>14 DEF Listed
<1> QED
  BY <1>1, <1>12, <1>13, <1>15

\* The places of entries in line order.
LEMMA InOrderFacts ==
    ASSUME NEW m \in Nat, NEW s, DOMAIN s = 1 .. m, Listed(s), InLineOrder(s)
    PROVE  \A i, j \in 1 .. m : s[j].a < s[i].a <=> j < i
<1>1. \A i \in 1 .. m : s[i].a \in Nat /\ s[i].b \in Nat /\ s[i].a <= s[i].b
  BY DEF Listed
<1>2. \A i, j \in 1 .. m : j < i => s[j].b < s[i].a
  BY DEF InLineOrder
<1> SUFFICES ASSUME NEW i \in 1 .. m, NEW j \in 1 .. m
             PROVE  s[j].a < s[i].a <=> j < i
  OBVIOUS
<1>3. j < i => s[j].a < s[i].a
  BY <1>1, <1>2
<1>4. i < j => s[i].a < s[j].a
  BY <1>1, <1>2
<1>5. j < i \/ i < j \/ i = j
  OBVIOUS
<1> QED
  BY <1>1, <1>3, <1>4, <1>5

\* Sorting entries in line order leaves them as they are.
LEMMA SortedTwice ==
    ASSUME NEW m \in Nat, NEW s, DOMAIN s = 1 .. m, s = [k \in 1 .. m |-> s[k]],
           Listed(s), InLineOrder(s)
    PROVE  Sorted(s) = s
<1> DEFINE D == 1 .. m
           Before(j, i) == \/ s[j].a < s[i].a
                           \/ s[j].a = s[i].a /\ s[j].b < s[i].b
                           \/ s[j].a = s[i].a /\ s[j].b = s[i].b /\ j < i
           pos(k) == CHOOSE i \in D : Cardinality({j \in D : Before(j, i)}) = k - 1
<1>1. Sorted(s) = [k \in D |-> s[pos(k)]]
  BY DEF Sorted
<1>2. \A i, j \in D : s[j].a < s[i].a <=> j < i
  BY InOrderFacts
<1>3. \A i \in D : s[i].a \in Nat /\ s[i].b \in Nat
  BY DEF Listed
<1>4. \A i, j \in D : Before(j, i) <=> j < i
  <2> SUFFICES ASSUME NEW i \in D, NEW j \in D
               PROVE  Before(j, i) <=> j < i
    OBVIOUS
  <2>1. s[j].a = s[i].a => i = j
    BY <1>2, <1>3
  <2> QED
    BY <1>2, <1>3, <2>1
<1> HIDE DEF Before
<1>5. \A i \in D : Cardinality({j \in D : Before(j, i)}) = i - 1
  <2> SUFFICES ASSUME NEW i \in D
               PROVE  Cardinality({j \in D : Before(j, i)}) = i - 1
    OBVIOUS
  <2>1. {j \in D : Before(j, i)} = 1 .. i - 1
    <3>1. {j \in D : j < i} = 1 .. i - 1
      OBVIOUS
    <3> HIDE DEF D
    <3> QED
      BY <1>4, <3>1
  <2>2. i \in Int /\ i - 1 \in Int /\ i >= 1
    OBVIOUS
  <2>3. Cardinality(1 .. i - 1) = IF 1 > i - 1 THEN 0 ELSE i - 1 - 1 + 1
    BY ONLY <2>2, FS_Interval
  <2>4. Cardinality(1 .. i - 1) = i - 1
    BY ONLY <2>2, <2>3
  <2> QED
    BY <2>1, <2>4
<1>6. \A k \in D : pos(k) = k
  <2> SUFFICES ASSUME NEW k \in D
               PROVE  pos(k) = k
    OBVIOUS
  <2>1. Cardinality({j \in D : Before(j, k)}) = k - 1
    BY <1>5
  <2> DEFINE p == pos(k)
  <2>2. p \in D /\ Cardinality({j \in D : Before(j, p)}) = k - 1
    <3> HIDE DEF D
    <3> QED
      BY <2>1
  <2> HIDE DEF p
  <2>3. p - 1 = k - 1
    BY <1>5, <2>2
  <2>4. p = k
    BY <2>2, <2>3
  <2> QED
    BY <2>4 DEF p
<1> HIDE DEF pos
<1> QED
  BY <1>1, <1>6

\* Bottom-up is the line order backwards.
LEMMA BottomUpFacts ==
    ASSUME NEW m \in Nat, NEW E, DOMAIN Sorted(E) = 1 .. m,
           Listed(Sorted(E)), InLineOrder(Sorted(E))
    PROVE  /\ DOMAIN BottomUp(E) = 1 .. m
           /\ \A k \in 1 .. m : BottomUp(E)[k] = Sorted(E)[m + 1 - k]
<1> DEFINE D == 1 .. m
           s == Sorted(E)
           Later(j, i) == s[j].a > s[i].a \/ (s[j].a = s[i].a /\ j < i)
           pos(k) == CHOOSE i \in D : Cardinality({j \in D : Later(j, i)}) = k - 1
<1>1. BottomUp(E) = [k \in D |-> s[pos(k)]]
  BY DEF BottomUp
<1> HIDE DEF s
<1>2. DOMAIN s = D /\ Listed(s) /\ InLineOrder(s)
  BY DEF s
<1>3. \A i, j \in D : s[j].a < s[i].a <=> j < i
  BY <1>2, InOrderFacts
<1>4. \A i \in D : s[i].a \in Nat
  BY <1>2 DEF Listed
<1>5. \A i, j \in D : Later(j, i) <=> j > i
  <2> SUFFICES ASSUME NEW i \in D, NEW j \in D
               PROVE  Later(j, i) <=> j > i
    OBVIOUS
  <2>1. s[j].a = s[i].a => i = j
    BY <1>3, <1>4
  <2>2. s[j].a > s[i].a <=> j > i
    BY <1>3, <1>4
  <2> QED
    BY <2>1, <2>2
<1> HIDE DEF Later
<1>6. \A i \in D : Cardinality({j \in D : Later(j, i)}) = m - i
  <2> SUFFICES ASSUME NEW i \in D
               PROVE  Cardinality({j \in D : Later(j, i)}) = m - i
    OBVIOUS
  <2>1. {j \in D : Later(j, i)} = i + 1 .. m
    BY <1>5
  <2>2. i \in Int /\ i + 1 \in Int /\ i <= m /\ m \in Int
    OBVIOUS
  <2>3. Cardinality(i + 1 .. m) = IF i + 1 > m THEN 0 ELSE m - (i + 1) + 1
    BY ONLY <2>2, FS_Interval
  <2>4. Cardinality(i + 1 .. m) = m - i
    BY ONLY <2>2, <2>3
  <2> QED
    BY <2>1, <2>4
<1>7. \A k \in D : pos(k) = m + 1 - k
  <2> SUFFICES ASSUME NEW k \in D
               PROVE  pos(k) = m + 1 - k
    OBVIOUS
  <2>1. m + 1 - k \in D /\ m - (m + 1 - k) = k - 1
    OBVIOUS
  <2>2. Cardinality({j \in D : Later(j, m + 1 - k)}) = k - 1
    BY <1>6, <2>1
  <2> DEFINE p == pos(k)
  <2>3. p \in D /\ Cardinality({j \in D : Later(j, p)}) = k - 1
    <3> HIDE DEF D
    <3> QED
      BY <2>1, <2>2
  <2> HIDE DEF p
  <2>4. m - p = k - 1
    BY <1>6, <2>3
  <2>5. p = m + 1 - k
    BY <2>3, <2>4
  <2> QED
    BY <2>5 DEF p
<1> HIDE DEF pos
<1> QED
  BY <1>1, <1>7 DEF s

(***************************************************************************)
(* Spans in order: lo[k] .. hi[k] for k from 0 to m + 1, the first and the *)
(* last of them outside the lines.  What lies between two is a gap.        *)
(***************************************************************************)
Spans(m, lo, hi) ==
    /\ lo \in [0 .. m+1 -> Int] /\ hi \in [0 .. m+1 -> Int]
    /\ \A k \in 0 .. m+1 : lo[k] <= hi[k]
    /\ \A k \in 0 .. m : hi[k] < lo[k+1]
InGap(lo, hi, j, x) == hi[j] < x /\ x < lo[j+1]
Outside(m, lo, hi) == {x \in hi[0] + 1 .. lo[m+1] - 1 : \A k \in 1 .. m : x \notin lo[k] .. hi[k]}

\* An earlier span ends before a later one begins.
LEMMA SpansInOrder ==
    ASSUME NEW m \in Nat, NEW lo, NEW hi, Spans(m, lo, hi)
    PROVE  \A j, k \in 0 .. m+1 : j < k => hi[j] < lo[k]
<1>1. /\ \A k \in 0 .. m+1 : lo[k] \in Int /\ hi[k] \in Int /\ lo[k] <= hi[k]
      /\ \A k \in 0 .. m : hi[k] < lo[k+1]
  BY DEF Spans
<1> DEFINE Good == {k \in 0 .. m+1 : \A j \in 0 .. m+1 : j < k => hi[j] < lo[k]}
<1>2. 0 \in Good
  OBVIOUS
<1>3. ASSUME NEW k \in 0 .. (m+1)-1, k \in Good
      PROVE  k + 1 \in Good
  <2>1. k \in 0 .. m /\ k + 1 \in 0 .. m+1 /\ k \in 0 .. m+1
    OBVIOUS
  <2> SUFFICES ASSUME NEW j \in 0 .. m+1, j < k + 1
               PROVE  hi[j] < lo[k+1]
    BY <2>1
  <2>2. CASE j = k
    BY <1>1, <2>1, <2>2
  <2>3. CASE j # k
    <3>1. j < k
      BY <2>1, <2>3
    <3>2. hi[j] < lo[k]
      BY <1>3, <3>1
    <3> HIDE DEF Good
    <3> QED
      BY <1>1, <2>1, <3>2
  <2> QED
    BY <2>2, <2>3
<1> HIDE DEF Good
<1>4. m + 1 \in Nat
  OBVIOUS
<1>5. 0 .. m+1 \subseteq Good
  BY <1>2, <1>3, <1>4, UpToN
<1> QED
  BY <1>5 DEF Good

\* What is outside all spans is in one gap, and what is in a gap is outside.
LEMMA GapsAreOutside ==
    ASSUME NEW m \in Nat, NEW lo, NEW hi, Spans(m, lo, hi)
    PROVE  /\ \A x \in Outside(m, lo, hi) : \E j \in 0 .. m : InGap(lo, hi, j, x)
           /\ \A x \in Int, j \in 0 .. m : InGap(lo, hi, j, x) => x \in Outside(m, lo, hi)
           /\ \A x, y \in Int, j, k \in 0 .. m :
                 InGap(lo, hi, j, x) /\ InGap(lo, hi, k, y) /\ x <= y => j <= k
<1>1. \A k \in 0 .. m+1 : lo[k] \in Int /\ hi[k] \in Int /\ lo[k] <= hi[k]
  BY DEF Spans
<1>2. \A j, k \in 0 .. m+1 : j < k => hi[j] < lo[k]
  BY SpansInOrder
<1>3. ASSUME NEW x \in Outside(m, lo, hi)
      PROVE  \E j \in 0 .. m : InGap(lo, hi, j, x)
  <2> DEFINE J == {j \in 0 .. m : lo[j] <= x}
  <2>1. 0 \in 0 .. m+1 /\ m + 1 \in 0 .. m+1 /\ 0 \in 0 .. m
    OBVIOUS
  <2>2. /\ x \in Int /\ hi[0] < x /\ x < lo[m+1]
        /\ \A k \in 1 .. m : x \notin lo[k] .. hi[k]
    BY <1>1, <2>1 DEF Outside
  <2>3. 0 \in J /\ J \in SUBSET Int
    BY <1>1, <2>1, <2>2
  <2>4. IsFiniteSet(J)
    <3>1. IsFiniteSet(0 .. m)
      BY FS_Interval
    <3> QED
      BY <3>1, FS_Subset
  <2>5. PICK j \in J : \A i \in J : j >= i
    <3> HIDE DEF J
    <3> QED
      BY <2>3, <2>4, MaxOfFinite
  <2>6. j \in 0 .. m /\ lo[j] <= x /\ j \in 0 .. m+1 /\ j + 1 \in 0 .. m+1 /\ j \in Int
    BY <2>5
  <2>7. x < lo[j+1]
    <3>1. CASE j = m
      BY <2>2, <3>1
    <3>2. CASE j # m
      <4>1. j + 1 \in 0 .. m /\ ~(j >= j + 1)
        BY <2>6, <3>2
      <4>2. ~(lo[j+1] <= x)
        BY <2>5, <4>1
      <4> QED
        BY <1>1, <2>2, <2>6, <4>2
    <3> QED
      BY <3>1, <3>2
  <2>8. hi[j] < x
    <3>1. CASE j = 0
      BY <2>2, <3>1
    <3>2. CASE j # 0
      <4>1. j \in 1 .. m
        BY <2>6, <3>2
      <4> QED
        BY <1>1, <2>2, <2>6, <4>1
    <3> QED
      BY <3>1, <3>2
  <2> QED
    BY <2>6, <2>7, <2>8 DEF InGap
<1>4. ASSUME NEW x \in Int, NEW j \in 0 .. m, InGap(lo, hi, j, x)
      PROVE  x \in Outside(m, lo, hi)
  <2>1. /\ j \in 0 .. m+1 /\ j + 1 \in 0 .. m+1 /\ 0 \in 0 .. m+1 /\ m + 1 \in 0 .. m+1
        /\ j \in Int
    OBVIOUS
  <2>2. hi[j] < x /\ x < lo[j+1]
    BY <1>4 DEF InGap
  <2>3. hi[0] < x
    <3>1. CASE j = 0
      BY <2>2, <3>1
    <3>2. CASE j # 0
      <4>1. 0 < j
        BY <2>1, <3>2
      <4>2. hi[0] < lo[j] /\ lo[j] <= hi[j]
        BY <1>1, <1>2, <2>1, <4>1
      <4> QED
        BY <1>1, <2>1, <2>2, <4>2
    <3> QED
      BY <3>1, <3>2
  <2>4. x < lo[m+1]
    <3>1. CASE j = m
      BY <2>2, <3>1
    <3>2. CASE j # m
      <4>1. j + 1 < m + 1
        BY <2>1, <3>2
      <4>2. hi[j+1] < lo[m+1] /\ lo[j+1] <= hi[j+1]
        BY <1>1, <1>2, <2>1, <4>1
      <4> QED
        BY <1>1, <2>1, <2>2, <4>2
    <3> QED
      BY <3>1, <3>2
  <2>5. ASSUME NEW k \in 1 .. m
        PROVE  ~(lo[k] <= x /\ x <= hi[k])
    <3>1. k \in 0 .. m+1 /\ k \in Int
      OBVIOUS
    <3>2. CASE k <= j
      <4>1. hi[k] <= hi[j]
        <5>1. CASE k = j
          BY <1>1, <2>1, <5>1
        <5>2. CASE k # j
          <6>1. k < j
            BY <2>1, <3>1, <3>2, <5>2
          <6>2. hi[k] < lo[j]
            BY <1>2, <2>1, <3>1, <6>1
          <6> QED
            BY <1>1, <2>1, <3>1, <6>2
        <5> QED
          BY <5>1, <5>2
      <4> QED
        BY <1>1, <2>1, <2>2, <3>1, <4>1
    <3>3. CASE ~(k <= j)
      <4>1. lo[j+1] <= lo[k]
        <5>1. CASE k = j + 1
          BY <1>1, <2>1, <5>1
        <5>2. CASE k # j + 1
          <6>1. j + 1 < k
            BY <2>1, <3>1, <3>3, <5>2
          <6>2. hi[j+1] < lo[k]
            BY <1>2, <2>1, <3>1, <6>1
          <6> QED
            BY <1>1, <2>1, <3>1, <6>2
        <5> QED
          BY <5>1, <5>2
      <4> QED
        BY <1>1, <2>1, <2>2, <3>1, <4>1
    <3> QED
      BY <3>2, <3>3
  <2>6. x \in hi[0] + 1 .. lo[m+1] - 1
    BY <1>1, <2>1, <2>3, <2>4
  <2>7. \A k \in 1 .. m : x \notin lo[k] .. hi[k]
    <3> SUFFICES ASSUME NEW k \in 1 .. m
                 PROVE  x \notin lo[k] .. hi[k]
      OBVIOUS
    <3>1. k \in 0 .. m+1
      OBVIOUS
    <3> QED
      BY <1>1, <2>5, <3>1
  <2> QED
    BY <2>6, <2>7 DEF Outside
<1>5. ASSUME NEW x \in Int, NEW y \in Int, NEW j \in 0 .. m, NEW k \in 0 .. m,
             InGap(lo, hi, j, x), InGap(lo, hi, k, y), x <= y, k < j
      PROVE  FALSE
  <2>1. /\ j \in 0 .. m+1 /\ k \in 0 .. m+1 /\ k + 1 \in 0 .. m+1 /\ j \in Int /\ k \in Int
    OBVIOUS
  <2>2. hi[j] < x /\ y < lo[k+1]
    BY <1>5 DEF InGap
  <2>3. lo[k+1] <= hi[j]
    <3>1. CASE k + 1 = j
      BY <1>1, <2>1, <3>1
    <3>2. CASE k + 1 # j
      <4>1. k + 1 < j
        BY <1>5, <2>1, <3>2
      <4>2. hi[k+1] < lo[j]
        BY <1>2, <2>1, <4>1
      <4> QED
        BY <1>1, <2>1, <4>2
    <3> QED
      BY <3>1, <3>2
  <2> QED
    BY <1>1, <1>5, <2>1, <2>2, <2>3
<1>6. \A x, y \in Int, j, k \in 0 .. m :
         InGap(lo, hi, j, x) /\ InGap(lo, hi, k, y) /\ x <= y => j <= k
  <2>1. \A j, k \in 0 .. m : j <= k \/ k < j
    OBVIOUS
  <2> QED
    BY <1>5, <2>1
<1> QED
  BY <1>3, <1>4, <1>6

(***************************************************************************)
(* When the gaps of one row of spans are those of another, moved, and Y    *)
(* holds there what X did, then the two have the same lines outside their  *)
(* spans.                                                                  *)
(***************************************************************************)
GapsMove(m, A, B, P, Q, X, Y) ==
    /\ Spans(m, A, B) /\ Spans(m, P, Q)
    /\ \A j \in 0 .. m : P[j+1] - A[j+1] = Q[j] - B[j]
    /\ \A j \in 0 .. m, i \in Int : InGap(A, B, j, i) => Y[i + (Q[j] - B[j])] = X[i]

\* The rest of the manuscript, which Intended compares, is the same in both.
LEMMA KeptAlike ==
    ASSUME NEW m \in Nat, NEW A, NEW B, NEW P, NEW Q, NEW X, NEW Y,
           GapsMove(m, A, B, P, Q, X, Y)
    PROVE  InOrder(X, Outside(m, A, B)) = InOrder(Y, Outside(m, P, Q))
<1> DEFINE S == Outside(m, A, B)
           U == Outside(m, P, Q)
           gap == [i \in S |-> CHOOSE j \in 0 .. m : InGap(A, B, j, i)]
           g == [i \in S |-> i + (Q[gap[i]] - B[gap[i]])]
<1> SUFFICES
      ASSUME Spans(m, A, B), Spans(m, P, Q),
             \A j \in 0 .. m : P[j+1] - A[j+1] = Q[j] - B[j],
             \A j \in 0 .. m, i \in Int : InGap(A, B, j, i) => Y[i + (Q[j] - B[j])] = X[i]
      PROVE  InOrder(X, S) = InOrder(Y, U)
  BY DEF GapsMove
<1>1. \A k \in 0 .. m+1 : /\ A[k] \in Int /\ B[k] \in Int /\ A[k] <= B[k]
                          /\ P[k] \in Int /\ Q[k] \in Int /\ P[k] <= Q[k]
  BY DEF Spans
<1>2. \A j \in 0 .. m : j \in 0 .. m+1 /\ j + 1 \in 0 .. m+1
  OBVIOUS
<1>3. S \in SUBSET Int /\ U \in SUBSET Int /\ IsFiniteSet(S) /\ IsFiniteSet(U)
  <2>1. 0 \in 0 .. m+1 /\ m + 1 \in 0 .. m+1
    OBVIOUS
  <2>2. B[0] + 1 \in Int /\ A[m+1] - 1 \in Int /\ Q[0] + 1 \in Int /\ P[m+1] - 1 \in Int
    BY <1>1, <2>1
  <2>3. S \in SUBSET (B[0] + 1 .. A[m+1] - 1) /\ U \in SUBSET (Q[0] + 1 .. P[m+1] - 1)
    BY DEF Outside
  <2>4. IsFiniteSet(B[0] + 1 .. A[m+1] - 1) /\ IsFiniteSet(Q[0] + 1 .. P[m+1] - 1)
    BY <2>2, FS_Interval
  <2>5. IsFiniteSet(S) /\ IsFiniteSet(U)
    BY <2>3, <2>4, FS_Subset
  <2> HIDE DEF S, U
  <2> QED
    BY <2>2, <2>3, <2>5
<1>4. \A i \in S : gap[i] \in 0 .. m /\ InGap(A, B, gap[i], i)
  <2> SUFFICES ASSUME NEW i \in S
               PROVE  gap[i] \in 0 .. m /\ InGap(A, B, gap[i], i)
    OBVIOUS
  <2>1. \E j \in 0 .. m : InGap(A, B, j, i)
    BY GapsAreOutside
  <2>2. gap[i] = CHOOSE j \in 0 .. m : InGap(A, B, j, i)
    OBVIOUS
  <2> HIDE DEF gap
  <2> QED
    BY <2>1, <2>2
<1>5. \A i \in S : g[i] = i + (Q[gap[i]] - B[gap[i]])
  OBVIOUS
<1>12. DOMAIN g = S /\ g = [i \in S |-> g[i]]
  OBVIOUS
<1> HIDE DEF gap, g, S, U
<1>6. \A i \in S : InGap(P, Q, gap[i], g[i]) /\ g[i] \in Int
  <2> SUFFICES ASSUME NEW i \in S
               PROVE  InGap(P, Q, gap[i], g[i]) /\ g[i] \in Int
    OBVIOUS
  <2> DEFINE j == gap[i]
  <2>1. j \in 0 .. m /\ j \in 0 .. m+1 /\ j + 1 \in 0 .. m+1
    BY <1>2, <1>4
  <2>2. B[j] < i /\ i < A[j+1] /\ i \in Int
    BY <1>3, <1>4 DEF InGap
  <2>3. P[j+1] - A[j+1] = Q[j] - B[j]
    BY <2>1
  <2>4. g[i] = i + (Q[j] - B[j])
    BY <1>5
  <2> HIDE DEF j
  <2>5. A[j+1] \in Int /\ B[j] \in Int /\ P[j+1] \in Int /\ Q[j] \in Int
    BY <1>1, <2>1
  <2>6. g[i] \in Int /\ Q[j] < g[i] /\ g[i] < P[j+1]
    BY <2>2, <2>3, <2>4, <2>5
  <2> QED
    BY <2>6 DEF InGap, j
<1>7. g \in [S -> U]
  <2>1. \A i \in S : g[i] \in U
    BY <1>4, <1>6, GapsAreOutside DEF U
  <2> QED
    BY <1>12, <2>1
<1>8. \A i, j \in S : i < j => g[i] < g[j]
  <2> SUFFICES ASSUME NEW i \in S, NEW j \in S, i < j
               PROVE  g[i] < g[j]
    OBVIOUS
  <2>1. i \in Int /\ j \in Int /\ i <= j /\ g[i] \in Int /\ g[j] \in Int
    BY <1>3, <1>6
  <2>2. gap[i] \in 0 .. m /\ gap[j] \in 0 .. m /\ gap[i] <= gap[j]
    BY <1>4, <2>1, GapsAreOutside
  <2>3. CASE gap[i] = gap[j]
    <3>1. Q[gap[i]] - B[gap[i]] \in Int
      BY <1>1, <1>2, <2>2
    <3> QED
      BY <1>5, <2>1, <2>3, <3>1
  <2>4. CASE gap[i] # gap[j]
    <3>1. ~(gap[j] <= gap[i])
      BY <2>2, <2>4
    <3>2. ~(g[j] <= g[i])
      BY <1>6, <2>2, <3>1, GapsAreOutside
    <3> QED
      BY <2>1, <3>2
  <2> QED
    BY <2>3, <2>4
<1>9. \A p \in U : \E i \in S : g[i] = p
  <2> SUFFICES ASSUME NEW p \in U
               PROVE  \E i \in S : g[i] = p
    OBVIOUS
  <2>1. PICK j \in 0 .. m : InGap(P, Q, j, p)
    BY GapsAreOutside DEF U
  <2> DEFINE i == p - (Q[j] - B[j])
  <2>2. j \in 0 .. m+1 /\ j + 1 \in 0 .. m+1 /\ p \in Int
    BY <1>2, <1>3
  <2>3. A[j+1] \in Int /\ B[j] \in Int /\ P[j+1] \in Int /\ Q[j] \in Int
    BY <1>1, <2>2
  <2>4. Q[j] < p /\ p < P[j+1] /\ P[j+1] - A[j+1] = Q[j] - B[j]
    BY <2>1 DEF InGap
  <2>5. i \in Int /\ B[j] < i /\ i < A[j+1] /\ i + (Q[j] - B[j]) = p
    BY <2>2, <2>3, <2>4
  <2> HIDE DEF i
  <2>6. InGap(A, B, j, i)
    BY <2>5 DEF InGap
  <2>7. i \in S
    BY <2>5, <2>6, GapsAreOutside DEF S
  <2>8. gap[i] = j
    <3>1. gap[i] \in 0 .. m /\ InGap(A, B, gap[i], i)
      BY <1>4, <2>7
    <3>2. gap[i] <= j /\ j <= gap[i]
      <4>1. i <= i
        BY <2>5
      <4> QED
        BY <2>5, <2>6, <3>1, <4>1, GapsAreOutside
    <3> QED
      BY <3>1, <3>2
  <2>9. g[i] = p
    BY <1>5, <2>5, <2>7, <2>8
  <2> QED
    BY <2>7, <2>9
<1>10. \A i \in S : Y[g[i]] = X[i]
  BY <1>3, <1>4, <1>5
<1> QED
  BY <1>3, <1>7, <1>8, <1>9, <1>10, SameInOrder

(***************************************************************************)
(* How far the lines behind entry k - 1 of the sorted list move.           *)
(***************************************************************************)
Moved(s, k) == MapThenSumSet(LAMBDA i : Delta(s[i]), 1 .. k - 1)

\* It is the sum of the changes in length of the entries in front.
LEMMA MovedSteps ==
    ASSUME NEW m \in Nat, NEW s, \A i \in 1 .. m : Delta(s[i]) \in Int
    PROVE  /\ Moved(s, 1) = 0
           /\ \A k \in 1 .. m+1 : Moved(s, k) \in Int
           /\ \A k \in 1 .. m : Moved(s, k+1) = Moved(s, k) + Delta(s[k])
<1> DEFINE d == [i \in 1 .. m |-> Delta(s[i])]
<1>1. ASSUME NEW k \in 1 .. m+1
      PROVE  /\ Moved(s, k) = SumOver(d, 1 .. k-1)
             /\ IsFiniteSet(1 .. k-1) /\ \A i \in 1 .. k-1 : i \in 1 .. m /\ d[i] = Delta(s[i])
  <2> DEFINE V == 1 .. k-1
             W == CHOOSE g : g = [t \in SUBSET V |->
                    IF t = {} THEN 0 ELSE Delta(s[Pick(t)]) + g[t \ {Pick(t)}]]
  <2>1. Moved(s, k) = W[V]
    BY DEF Moved, MapThenSumSet, MapThenFoldSet, Pick
  <2>2. IsFiniteSet(V)
    BY FS_Interval
  <2>3. \A i \in V : i \in 1 .. m /\ d[i] = Delta(s[i])
    <3>1. \A i \in V : i \in 1 .. m
      OBVIOUS
    <3> QED
      BY <3>1
  <2> HIDE DEF V, d
  <2>4. ASSUME NEW g
        PROVE  [t \in SUBSET V |-> IF t = {} THEN 0 ELSE d[Pick(t)] + g[t \ {Pick(t)}]]
                 = [t \in SUBSET V |->
                      IF t = {} THEN 0 ELSE Delta(s[Pick(t)]) + g[t \ {Pick(t)}]]
    <3>1. ASSUME NEW t \in SUBSET V, t # {}
          PROVE  d[Pick(t)] = Delta(s[Pick(t)])
      <4>1. Pick(t) \in V
        BY <3>1 DEF Pick
      <4> QED
        BY <2>3, <4>1
    <3> QED
      BY <3>1
  <2>5. PICK h : IsSum(d, V, h)
    BY <2>2, SumExists
  <2>6. h = [t \in SUBSET V |->
               IF t = {} THEN 0 ELSE Delta(s[Pick(t)]) + h[t \ {Pick(t)}]]
    BY <2>4, <2>5 DEF IsSum
  <2>7. W = [t \in SUBSET V |->
               IF t = {} THEN 0 ELSE Delta(s[Pick(t)]) + W[t \ {Pick(t)}]]
    BY <2>6
  <2> HIDE DEF W
  <2>8. IsSum(d, V, W)
    BY <2>4, <2>7 DEF IsSum
  <2>9. SumOver(d, V) = W[V]
    BY <2>2, <2>8, SumIsSum
  <2> QED
    BY <2>1, <2>2, <2>3, <2>9 DEF V
<1> HIDE DEF d
<1>2. \A k \in 1 .. m+1 : Moved(s, k) \in Int
  <2> SUFFICES ASSUME NEW k \in 1 .. m+1
               PROVE  Moved(s, k) \in Int
    OBVIOUS
  <2>1. \A i \in 1 .. k-1 : d[i] \in Int
    BY <1>1
  <2>2. SumOver(d, 1 .. k-1) \in Int
    BY <1>1, <2>1, SumStep
  <2> QED
    BY <1>1, <2>2
<1>3. Moved(s, 1) = 0
  <2>1. 1 \in 1 .. m+1 /\ 1 .. 1-1 = {}
    OBVIOUS
  <2>2. Moved(s, 1) = SumOver(d, {})
    BY <1>1, <2>1
  <2>3. SumOver(d, {}) = 0
    BY FS_EmptySet, SumStep
  <2> QED
    BY <2>2, <2>3
<1>4. ASSUME NEW k \in 1 .. m
      PROVE  Moved(s, k+1) = Moved(s, k) + Delta(s[k])
  <2>1. /\ k \in 1 .. m+1 /\ k + 1 \in 1 .. m+1 /\ (k + 1) - 1 = k
        /\ k \in 1 .. k /\ (1 .. k) \ {k} = 1 .. k-1
    OBVIOUS
  <2>2. Moved(s, k+1) = SumOver(d, 1 .. k) /\ IsFiniteSet(1 .. k)
        /\ \A i \in 1 .. k : i \in 1 .. m /\ d[i] = Delta(s[i])
    BY <1>1, <2>1
  <2>3. \A i \in 1 .. k : d[i] \in Int
    BY <2>2
  <2>4. SumOver(d, 1 .. k) = d[k] + SumOver(d, (1 .. k) \ {k})
    BY <2>1, <2>2, <2>3, SumStep
  <2>5. Moved(s, k) = SumOver(d, 1 .. k-1) /\ Moved(s, k) \in Int
    BY <1>1, <1>2, <2>1
  <2>6. d[k] = Delta(s[k]) /\ d[k] \in Int
    BY <2>1, <2>2, <2>3
  <2>7. Moved(s, k+1) = d[k] + Moved(s, k)
    BY <2>1, <2>2, <2>4, <2>5
  <2> QED
    BY <2>5, <2>6, <2>7
<1> QED
  BY <1>2, <1>3, <1>4

(***************************************************************************)
(* The spans of the entries in the base of n lines, and those of their     *)
(* replacements in the result.                                             *)
(***************************************************************************)
OldLo(s, m, n) == [k \in 0 .. m+1 |-> IF k = 0 THEN 0 ELSE IF k = m+1 THEN n + 1 ELSE s[k].a]
OldHi(s, m, n) == [k \in 0 .. m+1 |-> IF k = 0 THEN 0 ELSE IF k = m+1 THEN n + 1 ELSE s[k].b]
NewLo(s, m, n) ==
    [k \in 0 .. m+1 |-> IF k = 0 THEN 0 ELSE OldLo(s, m, n)[k] + Moved(s, k)]
NewHi(s, m, n) ==
    [k \in 0 .. m+1 |-> IF k = 0 THEN 0 ELSE IF k = m+1 THEN NewLo(s, m, n)[k]
                        ELSE NewLo(s, m, n)[k] + Len(s[k].repl) - 1]

LaidOut(s, m, n) ==
    LET A == OldLo(s, m, n)
        B == OldHi(s, m, n)
        P == NewLo(s, m, n)
        Q == NewHi(s, m, n)
    IN /\ Spans(m, A, B) /\ Spans(m, P, Q)
       /\ \A j \in 0 .. m : P[j+1] - A[j+1] = Q[j] - B[j]
       /\ B[0] = 0 /\ Q[0] = 0 /\ A[m+1] = n + 1
       /\ \A k \in 1 .. m : /\ A[k] = s[k].a /\ B[k] = s[k].b
                            /\ P[k] = Start(s, k) /\ Q[k] = P[k] + Len(s[k].repl) - 1

\* The spans of entries in line order are laid out so.
LEMMA LayoutFacts ==
    ASSUME NEW m \in Nat, NEW n \in Nat, NEW s, DOMAIN s = 1 .. m, Listed(s), InLineOrder(s),
           \A k \in 1 .. m : s[k].b <= n
    PROVE  LaidOut(s, m, n)
<1> DEFINE A == OldLo(s, m, n)
           B == OldHi(s, m, n)
           P == NewLo(s, m, n)
           Q == NewHi(s, m, n)
           M(k) == Moved(s, k)
           L(k) == Len(s[k].repl)
<1>1. \A k \in 1 .. m : /\ s[k].a \in Nat /\ s[k].b \in Nat /\ 1 <= s[k].a /\ s[k].a <= s[k].b
                        /\ L(k) \in Nat /\ L(k) >= 1
  <2> SUFFICES ASSUME NEW k \in 1 .. m
               PROVE  /\ s[k].a \in Nat /\ s[k].b \in Nat /\ 1 <= s[k].a /\ s[k].a <= s[k].b
                      /\ L(k) \in Nat /\ L(k) >= 1
    OBVIOUS
  <2>1. /\ s[k].a \in Nat /\ s[k].b \in Nat /\ 1 <= s[k].a /\ s[k].a <= s[k].b
        /\ s[k].repl \in Seq(DOMAIN Text) /\ s[k].repl # <<>>
    BY DEF Listed
  <2>2. L(k) \in Nat \ {0}
    BY <2>1, EmptySeq
  <2>3. L(k) >= 1
    <3> HIDE DEF L
    <3> QED
      BY <2>2
  <2> QED
    BY <2>1, <2>2, <2>3
<1>2. \A k \in 1 .. m : Delta(s[k]) = L(k) - (s[k].b - s[k].a + 1) /\ Delta(s[k]) \in Int
  <2> SUFFICES ASSUME NEW k \in 1 .. m
               PROVE  Delta(s[k]) = L(k) - (s[k].b - s[k].a + 1) /\ Delta(s[k]) \in Int
    OBVIOUS
  <2>1. Delta(s[k]) = L(k) - (s[k].b - s[k].a + 1)
    BY DEF Delta
  <2> HIDE DEF L
  <2> QED
    BY <1>1, <2>1
<1>3. /\ M(1) = 0
      /\ \A k \in 1 .. m+1 : M(k) \in Int
      /\ \A k \in 1 .. m : M(k+1) = M(k) + Delta(s[k])
  BY <1>2, MovedSteps
<1> HIDE DEF M, L
<1>4. /\ A[0] = 0 /\ B[0] = 0 /\ A[m+1] = n + 1 /\ B[m+1] = n + 1
      /\ \A k \in 1 .. m : A[k] = s[k].a /\ B[k] = s[k].b
  <2>1. 0 \in 0 .. m+1 /\ m + 1 \in 0 .. m+1 /\ m + 1 # 0
    OBVIOUS
  <2>2. \A k \in 1 .. m : k \in 0 .. m+1 /\ k # 0 /\ k # m + 1
    OBVIOUS
  <2> QED
    BY <2>1, <2>2 DEF OldLo, OldHi
<1>5. /\ P[0] = 0 /\ Q[0] = 0 /\ Q[m+1] = P[m+1]
      /\ \A k \in 1 .. m+1 : P[k] = A[k] + M(k)
      /\ \A k \in 1 .. m : Q[k] = P[k] + L(k) - 1
  <2>1. 0 \in 0 .. m+1 /\ m + 1 \in 0 .. m+1 /\ m + 1 # 0
    OBVIOUS
  <2>2. \A k \in 1 .. m+1 : k \in 0 .. m+1 /\ k # 0
    OBVIOUS
  <2>3. \A k \in 1 .. m : k \in 0 .. m+1 /\ k # 0 /\ k # m + 1
    OBVIOUS
  <2> QED
    BY <2>1, <2>2, <2>3 DEF NewLo, NewHi, M, L
<1>6. DOMAIN A = 0 .. m+1 /\ DOMAIN B = 0 .. m+1 /\ DOMAIN P = 0 .. m+1 /\ DOMAIN Q = 0 .. m+1
      /\ A = [k \in 0 .. m+1 |-> A[k]] /\ B = [k \in 0 .. m+1 |-> B[k]]
      /\ P = [k \in 0 .. m+1 |-> P[k]] /\ Q = [k \in 0 .. m+1 |-> Q[k]]
  BY DEF OldLo, OldHi, NewLo, NewHi
<1>7. \A k \in 1 .. m : M(k) = P[k] - A[k] /\ Start(s, k) = P[k]
  <2> SUFFICES ASSUME NEW k \in 1 .. m
               PROVE  M(k) = P[k] - A[k] /\ Start(s, k) = P[k]
    OBVIOUS
  <2>1. P[k] = s[k].a + M(k) /\ A[k] = s[k].a /\ M(k) \in Int
    BY <1>3, <1>4, <1>5
  <2>2. Start(s, k) = s[k].a + M(k)
    BY DEF Start, M, Moved
  <2> QED
    BY <1>1, <2>1, <2>2
<1> HIDE DEF A, B, P, Q
<1>8. \A k \in 0 .. m+1 : k = 0 \/ k = m + 1 \/ k \in 1 .. m
  OBVIOUS
<1>9. \A k \in 0 .. m+1 : A[k] \in Int /\ B[k] \in Int /\ A[k] <= B[k]
  BY <1>1, <1>4, <1>8
<1>10. \A k \in 0 .. m : B[k] < A[k+1]
  <2> SUFFICES ASSUME NEW k \in 0 .. m
               PROVE  B[k] < A[k+1]
    OBVIOUS
  <2>1. CASE k = m
    <3>1. CASE m = 0
      BY <1>4, <2>1, <3>1
    <3>2. CASE m # 0
      <4>1. m \in 1 .. m
        BY <3>2
      <4>2. s[m].b <= n /\ B[m] = s[m].b /\ s[m].b \in Nat
        BY <1>1, <1>4, <4>1
      <4> QED
        BY <1>4, <2>1, <4>2
    <3> QED
      BY <3>1, <3>2
  <2>2. CASE k # m /\ k = 0
    <3>1. k + 1 \in 1 .. m
      BY <2>2
    <3>2. A[k+1] = s[k+1].a /\ 1 <= s[k+1].a /\ s[k+1].a \in Nat
      BY <1>1, <1>4, <3>1
    <3> QED
      BY <1>4, <2>2, <3>2
  <2>3. CASE k # m /\ k # 0
    <3>1. k \in 1 .. m /\ k + 1 \in 1 .. m /\ k < k + 1
      BY <2>3
    <3>2. s[k].b < s[k+1].a
      BY <3>1 DEF InLineOrder
    <3> QED
      BY <1>4, <3>1, <3>2
  <2> QED
    BY <2>1, <2>2, <2>3
<1>11. \A k \in 0 .. m+1 : P[k] \in Int /\ Q[k] \in Int /\ P[k] <= Q[k]
  <2> SUFFICES ASSUME NEW k \in 0 .. m+1
               PROVE  P[k] \in Int /\ Q[k] \in Int /\ P[k] <= Q[k]
    OBVIOUS
  <2>1. CASE k = 0
    BY <1>5, <2>1
  <2>2. CASE k = m + 1
    <3>1. m + 1 \in 1 .. m+1 /\ A[m+1] \in Int
      BY <1>4
    <3>2. P[m+1] = A[m+1] + M(m+1) /\ M(m+1) \in Int
      BY <1>3, <1>5, <3>1
    <3> QED
      BY <1>5, <2>2, <3>1, <3>2
  <2>3. CASE k \in 1 .. m
    <3>1. k \in 1 .. m+1 /\ A[k] \in Int
      BY <1>9, <2>3
    <3>2. P[k] = A[k] + M(k) /\ M(k) \in Int /\ Q[k] = P[k] + L(k) - 1 /\ L(k) \in Nat /\ L(k) >= 1
      BY <1>1, <1>3, <1>5, <2>3, <3>1
    <3> QED
      BY <3>1, <3>2
  <2> QED
    BY <1>8, <2>1, <2>2, <2>3
<1>12. \A j \in 0 .. m : P[j+1] - A[j+1] = Q[j] - B[j]
  <2> SUFFICES ASSUME NEW j \in 0 .. m
               PROVE  P[j+1] - A[j+1] = Q[j] - B[j]
    OBVIOUS
  <2>1. j + 1 \in 1 .. m+1 /\ j + 1 \in 0 .. m+1 /\ j \in 0 .. m+1
    OBVIOUS
  <2>2. P[j+1] = A[j+1] + M(j+1) /\ A[j+1] \in Int /\ M(j+1) \in Int
    BY <1>3, <1>5, <1>9, <2>1
  <2>3. CASE j = 0
    <3>1. M(j+1) = 0
      BY <1>3, <2>3
    <3> QED
      BY <1>4, <1>5, <2>2, <2>3, <3>1
  <2>4. CASE j # 0
    <3>1. j \in 1 .. m
      BY <2>4
    <3>2. M(j+1) = M(j) + Delta(s[j]) /\ M(j) \in Int /\ P[j] = A[j] + M(j)
      BY <1>3, <1>5, <3>1
    <3>3. Delta(s[j]) = L(j) - (B[j] - A[j] + 1) /\ Q[j] = P[j] + L(j) - 1 /\ L(j) \in Nat
      BY <1>1, <1>2, <1>4, <1>5, <3>1
    <3>4. A[j] \in Int /\ B[j] \in Int
      BY <1>9, <2>1
    <3>5. Q[j] - B[j] = M(j) + (L(j) - (B[j] - A[j] + 1))
      BY <3>2, <3>3, <3>4, SMTT(30)
    <3>6. P[j+1] - A[j+1] = M(j+1)
      BY <2>2
    <3> QED
      BY <3>2, <3>3, <3>5, <3>6
  <2> QED
    BY <2>3, <2>4
<1>13. \A k \in 0 .. m : Q[k] < P[k+1]
  <2> SUFFICES ASSUME NEW k \in 0 .. m
               PROVE  Q[k] < P[k+1]
    OBVIOUS
  <2>1. k \in 0 .. m+1 /\ k + 1 \in 0 .. m+1
    OBVIOUS
  <2>2. /\ A[k+1] \in Int /\ B[k] \in Int /\ P[k+1] \in Int /\ Q[k] \in Int
        /\ B[k] < A[k+1] /\ P[k+1] - A[k+1] = Q[k] - B[k]
    BY <1>9, <1>10, <1>11, <1>12, <2>1
  <2> QED
    BY <2>2
<1>14. A \in [0 .. m+1 -> Int] /\ B \in [0 .. m+1 -> Int]
  BY <1>6, <1>9
<1>15. P \in [0 .. m+1 -> Int] /\ Q \in [0 .. m+1 -> Int]
  BY <1>6, <1>11
<1>16. Spans(m, A, B)
  BY <1>9, <1>10, <1>14 DEF Spans
<1>17. Spans(m, P, Q)
  BY <1>11, <1>13, <1>15 DEF Spans
<1>18. \A k \in 1 .. m : /\ A[k] = s[k].a /\ B[k] = s[k].b /\ P[k] = Start(s, k)
                         /\ Q[k] = P[k] + Len(s[k].repl) - 1
  BY <1>4, <1>5, <1>7 DEF L
<1> QED
  BY <1>4, <1>5, <1>12, <1>16, <1>17, <1>18 DEF A, B, P, Q, LaidOut

\* A splice makes lines of lines, also where it reaches beyond their end.
LEMMA SpliceIsSequence ==
    ASSUME NEW P, NEW X \in Seq(P), NEW e, e.a \in Nat, e.b \in Nat, e.repl \in Seq(P), 1 <= e.a
    PROVE  Splice(X, e) \in Seq(P)
<1> DEFINE n == Len(X)
           from == Min({e.a - 1, n})
           upto == Max({Min({e.b, n}), from})
<1>1. n \in Nat /\ \A i \in 1 .. n : X[i] \in P
  BY LenProperties, ElementOfSeq
<1>2. from \in Nat /\ from <= n
  <2>1. e.a - 1 \in Int /\ e.a - 1 >= 0 /\ n \in Int
    BY <1>1
  <2> HIDE DEF n
  <2>2. from = IF e.a - 1 <= n THEN e.a - 1 ELSE n
    BY ONLY <2>1, MinMaxOfTwo
  <2> QED
    BY <1>1, <2>1, <2>2
<1>3. Min({e.b, n}) \in Int
  <2>1. e.b \in Int /\ n \in Int
    BY <1>1
  <2> HIDE DEF n
  <2>2. Min({e.b, n}) = IF e.b <= n THEN e.b ELSE n
    BY ONLY <2>1, MinMaxOfTwo
  <2> QED
    BY <2>1, <2>2
<1>4. upto \in Nat
  <2> DEFINE lo == Min({e.b, n})
  <2>1. lo \in Int /\ from \in Int /\ from >= 0
    BY <1>2, <1>3
  <2> HIDE DEF lo, from
  <2>2. upto = IF lo <= from THEN from ELSE lo
    BY ONLY <2>1, MinMaxOfTwo DEF lo
  <2> QED
    BY <2>1, <2>2
<1>5. Splice(X, e) = SubSeq(X, 1, from) \o e.repl \o SubSeq(X, upto + 1, n)
  BY DEF Splice
<1> HIDE DEF n, from, upto
<1>6. SubSeq(X, 1, from) \in Seq(P)
  <2>1. \A i \in 1 .. from : X[i] \in P
    BY <1>1, <1>2
  <2> QED
    BY <1>2, <2>1, SubSeqProperties
<1>7. SubSeq(X, upto + 1, n) \in Seq(P)
  <2>1. \A i \in upto + 1 .. n : X[i] \in P
    BY <1>1, <1>4
  <2> QED
    BY <1>1, <1>4, <2>1, SubSeqProperties
<1>8. SubSeq(X, 1, from) \o e.repl \in Seq(P)
  BY <1>6, ConcatProperties
<1>9. (SubSeq(X, 1, from) \o e.repl) \o SubSeq(X, upto + 1, n) \in Seq(P)
  BY <1>7, <1>8, ConcatProperties
<1> QED
  BY <1>5, <1>9

(***************************************************************************)
(* What the lines are when the entries behind k have been applied: nothing *)
(* has happened in front of the next of them, and behind it replacements   *)
(* and gaps are where they will be, but for the moves still to come.       *)
(***************************************************************************)
Reached(base, s, m, k, X) ==
    LET n == Len(base)
        coming == NewHi(s, m, n)[k] - OldHi(s, m, n)[k]
    IN /\ X \in Seq(DOMAIN Text)
       /\ Len(X) = NewLo(s, m, n)[m+1] - 1 - coming
       /\ \A i \in 1 .. OldLo(s, m, n)[k+1] - 1 : X[i] = base[i]
       /\ \A j \in k + 1 .. m : \A q \in 1 .. Len(s[j].repl) :
            X[NewLo(s, m, n)[j] + q - 1 - coming] = s[j].repl[q]
       /\ \A j \in k + 1 .. m, i \in Int : InGap(OldLo(s, m, n), OldHi(s, m, n), j, i) =>
            X[i + (NewHi(s, m, n)[j] - OldHi(s, m, n)[j]) - coming] = base[i]

\* Applying entry k gets from k to k - 1.
LEMMA SpliceStep ==
    ASSUME NEW m \in Nat, NEW base \in Seq(DOMAIN Text), NEW s, DOMAIN s = 1 .. m,
           Listed(s), InLineOrder(s), \A j \in 1 .. m : s[j].b <= Len(base),
           NEW k \in 1 .. m, NEW X, Reached(base, s, m, k, X)
    PROVE  Reached(base, s, m, k-1, Splice(X, s[k]))
<1> DEFINE n == Len(base)
           A == OldLo(s, m, n)
           B == OldHi(s, m, n)
           P == NewLo(s, m, n)
           Q == NewHi(s, m, n)
           e == s[k]
           L(j) == Len(s[j].repl)
           Y == Splice(X, e)
           c == Q[k] - B[k]
           d == Q[k-1] - B[k-1]
<1>1. n \in Nat
  BY LenProperties
<1>2. /\ Spans(m, A, B) /\ Spans(m, P, Q)
      /\ \A j \in 0 .. m : P[j+1] - A[j+1] = Q[j] - B[j]
      /\ B[0] = 0 /\ \A j \in 1 .. m : /\ A[j] = s[j].a /\ B[j] = s[j].b
                                       /\ Q[j] = P[j] + L(j) - 1
  <2> HIDE DEF n
  <2>1. DOMAIN s = 1 .. m /\ Listed(s) /\ InLineOrder(s) /\ \A j \in 1 .. m : s[j].b <= n
    BY DEF n
  <2>2. LaidOut(s, m, n)
    BY ONLY <1>1, <2>1, LayoutFacts
  <2> QED
    BY <2>2 DEF LaidOut
<1>3. /\ X \in Seq(DOMAIN Text)
      /\ Len(X) = P[m+1] - 1 - c
      /\ \A i \in 1 .. A[k+1] - 1 : X[i] = base[i]
      /\ \A j \in k + 1 .. m : \A q \in 1 .. L(j) : X[P[j] + q - 1 - c] = s[j].repl[q]
      /\ \A j \in k + 1 .. m, i \in Int : InGap(A, B, j, i) =>
            X[i + (Q[j] - B[j]) - c] = base[i]
  BY DEF Reached
<1> SUFFICES
      /\ Y \in Seq(DOMAIN Text)
      /\ Len(Y) = P[m+1] - 1 - d
      /\ \A i \in 1 .. A[k] - 1 : Y[i] = base[i]
      /\ \A j \in k .. m : \A q \in 1 .. L(j) : Y[P[j] + q - 1 - d] = s[j].repl[q]
      /\ \A j \in k .. m, i \in Int : InGap(A, B, j, i) =>
            Y[i + (Q[j] - B[j]) - d] = base[i]
  <2>1. (k - 1) + 1 = k
    OBVIOUS
  <2> QED
    BY <2>1 DEF Reached
<1> HIDE DEF n, A, B, P, Q
<1>4. /\ e.a \in Nat /\ e.b \in Nat /\ e.repl \in Seq(DOMAIN Text)
      /\ 1 <= e.a /\ e.a <= e.b /\ e.a = A[k] /\ e.b = B[k]
  BY <1>2 DEF Listed
<1>5. \A j \in 0 .. m+1 : A[j] \in Int /\ B[j] \in Int /\ P[j] \in Int /\ Q[j] \in Int
                          /\ A[j] <= B[j] /\ P[j] <= Q[j]
  BY <1>2 DEF Spans
<1>6. \A i, j \in 0 .. m+1 : i < j => B[i] < A[j] /\ Q[i] < P[j]
  BY <1>2, SpansInOrder
<1>7. /\ k \in 0 .. m+1 /\ k + 1 \in 0 .. m+1 /\ k - 1 \in 0 .. m /\ k - 1 \in 0 .. m+1
      /\ m + 1 \in 0 .. m+1 /\ (k - 1) + 1 = k /\ k \in 0 .. m /\ k < m + 1 /\ k < k + 1
      /\ 0 \in 0 .. m+1 /\ 0 < k
  OBVIOUS
<1>8. c \in Int /\ d \in Int /\ d = P[k] - A[k] /\ c = P[k+1] - A[k+1]
  <2>1. P[(k-1)+1] - A[(k-1)+1] = Q[k-1] - B[k-1]
    BY <1>2, <1>7
  <2>2. P[k+1] - A[k+1] = Q[k] - B[k]
    BY <1>2, <1>7
  <2> QED
    BY <1>5, <1>7, <2>1, <2>2
<1>9. L(k) \in Nat /\ Len(e.repl) = L(k)
  BY <1>4, LenProperties
<1> HIDE DEF L
<1>10. Delta(e) = c - d
  <2>1. Delta(e) = L(k) - (B[k] - A[k] + 1)
    BY <1>4, <1>9 DEF Delta
  <2>2. Q[k] = P[k] + L(k) - 1
    BY <1>2
  <2>3. d = P[k] - A[k] /\ c = Q[k] - B[k]
    BY <1>8
  <2>4. L(k) \in Int /\ B[k] \in Int /\ A[k] \in Int /\ P[k] \in Int /\ Q[k] \in Int
    BY <1>5, <1>7, <1>9
  <2>5. ASSUME NEW l \in Int, l = L(k), NEW a \in Int, a = A[k], NEW b \in Int, b = B[k],
               NEW p \in Int, p = P[k], NEW q \in Int, q = Q[k]
        PROVE  L(k) - (B[k] - A[k] + 1) = (Q[k] - B[k]) - (P[k] - A[k])
    <3>1. q = p + l - 1
      BY ONLY <2>2, <2>5
    <3>2. l - (b - a + 1) = (q - b) - (p - a)
      BY ONLY <3>1
    <3> QED
      BY ONLY <2>5, <3>2
  <2>6. L(k) - (B[k] - A[k] + 1) = (Q[k] - B[k]) - (P[k] - A[k])
    BY ONLY <2>4, <2>5
  <2> HIDE DEF c, d
  <2>7. c - d = (Q[k] - B[k]) - (P[k] - A[k])
    BY ONLY <2>3, Zenon
  <2> QED
    BY ONLY <2>1, <2>6, <2>7, Zenon
<1>11. e.b <= Len(X)
  <2>1. Q[k] < P[m+1]
    BY <1>6, <1>7
  <2>2. Len(X) = P[m+1] - 1 - (Q[k] - B[k])
    BY <1>3
  <2> QED
    BY <1>4, <1>5, <1>7, <2>1, <2>2
<1> HIDE DEF c, d, e
<1> HIDE DEF Y
<1>12. /\ Y \in Seq(DOMAIN Text) /\ Len(Y) = Len(X) + Delta(e)
       /\ \A i \in 1 .. e.a - 1 : Y[i] = X[i]
       /\ \A q \in 1 .. Len(e.repl) : Y[e.a + q - 1] = e.repl[q]
       /\ \A i \in e.b + 1 .. Len(X) : Y[i + Delta(e)] = X[i]
  <2>1. e.b <= Len(X) /\ X \in Seq(DOMAIN Text)
    BY <1>3, <1>11
  <2> QED
    BY ONLY <1>4, <2>1, SpliceFacts DEF Y
<1>13. Len(Y) = P[m+1] - 1 - d
  <2>1. Len(Y) = (P[m+1] - 1 - c) + (c - d) /\ P[m+1] \in Int
    BY <1>3, <1>5, <1>7, <1>10, <1>12
  <2> QED
    BY <1>8, <2>1
<1>14. \A i \in 1 .. A[k] - 1 : Y[i] = base[i]
  <2>1. A[k] <= B[k] /\ B[k] < A[k+1] /\ A[k] \in Int /\ B[k] \in Int /\ A[k+1] \in Int
    BY <1>5, <1>6, <1>7
  <2>2. \A i \in 1 .. A[k] - 1 : i \in 1 .. A[k+1] - 1
    BY <2>1
  <2>3. \A i \in 1 .. A[k] - 1 : Y[i] = X[i]
    BY <1>4, <1>12
  <2> QED
    BY <1>3, <2>2, <2>3
\* What is behind the span of e moves by Delta(e).
<1>15. ASSUME NEW z \in Int, Q[k] < z, z < P[m+1]
       PROVE  Y[z - d] = X[z - c]
  <2> DEFINE x == z - c
  <2>1. c = Q[k] - B[k] /\ Q[k] \in Int /\ B[k] \in Int /\ P[m+1] \in Int
    BY <1>5, <1>7 DEF c
  <2>2. B[k] < x
    BY <1>15, <2>1
  <2>3. x <= P[m+1] - 1 - c
    BY <1>8, <1>15, <2>1
  <2>4. x \in Int /\ x + (c - d) = z - d
    BY <1>8
  <2> HIDE DEF x
  <2>5. x \in e.b + 1 .. Len(X)
    <3>1. Len(X) = P[m+1] - 1 - c /\ e.b = B[k] /\ B[k] \in Int
      BY <1>3, <1>4, <1>5, <1>7
    <3>2. c \in Int /\ P[m+1] \in Int /\ x \in Int /\ B[k] \in Int
      BY ONLY <1>8, <2>1, <2>4, Zenon
    <3>3. x \in Int /\ B[k] + 1 <= x /\ P[m+1] - 1 - c \in Int /\ B[k] + 1 \in Int
      BY ONLY <2>2, <3>2
    <3>4. \A lo, hi, v \in Int : lo <= v /\ v <= hi => v \in lo .. hi
      OBVIOUS
    <3>5. x \in B[k] + 1 .. P[m+1] - 1 - c
      BY ONLY <2>3, <3>3, <3>4, Zenon
    <3> QED
      BY ONLY <3>1, <3>5, Zenon
  <2>6. Y[x + Delta(e)] = X[x]
    BY <1>12, <2>5
  <2> QED
    BY <1>10, <2>4, <2>6 DEF x
<1>16. \A j \in k .. m : j = k \/ j \in k + 1 .. m
  OBVIOUS
<1>17. \A j \in k + 1 .. m : /\ j \in 0 .. m+1 /\ j + 1 \in 0 .. m+1 /\ k < j /\ j < m + 1
                             /\ j \in 1 .. m /\ j \in k + 1 .. m
  OBVIOUS
<1>18. ASSUME NEW j \in k .. m, NEW q \in 1 .. L(j)
       PROVE  Y[P[j] + q - 1 - d] = s[j].repl[q]
  <2>1. CASE j = k
    <3>1. q \in 1 .. Len(e.repl) /\ e.repl = s[j].repl /\ q \in Int
      BY <1>9, <2>1 DEF e, L
    <3>2. Y[e.a + q - 1] = e.repl[q]
      BY <1>12, <3>1
    <3>3. e.a + q - 1 = P[j] + q - 1 - d
      <4>1. P[k] \in Int /\ A[k] \in Int /\ e.a = A[k] /\ d = P[k] - A[k]
        BY <1>4, <1>5, <1>7, <1>8
      <4> QED
        BY <2>1, <3>1, <4>1
    <3> QED
      BY <3>1, <3>2, <3>3
  <2>2. CASE j \in k + 1 .. m
    <3> DEFINE z == P[j] + q - 1
    <3>1. /\ P[j] \in Int /\ Q[j] \in Int /\ Q[k] \in Int /\ P[m+1] \in Int
          /\ Q[k] < P[j] /\ Q[j] < P[m+1]
      BY <1>5, <1>6, <1>7, <1>17, <2>2
    <3>2. Q[j] = P[j] + L(j) - 1
      BY <1>2, <1>17, <2>2 DEF L
    <3>3. q \in Int /\ 1 <= q /\ q <= L(j) /\ L(j) \in Int
      <4>1. j \in 1 .. m /\ s[j].repl \in Seq(DOMAIN Text)
        BY <1>17, <2>2 DEF Listed
      <4>2. L(j) \in Nat
        BY <4>1, LenProperties DEF L
      <4> QED
        BY <4>2
    <3>4. z \in Int /\ Q[k] < z /\ z < P[m+1]
      BY <3>1, <3>2, <3>3, SMTT(30)
    <3>5. X[P[j] + q - 1 - c] = s[j].repl[q]
      BY <1>3, <2>2
    <3>6. P[j] + q - 1 - c = z - c
      BY <1>8, <3>1, <3>3, SMTT(30)
    <3> HIDE DEF z
    <3>7. Y[z - d] = X[z - c]
      BY <1>15, <3>4
    <3>8. z - d = P[j] + q - 1 - d
      BY <1>8, <3>1, <3>3, SMTT(30) DEF z
    <3> QED
      BY ONLY <3>5, <3>6, <3>7, <3>8
  <2> QED
    BY <1>16, <2>1, <2>2
<1>19. ASSUME NEW j \in k .. m, NEW i \in Int, InGap(A, B, j, i)
       PROVE  Y[i + (Q[j] - B[j]) - d] = base[i]
  <2>1. B[j] < i /\ i < A[j+1]
    BY <1>19 DEF InGap
  <2> DEFINE z == i + (Q[j] - B[j])
  <2>2. j \in 0 .. m+1 /\ j + 1 \in 0 .. m+1 /\ j \in 0 .. m
    BY <1>7, <1>16, <1>17
  <2>3. /\ A[j+1] \in Int /\ B[j] \in Int /\ P[j+1] \in Int /\ Q[j] \in Int
        /\ P[j+1] - A[j+1] = Q[j] - B[j]
    BY <1>2, <1>5, <2>2
  <2>4. z \in Int /\ Q[j] < z /\ z < P[j+1]
    BY <2>1, <2>3, SMTT(30)
  <2>5. Q[k] \in Int /\ P[m+1] \in Int /\ Q[k] <= Q[j] /\ P[j+1] <= P[m+1]
    <3>1. Q[k] \in Int /\ P[m+1] \in Int
      BY <1>5, <1>7
    <3>2. Q[k] <= Q[j]
      <4>1. CASE j = k
        BY <3>1, <4>1
      <4>2. CASE j \in k + 1 .. m
        <5>1. Q[k] < P[j] /\ P[j] <= Q[j] /\ P[j] \in Int
          BY <1>5, <1>6, <1>7, <1>17, <4>2
        <5> QED
          BY <2>3, <3>1, <5>1
      <4> QED
        BY <1>16, <4>1, <4>2
    <3>3. P[j+1] <= P[m+1]
      <4>1. CASE j = m
        BY <3>1, <4>1
      <4>2. CASE j # m
        <5>1. j + 1 < m + 1
          BY <2>2, <4>2
        <5>2. Q[j+1] < P[m+1] /\ P[j+1] <= Q[j+1] /\ Q[j+1] \in Int
          BY <1>5, <1>6, <1>7, <2>2, <5>1
        <5> QED
          BY <2>3, <3>1, <5>2
      <4> QED
        BY <4>1, <4>2
    <3> QED
      BY <3>1, <3>2, <3>3
  <2> HIDE DEF z
  <2>6. Q[k] < z /\ z < P[m+1]
    BY ONLY <2>3, <2>4, <2>5
  <2> HIDE DEF z
  <2>7. Y[z - d] = X[z - c]
    BY <1>15, <2>4, <2>6
  <2>8. X[z - c] = base[i]
    <3>1. CASE j = k
      <4>1. 0 <= B[k]
        <5>1. B[0] < A[k] /\ A[k] <= B[k]
          BY <1>5, <1>6, <1>7
        <5> QED
          BY <1>2, <1>5, <1>7, <5>1
      <4>2. i \in 1 .. A[k+1] - 1
        BY <2>1, <2>3, <3>1, <4>1
      <4>3. z - c = i
        <5>1. z = i + (Q[k] - B[k]) /\ c = Q[k] - B[k] /\ c \in Int
          BY <1>8, <3>1 DEF z, c
        <5> QED
          BY <5>1
      <4> QED
        BY <1>3, <4>2, <4>3
    <3>2. CASE j \in k + 1 .. m
      <4>1. X[i + (Q[j] - B[j]) - c] = base[i]
        BY <1>3, <1>19, <3>2
      <4>2. i + (Q[j] - B[j]) - c = z - c
        BY <1>8, <2>3 DEF z
      <4> QED
        BY ONLY <4>1, <4>2
    <3> QED
      BY <1>16, <3>1, <3>2
  <2>9. z - d = i + (Q[j] - B[j]) - d
    BY <1>8, <2>3 DEF z
  <2> QED
    BY ONLY <2>7, <2>8, <2>9
<1> QED
  BY <1>12, <1>13, <1>14, <1>18, <1>19

\* Before the first entry is applied the lines are the base.
LEMMA ReachedFirst ==
    ASSUME NEW m \in Nat, NEW base \in Seq(DOMAIN Text), NEW s, DOMAIN s = 1 .. m,
           Listed(s), InLineOrder(s), \A j \in 1 .. m : s[j].b <= Len(base)
    PROVE  Reached(base, s, m, m, base)
<1> DEFINE n == Len(base)
           A == OldLo(s, m, n)
           B == OldHi(s, m, n)
           P == NewLo(s, m, n)
           Q == NewHi(s, m, n)
           c == Q[m] - B[m]
<1>1. n \in Nat
  BY LenProperties
<1>2. /\ Spans(m, A, B) /\ Spans(m, P, Q)
      /\ \A j \in 0 .. m : P[j+1] - A[j+1] = Q[j] - B[j]
      /\ A[m+1] = n + 1
  <2> HIDE DEF n
  <2>1. DOMAIN s = 1 .. m /\ Listed(s) /\ InLineOrder(s) /\ \A j \in 1 .. m : s[j].b <= n
    BY DEF n
  <2>2. LaidOut(s, m, n)
    BY ONLY <1>1, <2>1, LayoutFacts
  <2> QED
    BY <2>2 DEF LaidOut
<1> SUFFICES
      /\ Len(base) = P[m+1] - 1 - c
      /\ \A j \in m + 1 .. m : FALSE
  BY DEF Reached
<1> HIDE DEF A, B, P, Q
<1>3. c = P[m+1] - A[m+1] /\ P[m+1] \in Int /\ A[m+1] \in Int
  <2>1. m + 1 \in 0 .. m+1 /\ m \in 0 .. m
    OBVIOUS
  <2> QED
    BY <1>2, <2>1 DEF Spans
<1>4. c \in Int
  BY <1>3
<1> HIDE DEF n, c
<1>5. n = P[m+1] - 1 - c
  <2>1. A[m+1] = n + 1
    BY <1>2
  <2> QED
    BY ONLY <1>1, <1>3, <2>1
<1>6. \A j \in m + 1 .. m : FALSE
  OBVIOUS
<1>7. Len(base) = P[m+1] - 1 - c
  BY <1>5 DEF n
<1> QED
  BY <1>6, <1>7

\* When all have been applied they are where the layout has them.
LEMMA AppliedReached ==
    ASSUME NEW m \in Nat, NEW base \in Seq(DOMAIN Text), NEW E,
           DOMAIN Sorted(E) = 1 .. m, Listed(Sorted(E)), InLineOrder(Sorted(E)),
           \A j \in 1 .. m : Sorted(E)[j].b <= Len(base)
    PROVE  Reached(base, Sorted(E), m, 0, Applied(base, E))
<1> DEFINE s == Sorted(E)
           t == BottomUp(E)
           A == Seq(DOMAIN Text)
<1>1. DOMAIN t = 1 .. m /\ \A k \in 1 .. m : t[k] = s[m + 1 - k]
  BY BottomUpFacts
<1>2. /\ DOMAIN s = 1 .. m /\ Listed(s) /\ InLineOrder(s) /\ base \in A
      /\ \A j \in 1 .. m : s[j].b <= Len(base)
  OBVIOUS
<1> HIDE DEF s, t
<1>4. ASSUME NEW Y \in A, NEW k \in 1 .. m
      PROVE  Splice(Y, t[k]) \in A
  <2>1. m + 1 - k \in DOMAIN s /\ t[k] = s[m + 1 - k]
    BY <1>1, <1>2
  <2>2. t[k].a \in Nat /\ t[k].b \in Nat /\ t[k].repl \in A /\ 1 <= t[k].a
    BY <1>2, <2>1 DEF Listed
  <2> QED
    BY <2>2, SpliceIsSequence
<1> HIDE DEF A
<1>5. PICK o \in [0 .. m -> A] : /\ o[0] = base /\ Applied(base, E) = o[m]
                                 /\ \A k \in 1 .. m : o[k] = Splice(o[k-1], t[k])
  <2>1. \A Y \in A, k \in 1 .. m : Splice(Y, t[k]) \in A
    BY <1>4
  <2>2. DOMAIN t = 1 .. m /\ base \in A
    BY <1>1, <1>2
  <2>3. AppliedInSteps(base, E, m, A)
    BY ONLY <2>1, <2>2, FoldSteps DEF t
  <2> QED
    BY <2>3 DEF t, AppliedInSteps
<1> DEFINE Good == {c \in 0 .. m : Reached(base, s, m, m - c, o[c])}
<1>6. 0 \in Good
  <2>1. Reached(base, s, m, m, base)
    BY <1>2, ReachedFirst DEF A
  <2>2. m - 0 = m /\ 0 \in 0 .. m
    OBVIOUS
  <2> QED
    BY <1>5, <2>1, <2>2
<1>7. ASSUME NEW c \in 0 .. m - 1, c \in Good
      PROVE  c + 1 \in Good
  <2>1. /\ m - c \in 1 .. m /\ c + 1 \in 1 .. m /\ m + 1 - (c + 1) = m - c
        /\ (c + 1) - 1 = c /\ (m - c) - 1 = m - (c + 1) /\ c + 1 \in 0 .. m
    OBVIOUS
  <2>2. o[c+1] = Splice(o[c], s[m-c])
    BY <1>1, <1>5, <2>1
  <2>3. Reached(base, s, m, m - c, o[c])
    BY <1>7
  <2> HIDE DEF Good
  <2>4. Reached(base, s, m, (m - c) - 1, Splice(o[c], s[m-c]))
    BY <1>2, <2>1, <2>3, SpliceStep DEF A
  <2>5. Reached(base, s, m, m - (c + 1), o[c+1])
    BY ONLY <2>1, <2>2, <2>4, Zenon
  <2> QED
    BY <2>1, <2>5 DEF Good
<1>8. m \in Good
  <2> HIDE DEF Good
  <2>1. 0 .. m \subseteq Good
    BY <1>6, <1>7, UpToN
  <2> QED
    BY <2>1
<1>9. m - m = 0
  OBVIOUS
<1> QED
  BY <1>5, <1>8, <1>9 DEF s

(***************************************************************************)
(* What the lines are when all has been applied is what the entries say:   *)
(* every replacement at its place, and the rest as in the base.            *)
(***************************************************************************)
LEMMA IntendedResult ==
    ASSUME NEW m \in Nat, NEW base \in Seq(DOMAIN Text), NEW E, base = AgreedBase,
           DOMAIN Sorted(E) = 1 .. m, Listed(Sorted(E)), InLineOrder(Sorted(E)),
           \A j \in 1 .. m : Sorted(E)[j].b <= Len(base),
           NEW out, Reached(base, Sorted(E), m, 0, out)
    PROVE  Intended(base, E, out)
<1> DEFINE s == Sorted(E)
           n == Len(base)
           A == OldLo(s, m, n)
           B == OldHi(s, m, n)
           P == NewLo(s, m, n)
           Q == NewHi(s, m, n)
           L(j) == Len(s[j].repl)
           place(k) == Start(s, k) .. Start(s, k) + Len(s[k].repl) - 1
           replaced == UNION {place(k) : k \in DOMAIN s}
           outside == {i \in DOMAIN base : \A k \in DOMAIN s : i \notin s[k].a .. s[k].b}
<1> SUFFICES
      /\ \A k \in 1 .. m : cur(out, Start(s, k), Start(s, k) + L(k) - 1) = s[k].repl
      /\ InOrder(out, DOMAIN out \ replaced) = InOrder(base, outside)
  BY DEF Intended, InOrder
<1>1. n \in Nat /\ DOMAIN base = 1 .. n
  BY LenProperties
<1>2. DOMAIN s = 1 .. m /\ Listed(s) /\ InLineOrder(s) /\ Reached(base, s, m, 0, out)
  OBVIOUS
<1>3. /\ Spans(m, A, B) /\ Spans(m, P, Q)
      /\ \A j \in 0 .. m : P[j+1] - A[j+1] = Q[j] - B[j]
      /\ B[0] = 0 /\ Q[0] = 0 /\ A[m+1] = n + 1
      /\ \A k \in 1 .. m : /\ A[k] = s[k].a /\ B[k] = s[k].b /\ P[k] = Start(s, k)
                           /\ Q[k] = P[k] + L(k) - 1
  <2>1. DOMAIN s = 1 .. m /\ Listed(s) /\ InLineOrder(s) /\ \A j \in 1 .. m : s[j].b <= n
    OBVIOUS
  <2> HIDE DEF s, n
  <2>2. LaidOut(s, m, n)
    BY ONLY <1>1, <2>1, LayoutFacts
  <2> QED
    BY <2>2 DEF LaidOut
<1>4. Q[0] - B[0] = 0
  BY <1>3
<1>5. /\ out \in Seq(DOMAIN Text)
      /\ Len(out) = P[m+1] - 1 - (Q[0] - B[0])
      /\ \A i \in 1 .. A[0+1] - 1 : out[i] = base[i]
      /\ \A j \in 0 + 1 .. m : \A q \in 1 .. L(j) :
            out[P[j] + q - 1 - (Q[0] - B[0])] = s[j].repl[q]
      /\ \A j \in 0 + 1 .. m, i \in Int : InGap(A, B, j, i) =>
            out[i + (Q[j] - B[j]) - (Q[0] - B[0])] = base[i]
  BY <1>2 DEF Reached
<1> HIDE DEF s, n, A, B, P, Q
<1>6. \A j \in 0 .. m+1 : A[j] \in Int /\ B[j] \in Int /\ P[j] \in Int /\ Q[j] \in Int
                          /\ A[j] <= B[j] /\ P[j] <= Q[j]
  BY <1>3 DEF Spans
<1>7. \A i, j \in 0 .. m+1 : i < j => B[i] < A[j] /\ Q[i] < P[j]
  BY <1>3, SpansInOrder
<1>8. /\ 0 + 1 = 1 /\ 0 \in 0 .. m+1 /\ m + 1 \in 0 .. m+1 /\ 1 \in 0 .. m+1
      /\ \A k \in 1 .. m : k \in 0 .. m+1 /\ 0 < k /\ k < m+1
  OBVIOUS
<1>9. Len(out) = P[m+1] - 1 /\ P[m+1] \in Int /\ DOMAIN out = 1 .. P[m+1] - 1
  <2>1. Len(out) = P[m+1] - 1 - 0 /\ P[m+1] \in Int
    BY <1>4, <1>5, <1>6, <1>8
  <2>2. Len(out) = P[m+1] - 1
    BY ONLY <2>1
  <2>3. DOMAIN out = 1 .. Len(out)
    BY <1>5, LenProperties
  <2> QED
    BY ONLY <2>1, <2>2, <2>3
<1>10. ASSUME NEW k \in 1 .. m
       PROVE  cur(out, Start(s, k), Start(s, k) + L(k) - 1) = s[k].repl
  <2>1. /\ P[k] \in Int /\ Q[k] \in Int /\ P[k] = Start(s, k) /\ Q[k] = Start(s, k) + L(k) - 1
        /\ 0 < P[k] /\ Q[k] < P[m+1]
    <3>1. Q[0] < P[k] /\ Q[k] < P[m+1]
      BY <1>7, <1>8
    <3> QED
      BY <1>3, <1>6, <1>8, <3>1
  <2>2. s[k].repl \in Seq(DOMAIN Text) /\ L(k) \in Nat /\ L(k) = Len(s[k].repl)
    <3>1. s[k].repl \in Seq(DOMAIN Text)
      BY <1>2 DEF Listed
    <3> QED
      BY <3>1, LenProperties
  <2>3. ASSUME NEW q \in 1 .. L(k)
        PROVE  out[P[k] + q - 1] = s[k].repl[q]
    <3>1. out[P[k] + q - 1 - 0] = s[k].repl[q]
      BY <1>4, <1>5, <1>8
    <3>2. P[k] + q - 1 - 0 = P[k] + q - 1
      BY <2>1, <2>2
    <3> QED
      BY ONLY <3>1, <3>2
  <2> HIDE DEF L
  <2>4. Q[k] - P[k] + 1 = L(k) /\ P[k] <= Q[k]
    <3>1. Q[k] = P[k] + L(k) - 1
      BY <2>1
    <3>2. P[k] <= Q[k]
      BY <1>6, <1>8
    <3> QED
      BY ONLY <2>1, <2>2, <3>1, <3>2, SMTT(30)
  <2>5. Min({Q[k], Len(out)}) = Q[k]
    <3>1. Len(out) \in Int /\ Q[k] <= Len(out)
      BY <1>9, <2>1
    <3> QED
      BY <2>1, <3>1, MinMaxOfTwo
  <2>6. \A i \in P[k] .. Q[k] : out[i] \in DOMAIN Text
    <3>1. \A i \in P[k] .. Q[k] : i \in 1 .. Len(out)
      BY <1>9, <2>1
    <3> QED
      BY <1>5, <3>1, ElementOfSeq
  <2> DEFINE U == SubSeq(out, P[k], Q[k])
  <2>7. /\ U \in Seq(DOMAIN Text)
        /\ Len(U) = IF P[k] <= Q[k] THEN Q[k] - P[k] + 1 ELSE 0
        /\ \A i \in 1 .. Q[k] - P[k] + 1 : U[i] = out[P[k] + i - 1]
    BY ONLY <2>1, <2>6, SubSeqProperties
  <2> HIDE DEF U
  <2>8. Len(U) = L(k) /\ \A i \in 1 .. L(k) : U[i] = out[P[k] + i - 1]
    BY ONLY <2>4, <2>7
  <2>9. Len(U) = Len(s[k].repl) /\ \A i \in 1 .. Len(U) : U[i] = s[k].repl[i]
    BY <2>2, <2>3, <2>8
  <2>10. U = s[k].repl
    BY ONLY <2>2, <2>7, <2>9, SeqEqual
  <2>11. cur(out, Start(s, k), Start(s, k) + L(k) - 1) = cur(out, P[k], Q[k])
    BY ONLY <2>1, Zenon
  <2> QED
    BY ONLY <2>5, <2>10, <2>11 DEF cur, U
<1>11. outside = Outside(m, A, B)
  <2>1. B[0] + 1 = 1 /\ A[m+1] - 1 = n
    BY <1>1, <1>3
  <2>2. DOMAIN base = B[0] + 1 .. A[m+1] - 1
    BY ONLY <1>1, <2>1, Zenon
  <2>3. \A k \in 1 .. m : s[k].a .. s[k].b = A[k] .. B[k]
    BY <1>3
  <2> QED
    BY ONLY <1>2, <2>2, <2>3 DEF Outside
<1>12. DOMAIN out \ replaced = Outside(m, P, Q)
  <2>1. Q[0] + 1 = 1
    BY <1>3
  <2>2. DOMAIN out = Q[0] + 1 .. P[m+1] - 1
    BY ONLY <1>9, <2>1, Zenon
  <2>3. \A k \in 1 .. m : place(k) = P[k] .. Q[k]
    BY <1>3
  <2> HIDE DEF place
  <2> QED
    BY ONLY <1>2, <2>2, <2>3 DEF Outside
<1>13. ASSUME NEW j \in 0 .. m, NEW i \in Int, InGap(A, B, j, i)
       PROVE  out[i + (Q[j] - B[j])] = base[i]
  <2>1. CASE j = 0
    <3>1. 0 < i /\ i < A[1] /\ A[1] \in Int
      BY <1>3, <1>6, <1>8, <1>13, <2>1 DEF InGap
    <3>2. i \in 1 .. A[0+1] - 1
      BY <1>8, <3>1
    <3>3. i + (Q[j] - B[j]) = i
      BY <1>4, <2>1
    <3> QED
      BY <1>5, <3>2, <3>3
  <2>2. CASE j # 0
    <3>1. j \in 0 + 1 .. m /\ j \in 0 .. m+1
      BY <2>2
    <3>2. out[i + (Q[j] - B[j]) - 0] = base[i]
      BY <1>4, <1>5, <1>13, <3>1
    <3>3. i + (Q[j] - B[j]) - 0 = i + (Q[j] - B[j])
      BY <1>6, <3>1
    <3> QED
      BY ONLY <3>2, <3>3
  <2> QED
    BY <2>1, <2>2
<1>14. InOrder(base, Outside(m, A, B)) = InOrder(out, Outside(m, P, Q))
  <2>1. GapsMove(m, A, B, P, Q, base, out)
    BY <1>3, <1>13 DEF GapsMove
  <2> QED
    BY ONLY <2>1, KeptAlike
<1>15. InOrder(out, DOMAIN out \ replaced) = InOrder(base, outside)
  <2> HIDE DEF replaced, outside
  <2> QED
    BY ONLY <1>11, <1>12, <1>14, Zenon
<1> QED
  BY <1>10, <1>15

(***************************************************************************)
(* The document lists the sorted entries, so that sorting it changes       *)
(* nothing, and the text an entry replaces plays no part in applying it.   *)
(***************************************************************************)
LEMMA DocumentApplied ==
    ASSUME NEW m \in Nat, NEW base \in Seq(DOMAIN Text), NEW E,
           DOMAIN Sorted(E) = 1 .. m, Listed(Sorted(E)), InLineOrder(Sorted(E))
    PROVE  Applied(base, Document(base, E)) = Applied(base, E)
<1> DEFINE s == Sorted(E)
           d == Document(base, E)
           A == Seq(DOMAIN Text)
<1>1. /\ DOMAIN d = 1 .. m /\ d = [k \in 1 .. m |-> d[k]]
      /\ \A k \in 1 .. m : d[k].a = s[k].a /\ d[k].b = s[k].b /\ d[k].repl = s[k].repl
  BY DEF Document
<1>2. DOMAIN s = 1 .. m /\ Listed(s) /\ InLineOrder(s) /\ base \in A
  OBVIOUS
<1>3. DOMAIN BottomUp(E) = 1 .. m /\ \A k \in 1 .. m : BottomUp(E)[k] = s[m + 1 - k]
  BY BottomUpFacts
<1> HIDE DEF s, d
<1>4. Listed(d) /\ InLineOrder(d)
  <2>1. \A k \in 1 .. m : /\ d[k].a \in Nat /\ d[k].b \in Nat /\ d[k].repl \in Seq(DOMAIN Text)
                         /\ 1 <= d[k].a /\ d[k].a <= d[k].b /\ d[k].repl # <<>>
    BY <1>1, <1>2 DEF Listed
  <2>2. Apart(d)
    BY <1>1, <1>2 DEF Listed, Apart
  <2>3. InLineOrder(d)
    BY <1>1, <1>2 DEF InLineOrder
  <2> QED
    BY <1>1, <2>1, <2>2, <2>3 DEF Listed
<1>5. Sorted(d) = d
  BY ONLY <1>1, <1>4, SortedTwice
<1>6. DOMAIN BottomUp(d) = 1 .. m /\ \A k \in 1 .. m : BottomUp(d)[k] = d[m + 1 - k]
  <2>1. DOMAIN Sorted(d) = 1 .. m /\ Listed(Sorted(d)) /\ InLineOrder(Sorted(d))
    BY <1>1, <1>4, <1>5
  <2>2. DOMAIN BottomUp(d) = 1 .. m /\ \A k \in 1 .. m : BottomUp(d)[k] = Sorted(d)[m + 1 - k]
    BY ONLY <2>1, BottomUpFacts
  <2> QED
    BY ONLY <1>5, <2>2
<1>7. ASSUME NEW Y, NEW k \in 1 .. m
      PROVE  Splice(Y, BottomUp(d)[k]) = Splice(Y, BottomUp(E)[k])
  <2>1. m + 1 - k \in 1 .. m
    OBVIOUS
  <2>2. /\ BottomUp(d)[k].a = BottomUp(E)[k].a /\ BottomUp(d)[k].b = BottomUp(E)[k].b
        /\ BottomUp(d)[k].repl = BottomUp(E)[k].repl
    BY <1>1, <1>3, <1>6, <2>1
  <2> QED
    BY <2>2 DEF Splice
<1>8. ASSUME NEW Y \in A, NEW k \in 1 .. m
      PROVE  Splice(Y, BottomUp(E)[k]) \in A
  <2> DEFINE e == BottomUp(E)[k]
  <2>1. m + 1 - k \in DOMAIN s /\ e = s[m + 1 - k]
    BY <1>2, <1>3
  <2>2. e.a \in Nat /\ e.b \in Nat /\ e.repl \in A /\ 1 <= e.a
    BY <1>2, <2>1 DEF Listed
  <2> QED
    BY <2>2, SpliceIsSequence
<1> HIDE DEF A
<1>9. PICK o \in [0 .. m -> A] :
        /\ o[0] = base /\ Applied(base, E) = o[m]
        /\ \A k \in 1 .. m : o[k] = Splice(o[k-1], BottomUp(E)[k])
  <2>1. AppliedInSteps(base, E, m, A)
    BY <1>2, <1>3, <1>8, FoldSteps
  <2> QED
    BY <2>1 DEF AppliedInSteps
<1>10. PICK p \in [0 .. m -> A] :
        /\ p[0] = base /\ Applied(base, d) = p[m]
        /\ \A k \in 1 .. m : p[k] = Splice(p[k-1], BottomUp(d)[k])
  <2>1. \A Y \in A, k \in 1 .. m : Splice(Y, BottomUp(d)[k]) \in A
    BY <1>7, <1>8
  <2>2. AppliedInSteps(base, d, m, A)
    BY <1>2, <1>6, <2>1, FoldSteps
  <2> QED
    BY <2>2 DEF AppliedInSteps
<1> DEFINE Good == {c \in 0 .. m : o[c] = p[c]}
<1>11. 0 \in Good
  BY <1>9, <1>10
<1>12. ASSUME NEW c \in 0 .. m - 1, c \in Good
       PROVE  c + 1 \in Good
  <2>1. c + 1 \in 1 .. m /\ (c + 1) - 1 = c /\ c + 1 \in 0 .. m
    OBVIOUS
  <2>2. o[c+1] = Splice(o[c], BottomUp(E)[c+1]) /\ p[c+1] = Splice(p[c], BottomUp(d)[c+1])
    BY <1>9, <1>10, <2>1
  <2>3. o[c] = p[c]
    BY <1>12
  <2>4. o[c+1] = p[c+1]
    BY <1>7, <2>1, <2>2, <2>3
  <2> QED
    BY <2>1, <2>4
<1>13. m \in Good
  <2> HIDE DEF Good
  <2>1. 0 .. m \subseteq Good
    BY <1>11, <1>12, UpToN
  <2> QED
    BY <2>1
<1> QED
  BY <1>9, <1>10, <1>13 DEF d

-----------------------------------------------------------------------------
(***************************************************************************)
(* The scripts.                                                            *)
(***************************************************************************)

(***************************************************************************)
(* No list that passes names a line twice.  The generator does not look at *)
(* it: its list does not, and the round trip of check (8) turns most lists *)
(* down that do, not all of them.                                          *)
(***************************************************************************)
SpansApart == \A x \in Passing : Apart(x[2])

\* What passes the checks is what was meant, and what the document says.
LEMMA PassingIsIntended ==
    ASSUME SpansApart, NEW base, NEW E, <<base, E>> \in Passing
    PROVE  /\ Intended(base, E, Applied(base, E))
           /\ Applied(AgreedBase, Document(base, E)) = Applied(base, E)
<1>1. base \in Drafts /\ E \in EntryLists /\ ~ChecksFail(base, E)
  BY DEF Passing
<1>2. base = AgreedBase /\ ~SpanContainsBlank(base, E)
  BY <1>1 DEF ChecksFail, BaseChanged
<1>3. base \in Seq(DOMAIN Text) /\ E \in Seq([a : Nat \ {0}, b : Nat, repl : Seq(DOMAIN Text)])
  BY <1>1, PipelineAssumption
<1> DEFINE m == Len(E)
<1>4. m \in Nat /\ DOMAIN E = 1 .. m
  BY <1>3, LenProperties
<1>5. \A k \in 1 .. m : E[k] \in [a : Nat \ {0}, b : Nat, repl : Seq(DOMAIN Text)]
  BY <1>3, ElementOfSeq
<1> HIDE DEF m
<1>6. \A k \in 1 .. m : /\ E[k].a \in Nat /\ E[k].b \in Nat /\ E[k].repl \in Seq(DOMAIN Text)
                        /\ 1 <= E[k].a /\ E[k].a <= E[k].b /\ E[k].repl # <<>>
  <2> SUFFICES ASSUME NEW k \in 1 .. m
               PROVE  /\ E[k].a \in Nat /\ E[k].b \in Nat /\ E[k].repl \in Seq(DOMAIN Text)
                      /\ 1 <= E[k].a /\ E[k].a <= E[k].b /\ E[k].repl # <<>>
    OBVIOUS
  <2>1. E[k].a \in Nat \ {0} /\ E[k].b \in Nat /\ E[k].repl \in Seq(DOMAIN Text)
    BY <1>5
  <2>2. E[k].a <= E[k].b /\ E[k].repl # <<>>
    BY <1>1, <1>4, PipelineAssumption
  <2> QED
    BY <2>1, <2>2
<1>7. Listed(E)
  <2>1. Apart(E)
    BY DEF SpansApart
  <2> QED
    BY <1>4, <1>6, <2>1 DEF Listed
<1>8. \A k \in 1 .. m : E[k].b <= Len(base)
  <2> SUFFICES ASSUME NEW k \in 1 .. m
               PROVE  E[k].b <= Len(base)
    OBVIOUS
  <2>1. E[k].b \in E[k].a .. E[k].b /\ E[k].b \in Nat
    BY <1>6
  <2>2. ~(E[k].b > Len(base))
    BY <1>2, <1>4, <2>1 DEF SpanContainsBlank
  <2>3. Len(base) \in Nat
    BY <1>3, LenProperties
  <2> QED
    BY ONLY <2>1, <2>2, <2>3
<1>9. /\ DOMAIN Sorted(E) = 1 .. m /\ Listed(Sorted(E)) /\ InLineOrder(Sorted(E))
      /\ \A k \in 1 .. m : \E i \in 1 .. m : Sorted(E)[k] = E[i]
  BY <1>4, <1>7, SortedFacts
<1>10. \A j \in 1 .. m : Sorted(E)[j].b <= Len(base)
  BY <1>8, <1>9
<1>11. Reached(base, Sorted(E), m, 0, Applied(base, E))
  BY <1>3, <1>4, <1>9, <1>10, AppliedReached
<1>12. Intended(base, E, Applied(base, E))
  BY <1>2, <1>3, <1>4, <1>9, <1>10, <1>11, IntendedResult
<1>13. Applied(base, Document(base, E)) = Applied(base, E)
  BY <1>3, <1>4, <1>9, DocumentApplied
<1> QED
  BY <1>2, <1>12, <1>13

(***************************************************************************)
(* The generator holds a result that passed while it writes, and nothing   *)
(* otherwise; the patched manuscript on disk is what the specification on  *)
(* disk says, unless the generator is between the two or has been killed   *)
(* there.                                                                  *)
(***************************************************************************)
Generating == pc \in {"write_spec", "write_patched"}
Made(base, E) == [base |-> base, entries |-> E, out |-> Applied(base, E)]

BuiltInv ==
    /\ ~Generating => built = NotBuilt
    /\ Generating => /\ <<built.base, built.entries>> \in Passing
                     /\ built = Made(built.base, built.entries)
PatchedInv ==
    /\ faults \in Nat
    /\ pc = "write_patched" => spec.rows = Document(built.base, built.entries)
    /\ pc # "write_patched" /\ faults = 0 /\ patched # <<>> =>
         patched = Applied(AgreedBase, spec.rows)
PatchInv == BuiltInv /\ PatchedInv

\* Nothing is held or patched at first.
LEMMA InitPatch == Init => PatchInv
BY DEF Init, CollectionInit, PatchInv, BuiltInv, PatchedInv, Generating

\* A step that is not the generator's, and leaves its files alone.
LEMMA ElsewhereStep ==
    ASSUME PatchInv, ~Generating, ~Generating', UNCHANGED documents, faults' \in Nat,
           faults' = 0 => faults = 0
    PROVE  PatchInv'
<1>1. UNCHANGED <<built, spec, patched>>
  BY DEF documents
<1>2. built' = NotBuilt
  BY <1>1 DEF PatchInv, BuiltInv
<1>3. pc # "write_patched" /\ pc' # "write_patched"
  BY DEF Generating
<1> QED
  BY <1>1, <1>2, <1>3 DEF PatchInv, BuiltInv, PatchedInv

\* Every step keeps it.
LEMMA NextPatch ==
    ASSUME SpansApart, PatchInv, [Next]_vars
    PROVE  PatchInv'
<1>1. faults \in Nat
  BY DEF PatchInv, PatchedInv
<1>2. ASSUME NEW force \in BOOLEAN, StartCollector(force), UNCHANGED documents
      PROVE  PatchInv'
  <2>1. ~Generating /\ ~Generating' /\ faults' = faults
    BY <1>2 DEF StartCollector, Generating
  <2> QED
    BY <1>1, <1>2, <2>1, ElsewhereStep
<1>3. CASE CollectorStep /\ UNCHANGED documents
  <2>1. CASE Measure
    <3>1. PICK failed \in SUBSET {"series", "proposals"} : faults' = faults + Cardinality(failed)
      BY <2>1 DEF Measure, ExportPair, Faults
    <3>2. Cardinality(failed) \in Nat
      <4>1. IsFiniteSet({"series", "proposals"})
        <5>1. IsFiniteSet({"series"}) /\ {"series"} \cup {"proposals"} = {"series", "proposals"}
          BY FS_Singleton
        <5>2. IsFiniteSet({"series"} \cup {"proposals"})
          BY <5>1, FS_AddElement
        <5> QED
          BY <5>1, <5>2
      <4> QED
        BY <4>1, FS_Subset, FS_CardinalityType
    <3>3. faults' \in Nat /\ (faults' = 0 => faults = 0)
      BY <1>1, <3>1, <3>2
    <3>4. ~Generating /\ ~Generating'
      BY <2>1 DEF Measure, Stop, Generating
    <3> QED
      BY <1>3, <3>3, <3>4, ElsewhereStep
  <2>2. CASE ~Measure
    <3>1. ~Generating /\ ~Generating' /\ faults' = faults
      BY <1>3, <2>2 DEF CollectorStep, UnlinkRuns, UnlinkDecisions, Resume, AppendRow,
                        AppendDecisions, Complete, Stop, Generating
    <3> QED
      BY <1>1, <1>3, <3>1, ElsewhereStep
  <2> QED
    BY <2>1, <2>2
<1>4. CASE Rebuild /\ UNCHANGED documents
  BY <1>4 DEF Rebuild, collector, documents, PatchInv, BuiltInv, PatchedInv, Generating
<1>5. CASE Generate
  <2>1. pc = "idle" /\ UNCHANGED <<faults, spec, patched>>
    BY <1>5 DEF Generate
  <2>2. CASE \E x \in Passing :
                /\ built' = [base |-> x[1], entries |-> x[2], out |-> Applied(x[1], x[2])]
                /\ pc' = "write_spec"
    <3>1. PICK x \in Passing :
            built' = [base |-> x[1], entries |-> x[2], out |-> Applied(x[1], x[2])]
              /\ pc' = "write_spec"
      BY <2>2
    <3>2. x = <<x[1], x[2]>>
      BY DEF Passing
    <3>3. BuiltInv'
      BY <3>1, <3>2 DEF BuiltInv, Generating, Made
    <3>4. PatchedInv'
      BY <2>1, <3>1 DEF PatchInv, PatchedInv
    <3> QED
      BY <3>3, <3>4 DEF PatchInv
  <2>3. CASE UNCHANGED <<built, pc>>
    BY <2>1, <2>3 DEF PatchInv, BuiltInv, PatchedInv, Generating
  <2> QED
    BY <1>5, <2>2, <2>3 DEF Generate
<1>6. CASE WriteSpec
  <2>1. /\ pc = "write_spec" /\ pc' = "write_patched" /\ UNCHANGED <<built, faults, patched>>
        /\ spec' = File(Document(built.base, built.entries))
    BY <1>6 DEF WriteSpec
  <2>2. BuiltInv'
    BY <2>1 DEF PatchInv, BuiltInv, Generating
  <2>3. PatchedInv'
    BY <1>1, <2>1 DEF PatchedInv, File
  <2> QED
    BY <2>2, <2>3 DEF PatchInv
<1>7. CASE WritePatched
  <2>1. /\ pc = "write_patched" /\ pc' = "idle" /\ UNCHANGED <<faults, spec>>
        /\ patched' = built.out /\ built' = NotBuilt
    BY <1>7 DEF WritePatched
  <2>2. <<built.base, built.entries>> \in Passing /\ built = Made(built.base, built.entries)
    BY <2>1 DEF PatchInv, BuiltInv, Generating
  <2>3. built.out = Applied(built.base, built.entries)
    BY <2>2 DEF Made
  <2>4. Applied(AgreedBase, spec.rows) = Applied(built.base, built.entries)
    BY <2>1, <2>2, PassingIsIntended DEF PatchInv, PatchedInv
  <2>5. BuiltInv'
    BY <2>1 DEF BuiltInv, Generating
  <2>6. PatchedInv'
    BY <1>1, <2>1, <2>3, <2>4 DEF PatchedInv
  <2> QED
    BY <2>5, <2>6 DEF PatchInv
<1>8. ASSUME NEW data \in DataSets, Audit(data)
      PROVE  PatchInv'
  BY <1>8 DEF Audit, PatchInv, BuiltInv, PatchedInv, Generating
<1>9. CASE WriteReport
  BY <1>9 DEF WriteReport, PatchInv, BuiltInv, PatchedInv, Generating
<1>10. CASE KillScript
  <2>1. pc' = "idle" /\ faults' = faults + 1 /\ built' = NotBuilt
    BY <1>10 DEF KillScript, Kill, Faults, Stop
  <2> QED
    BY <1>1, <2>1 DEF PatchInv, BuiltInv, PatchedInv, Generating
<1>11. CASE UNCHANGED vars
  <2>1. UNCHANGED <<pc, faults, built, spec, patched>>
    BY <1>11 DEF vars, collection, collector, documents
  <2> QED
    BY <2>1 DEF PatchInv, BuiltInv, PatchedInv, Generating
<1> QED
  BY <1>2, <1>3, <1>4, <1>5, <1>6, <1>7, <1>8, <1>9, <1>10, <1>11 DEF Next

(***************************************************************************)
(* What make_patch_spec_v3.py holds when it writes is the agreed base with *)
(* every replacement at its place and the rest untouched, and the document *)
(* it writes, applied by hand, gives the manuscript it writes, provided no *)
(* list that passes names a line twice.  Condition (d) of its check (8)    *)
(* cannot fail then, as its comment says.                                  *)
(***************************************************************************)
THEOREM AppliedCorrect ==
    ASSUME SpansApart
    PROVE  Spec => []AppliedIsIntended
<1>1. PatchInv => AppliedIsIntended
  <2> SUFFICES ASSUME PatchInv
               PROVE  AppliedIsIntended
    OBVIOUS
  <2>1. ASSUME built # NotBuilt
        PROVE  Intended(built.base, built.entries, built.out)
    <3>1. <<built.base, built.entries>> \in Passing /\ built = Made(built.base, built.entries)
      BY <2>1 DEF PatchInv, BuiltInv
    <3>2. built.out = Applied(built.base, built.entries)
      BY <3>1 DEF Made
    <3> QED
      BY <3>1, <3>2, PassingIsIntended
  <2>2. pc = "idle" /\ faults = 0 /\ patched # <<>> => patched = Applied(AgreedBase, spec.rows)
    BY DEF PatchInv, PatchedInv
  <2> QED
    BY <2>1, <2>2 DEF AppliedIsIntended
<1>2. PatchInv /\ [Next]_vars => PatchInv'
  BY NextPatch
<1> QED
  BY InitPatch, <1>1, <1>2, PTL DEF Spec
=============================================================================
