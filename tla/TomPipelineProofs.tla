-------------------------- MODULE TomPipelineProofs --------------------------
(***************************************************************************)
(* Theorems about TomPipeline for every number of nodes and messages,      *)
(* every topology, loss schedule and limit.  What a node holds is          *)
(* described by Good: its log is the messages from 0 to last_delivered,    *)
(* its store holds these, and all it holds was published.                  *)
(***************************************************************************)
EXTENDS TomPipeline, FiniteIntegerSets

-----------------------------------------------------------------------------
(***************************************************************************)
(* What the round-robin loop keeps whatever the protocol does: its own     *)
(* variables keep their types, the initiator takes part in every flood,    *)
(* and a stop is for the protocol's reason, for the lack of slots or for   *)
(* the lack of rounds.                                                     *)
(***************************************************************************)

\* The nodes are a finite set of N integers.
LEMMA NodesAreFinite ==
    IsFiniteSet(Node) /\ Cardinality(Node) = N /\ Node # {} /\ Node \in SUBSET Int
<1>1. IsFiniteSet(Node) /\ Cardinality(Node) = N
  BY NAssumption, FS_Interval DEF Node
<1>2. 0 \in Node /\ Node \in SUBSET Int
  BY NAssumption DEF Node
<1> QED
  BY <1>1, <1>2

\* The round-robin turn always falls on a node.
LEMMA InitiatorIsNode ==
    ASSUME NEW r \in Nat
    PROVE  InitiatorOf(r) \in Node
BY NAssumption DEF InitiatorOf, Node

\* The loop starts in its types, at the head of round 0.
LEMMA InitLoop ==
    ASSUME LoopInit
    PROVE  LoopInv
BY DEF LoopInit, LoopInv, LoopTypeOK, StopReasons

\* A flood always includes the node it starts from.
LEMMA FloodStep ==
    ASSUME LoopInv, FloodIdentical
    PROVE  LoopInv' /\ heard' \in SUBSET Node /\ Initiator \in heard' /\ Initiator' = Initiator
BY DEF LoopInv, LoopTypeOK, FloodIdentical, FloodOutcomes, ConnectedAround, Initiator

\* Running out of slots ends the run at the head of a round, for that reason.
LEMMA SlotsStep ==
    ASSUME LoopInv, OutOfSlots
    PROVE  LoopInv' /\ Initiator' = Initiator
BY DEF LoopInv, LoopTypeOK, OutOfSlots, StopReasons, Initiator

\* The end of a round stops the loop for the reason given, or goes on, or is one round too many.
LEMMA EndRoundStep ==
    ASSUME LoopInv, NEW reason \in StopReasons, EndRound(reason)
    PROVE  /\ LoopInv'
           /\ pc' \in {"prepare", "stopped"} /\ round_num' \in {round_num, round_num + 1}
           /\ pc' = "prepare" => round_num' = round_num + 1
           /\ stopped_by' \in {reason, "max_rounds"}
<1>1. CASE reason # "none"
  BY <1>1 DEF EndRound, LoopInv, LoopTypeOK
<1>2. CASE reason = "none"
  <2>1. /\ heard' = {} /\ round_num' = round_num + 1
        /\ pc' = IF round_num' > MaxRounds THEN "stopped" ELSE "prepare"
        /\ stopped_by' = IF round_num' > MaxRounds THEN "max_rounds" ELSE "none"
    BY <1>2 DEF EndRound
  <2>2. /\ pc' \in {"prepare", "stopped"} /\ stopped_by' \in {"none", "max_rounds"}
        /\ pc' # "stopped" => stopped_by' = "none"
    BY <2>1
  <2>3. round_num \in Nat
    BY DEF LoopInv, LoopTypeOK
  <2> QED
    BY <1>2, <2>1, <2>2, <2>3 DEF LoopInv, LoopTypeOK, StopReasons
<1> QED
  BY <1>1, <1>2

-----------------------------------------------------------------------------

\* The state s of a node when the terms below published are published.
Good(s, published) ==
    /\ s \in NodeTomState
    /\ Len(s.delivered) = s.last_delivered + 1
    /\ \A k \in DOMAIN s.delivered : s.delivered[k] = [term |-> k - 1, data |-> Message(k - 1)]
    /\ \A t \in Term : t <= s.last_delivered => Stores(s, t)
    /\ \A t \in Term : Stores(s, t) =>
          s.store[t] = Message(t) /\ t < published /\ t <= s.highest_seen

\* Nothing more can be delivered.
Settled(s) == ~Stores(s, NextExpected(s))

\* A piggyback and a packet carry the messages of their terms, and only published ones.
GoodPiggyback(p) ==
    p \in Piggyback /\ (p.data # None => p.term < next_term /\ p.data = Message(p.term))

\* A packet carries the message of its term, and only one that was published.
GoodPacket ==
    /\ payload \in Packet
    /\ payload.has_message =>
          payload.current_term < next_term /\ payload.message_data = Message(payload.current_term)
    /\ GoodPiggyback(payload.piggyback)

\* What was published was published in a round so far.
StartsInv ==
    \A t \in Term : IF t < next_term THEN msg_starts[t] \in 0 .. round_num ELSE msg_starts[t] = None

\* Stores are good, nobody was in a flood beyond what it has seen, and deliveries are up to date.
StoresInv ==
    /\ \A i \in Node :
          /\ Good(states[i], next_term)
          /\ took_part[i] <= states[i].highest_seen
          /\ Settled(states[i]) \/ (i = Initiator /\ pc \in {"flood", "process"})
    /\ GoodPiggyback(piggyback) /\ GoodPacket

\* The inductive invariant of totally ordered multicast.
TomInv == TypeOK /\ LoopInv /\ StartsInv /\ StoresInv /\ ReportSound

-----------------------------------------------------------------------------
\* The greater of two integers, which is how highest_seen is raised.
LEMMA MaxOfTwo ==
    ASSUME NEW a \in Int, NEW b \in Int
    PROVE  Max({a, b}) \in {a, b} /\ a <= Max({a, b}) /\ b <= Max({a, b})
<1>1. IsFiniteSet({a, b})
  <2>1. IsFiniteSet({a}) /\ {a, b} = {a} \cup {b}
    BY FS_Singleton
  <2> QED
    BY <2>1, FS_AddElement
<1>2. {a, b} \in SUBSET Int /\ {a, b} # {}
  OBVIOUS
<1> QED
  BY <1>1, <1>2, MaxOfFinite

\* The terms are integers from 0 on, and None is not one of them.
LEMMA TermFacts ==
    /\ NumMsgs \in Nat /\ 0 \in Term
    /\ \A t : t \in Term <=> t \in Int /\ 0 <= t /\ t < NumMsgs
    /\ \A t \in MaybeTerm : t \in Int /\ -1 <= t /\ t < NumMsgs
    /\ None = -1
BY NumMsgsAssumption DEF Term, MaybeTerm, None

\* The fields of a node's state have their types.
LEMMA StateFacts ==
    ASSUME NEW s \in NodeTomState
    PROVE  /\ s.last_delivered \in MaybeTerm /\ s.highest_seen \in MaybeTerm
           /\ s.store \in [Term -> MaybeMessage] /\ s.delivered \in Seq([term : Term, data : Term])
BY DEF NodeTomState

\* r is s after it took messages in: no delivery, and the highest term seen only grows.
TakesIn(s, r) ==
    /\ r.last_delivered = s.last_delivered /\ r.delivered = s.delivered
    /\ s.highest_seen <= r.highest_seen

\* Hearing of a term raises highest_seen and leaves the rest.
LEMMA RaiseFacts ==
    ASSUME NEW n, NEW s, Good(s, n), NEW t \in Term
    PROVE  /\ Good(RaiseHighestSeen(s, t), n) /\ TakesIn(s, RaiseHighestSeen(s, t))
           /\ t <= RaiseHighestSeen(s, t).highest_seen
           /\ RaiseHighestSeen(s, t).store = s.store
<1> DEFINE h == Max({s.highest_seen, t})
           r == [s EXCEPT !.highest_seen = h]
<1>0. r = RaiseHighestSeen(s, t)
  BY DEF RaiseHighestSeen
<1>1. s \in NodeTomState /\ s.highest_seen \in Int /\ s.highest_seen \in MaybeTerm /\ t \in Int
  BY StateFacts, TermFacts DEF Good
<1>2. h \in {s.highest_seen, t} /\ s.highest_seen <= h /\ t <= h
  BY <1>1, MaxOfTwo
<1> HIDE DEF h
<1>3. h \in MaybeTerm /\ h \in Int
  BY <1>1, <1>2 DEF MaybeTerm
<1>4. /\ r \in NodeTomState /\ r.highest_seen = h /\ r.last_delivered = s.last_delivered
      /\ r.store = s.store /\ r.delivered = s.delivered
  BY <1>1, <1>3 DEF NodeTomState
<1> HIDE DEF r
<1>5. \A u \in Term : Stores(r, u) <=> Stores(s, u)
  BY <1>4 DEF Stores
<1>6. \A u \in Term : u \in Int
  BY TermFacts
<1>7. Good(r, n)
  BY <1>1, <1>2, <1>3, <1>4, <1>5, <1>6 DEF Good
<1> QED
  BY <1>0, <1>2, <1>4, <1>7 DEF TakesIn

\* Storing the message of a published term stores that term only.
LEMMA InsertFacts ==
    ASSUME NEW n \in Int, NEW s, Good(s, n), NEW t \in Term, t < n
    PROVE  LET r == InsertMessage(s, t, Message(t))
           IN  /\ Good(r, n) /\ TakesIn(s, r) /\ t <= r.highest_seen
               /\ \A u : Stores(r, u) <=> Stores(s, u) \/ u = t
<1> DEFINE r == InsertMessage(s, t, Message(t))
<1>r. r = InsertMessage(s, t, Message(t))
  OBVIOUS
<1> HIDE DEF r
<1> SUFFICES /\ Good(r, n) /\ TakesIn(s, r) /\ t <= r.highest_seen
             /\ \A u : Stores(r, u) <=> Stores(s, u) \/ u = t
  BY DEF r
<1>1. CASE Stores(s, t)
  <2>1. r = s
    BY <1>r, <1>1 DEF InsertMessage
  <2>2. s.highest_seen \in Int
    BY StateFacts, TermFacts DEF Good
  <2> QED
    BY <1>1, <2>1, <2>2 DEF Good, TakesIn
<1>2. CASE ~Stores(s, t)
  <2> DEFINE h == Max({s.highest_seen, t})
  <2>1. r = [s EXCEPT !.store = [s.store EXCEPT ![t] = t], !.highest_seen = h]
    BY <1>r, <1>2 DEF InsertMessage, RaiseHighestSeen, Message, Good, NodeTomState
  <2>2. s \in NodeTomState /\ s.highest_seen \in Int /\ s.highest_seen \in MaybeTerm /\ t \in Int
    BY StateFacts, TermFacts DEF Good
  <2>3. h \in {s.highest_seen, t} /\ s.highest_seen <= h /\ t <= h
    BY <2>2, MaxOfTwo
  <2> HIDE DEF h
  <2>4. h \in MaybeTerm /\ h \in Int /\ t \in MaybeMessage
    BY <2>2, <2>3 DEF MaybeTerm, MaybeMessage
  <2>5. /\ r \in NodeTomState /\ r.highest_seen = h /\ r.last_delivered = s.last_delivered
        /\ r.delivered = s.delivered
        /\ \A u \in Term : r.store[u] = IF u = t THEN t ELSE s.store[u]
    BY <2>1, <2>2, <2>4 DEF NodeTomState
  <2>6. \A u : Stores(r, u) <=> Stores(s, u) \/ u = t
    BY <2>5, TermFacts DEF Stores
  <2>7. Good(r, n)
    <3>1. ASSUME NEW u \in Term, Stores(r, u)
          PROVE  r.store[u] = u /\ u < n /\ u <= r.highest_seen
      <4>1. CASE u = t
        BY <2>3, <2>5, <4>1
      <4>2. CASE u # t
        <5>1. Stores(s, u)
          BY <2>6, <3>1, <4>2
        <5>2. s.store[u] = u /\ u < n /\ u <= s.highest_seen
          BY <5>1 DEF Good, Message
        <5>3. u \in Int
          BY TermFacts
        <5> QED
          BY <2>2, <2>3, <2>4, <2>5, <4>2, <5>2, <5>3
      <4> QED
        BY <4>1, <4>2
    <3>2. \A u \in Term : u <= r.last_delivered => Stores(r, u)
      BY <2>5, <2>6 DEF Good
    <3> QED
      BY <2>5, <3>1, <3>2 DEF Good, Message
  <2> QED
    BY <2>3, <2>5, <2>6, <2>7 DEF TakesIn
<1> QED
  BY <1>1, <1>2

\* What is well formed stays so when more is published.
LEMMA GoodLater ==
    ASSUME NEW m \in Int, NEW n \in Int, m <= n, NEW s, Good(s, m)
    PROVE  Good(s, n)
<1>1. \A t \in Term : t \in Int
  BY TermFacts
<1> QED
  BY <1>1 DEF Good

\* A function on 1 .. m is a sequence of length m.
LEMMA FunctionIsSeq ==
    ASSUME NEW S, NEW m \in Nat, NEW f \in [1 .. m -> S]
    PROVE  f \in Seq(S) /\ Len(f) = m
OBVIOUS

\* The first missing term: all from next_expected up to it are stored.
LEMMA FirstMissingFacts ==
    ASSUME NEW n, NEW s, Good(s, n)
    PROVE  /\ FirstMissing(s) \in NextExpected(s) .. NumMsgs
           /\ NextExpected(s) \in Nat
           /\ ~Stores(s, FirstMissing(s))
           /\ \A t \in NextExpected(s) .. FirstMissing(s) - 1 : Stores(s, t)
<1> DEFINE M == {t \in NextExpected(s) .. NumMsgs : ~Stores(s, t)}
<1>0. s.last_delivered \in Int /\ NextExpected(s) = s.last_delivered + 1 /\ NextExpected(s) \in Nat
      /\ NextExpected(s) <= NumMsgs /\ NumMsgs \in Nat
  BY StateFacts, TermFacts DEF Good, NextExpected
<1>1. NumMsgs \in M
  BY <1>0, TermFacts DEF Stores
<1>2. M \in SUBSET Int
  BY <1>0
<1>3. IsFiniteSet(M)
  <2>1. IsFiniteSet(NextExpected(s) .. NumMsgs)
    BY <1>0, FS_Interval
  <2> QED
    BY <2>1, FS_Subset
<1>4. FirstMissing(s) = Min(M)
  BY DEF FirstMissing
<1>5. Min(M) \in M /\ \A y \in M : Min(M) <= y
  <2> HIDE DEF M
  <2> QED
    BY <1>1, <1>2, <1>3, MinOfFinite
<1>6. ASSUME NEW t \in NextExpected(s) .. FirstMissing(s) - 1
      PROVE  Stores(s, t)
  <2>1. FirstMissing(s) \in NextExpected(s) .. NumMsgs
    BY <1>4, <1>5
  <2>2. t \in NextExpected(s) .. NumMsgs /\ ~(FirstMissing(s) <= t)
    BY <1>0, <2>1, <1>6
  <2> QED
    BY <1>4, <1>5, <2>2
<1> QED
  BY <1>0, <1>4, <1>5, <1>6

(***************************************************************************)
(* try_deliver_in_order appends the stored run from next_expected on: the  *)
(* log stays the messages in term order, it ends before the first hole,    *)
(* and nothing more can be delivered.                                      *)
(***************************************************************************)
LEMMA DeliverFacts ==
    ASSUME NEW n \in Int, NEW s, Good(s, n)
    PROVE  LET r == TryDeliverInOrder(s)
           IN  /\ Good(r, n) /\ Settled(r)
               /\ r.last_delivered = FirstMissing(s) - 1 /\ s.last_delivered <= r.last_delivered
               /\ r.highest_seen = s.highest_seen
               /\ \A t : Stores(r, t) <=> Stores(s, t)
<1> DEFINE r == TryDeliverInOrder(s)
           next == NextExpected(s)
           end == FirstMissing(s)
           run == [k \in 1 .. end - next |-> [term |-> next + k - 1, data |-> s.store[next + k - 1]]]
<1>0. r = [s EXCEPT !.last_delivered = end - 1, !.delivered = s.delivered \o run]
  BY DEF TryDeliverInOrder, Good, NodeTomState
<1>1. /\ end \in next .. NumMsgs /\ next \in Nat /\ ~Stores(s, end)
      /\ \A t \in next .. end - 1 : Stores(s, t)
  BY FirstMissingFacts
<1>2. /\ s \in NodeTomState /\ s.last_delivered \in Int /\ next = s.last_delivered + 1
      /\ s.delivered \in Seq([term : Term, data : Term]) /\ Len(s.delivered) = next
      /\ NumMsgs \in Nat
  BY StateFacts, TermFacts DEF Good, NextExpected
<1>r. r = TryDeliverInOrder(s)
  OBVIOUS
<1> HIDE DEF r
<1> SUFFICES /\ Good(r, n) /\ Settled(r)
             /\ r.last_delivered = end - 1 /\ s.last_delivered <= r.last_delivered
             /\ r.highest_seen = s.highest_seen
             /\ \A t : Stores(r, t) <=> Stores(s, t)
  BY DEF r
<1> HIDE DEF next, end
<1>3. \A k \in 1 .. end - next : run[k] = [term |-> next + k - 1, data |-> next + k - 1]
                                 /\ next + k - 1 \in Term
  <2> SUFFICES ASSUME NEW k \in 1 .. end - next
               PROVE  run[k] = [term |-> next + k - 1, data |-> next + k - 1] /\ next + k - 1 \in Term
    OBVIOUS
  <2>1. next + k - 1 \in next .. end - 1
    BY <1>1
  <2>2. Stores(s, next + k - 1)
    BY <1>1, <2>1
  <2>3. next + k - 1 \in Term
    BY <2>2 DEF Stores
  <2>4. s.store[next + k - 1] = next + k - 1
    BY <2>2, <2>3 DEF Good, Message
  <2> QED
    BY <2>3, <2>4
<1>4. run \in Seq([term : Term, data : Term]) /\ Len(run) = end - next
  <2>1. end - next \in Nat
    BY <1>1
  <2>2. \A k \in 1 .. end - next : run[k] \in [term : Term, data : Term]
    BY <1>3
  <2>3. run \in [1 .. end - next -> [term : Term, data : Term]]
    BY <2>2
  <2> HIDE DEF run
  <2> QED
    BY <2>1, <2>3, FunctionIsSeq
<1>5. /\ r.last_delivered = end - 1 /\ r.delivered = s.delivered \o run
      /\ r.highest_seen = s.highest_seen /\ r.store = s.store
      /\ r \in NodeTomState
  <2>1. end - 1 \in MaybeTerm
    BY <1>1, <1>2 DEF MaybeTerm, Term, None
  <2>2. s.delivered \o run \in Seq([term : Term, data : Term])
    <3> HIDE DEF run
    <3> QED
      BY <1>2, <1>4
  <2> HIDE DEF run
  <2> QED
    BY <1>0, <1>2, <2>1, <2>2 DEF NodeTomState
<1>6. \A t : Stores(r, t) <=> Stores(s, t)
  BY <1>5 DEF Stores
<1>7. Settled(r)
  BY <1>1, <1>5, <1>6 DEF Settled, NextExpected
<1>8. Len(r.delivered) = r.last_delivered + 1
  <2> DEFINE D == s.delivered
  <2>1. D \in Seq([term : Term, data : Term]) /\ Len(D) = next
    BY <1>2
  <2> HIDE DEF run, D
  <2>2. Len(D \o run) = next + (end - next)
    BY <1>4, <2>1
  <2> QED
    BY <1>1, <1>5, <2>2 DEF D
<1>9. ASSUME NEW k \in DOMAIN r.delivered
      PROVE  r.delivered[k] = [term |-> k - 1, data |-> k - 1]
  <2>0. k \in 1 .. end
    <3> HIDE DEF run
    <3> QED
      BY <1>1, <1>2, <1>4, <1>5, <1>9
  <2>1. CASE k <= next
    <3>1. r.delivered[k] = s.delivered[k] /\ k \in DOMAIN s.delivered
      <4> DEFINE D == s.delivered
      <4>1. D \in Seq([term : Term, data : Term]) /\ Len(D) = next
        BY <1>2
      <4> HIDE DEF run, D
      <4>2. k \in 1 .. Len(D)
        BY <1>1, <2>0, <2>1, <4>1
      <4>3. (D \o run)[k] = D[k] /\ k \in DOMAIN D
        BY <1>4, <4>1, <4>2
      <4> QED
        BY <1>5, <4>3 DEF D
    <3> QED
      BY <3>1 DEF Good, Message
  <2>2. CASE k > next
    <3>1. r.delivered[k] = run[k - next] /\ k - next \in 1 .. end - next
      <4> DEFINE D == s.delivered
      <4>1. D \in Seq([term : Term, data : Term]) /\ Len(D) = next
        BY <1>2
      <4> HIDE DEF run, D
      <4>2. (D \o run)[k] = run[k - next]
        BY <1>1, <1>4, <2>0, <2>2, <4>1
      <4> QED
        BY <1>1, <1>5, <2>0, <2>2, <4>2 DEF D
    <3>2. run[k - next] = [term |-> next + (k - next) - 1, data |-> next + (k - next) - 1]
      BY <1>3, <3>1
    <3>3. next + (k - next) - 1 = k - 1
      BY <1>1, <2>0
    <3> QED
      BY <3>1, <3>2, <3>3
  <2> QED
    BY <1>1, <2>0, <2>1, <2>2
<1>10. \A t \in Term : t <= r.last_delivered => Stores(r, t)
  <2> SUFFICES ASSUME NEW t \in Term, t <= end - 1
               PROVE  Stores(s, t)
    BY <1>5, <1>6
  <2>1. t \in Int
    BY TermFacts
  <2>2. CASE t <= s.last_delivered
    BY <2>2 DEF Good
  <2>3. CASE t > s.last_delivered
    BY <1>1, <1>2, <2>1, <2>3
  <2> QED
    BY <1>2, <2>1, <2>2, <2>3
<1>11. Good(r, n)
  BY <1>5, <1>6, <1>8, <1>9, <1>10 DEF Good, Message
<1>12. s.last_delivered <= r.last_delivered
  <2>1. r.last_delivered = end - 1 /\ s.last_delivered \in Int /\ next = s.last_delivered + 1
    BY <1>2, <1>5
  <2>2. end \in Int /\ next <= end
    BY <1>1
  <2> QED
    BY <2>1, <2>2
<1> QED
  BY <1>5, <1>6, <1>7, <1>11, <1>12

\* The NACK names a term, at most the lowest gap.
LEMMA NackFacts ==
    ASSUME NEW n, NEW s, Good(s, n)
    PROVE  /\ NackFor(s) \in Term
           /\ \A t \in Gaps(s) : NackFor(s) <= t
<1>1. Gaps(s) \in SUBSET Term /\ Gaps(s) \in SUBSET Int
  BY StateFacts, TermFacts DEF Good, Gaps, NextExpected
<1>2. IsFiniteSet(Gaps(s))
  <2>1. IsFiniteSet(Term)
    BY TermFacts, FS_Interval DEF Term
  <2> QED
    BY <1>1, <2>1, FS_Subset
<1>3. CASE Gaps(s) = {}
  BY <1>3, TermFacts DEF NackFor
<1>4. CASE Gaps(s) # {}
  <2>1. Min(Gaps(s)) \in Gaps(s) /\ \A y \in Gaps(s) : Min(Gaps(s)) <= y
    BY <1>1, <1>2, <1>4, MinOfFinite
  <2>2. NackFor(s) = Min(Gaps(s))
    BY <1>4 DEF NackFor
  <2> QED
    BY <1>1, <2>1, <2>2
<1> QED
  BY <1>3, <1>4

\* Taking in twice is taking in.
LEMMA TakesInTwice ==
    ASSUME NEW m, NEW n, NEW s, NEW q, NEW r, Good(s, m), Good(q, n), Good(r, n),
           TakesIn(s, q), TakesIn(q, r)
    PROVE  TakesIn(s, r)
<1>1. s.highest_seen \in Int /\ q.highest_seen \in Int /\ r.highest_seen \in Int
  BY StateFacts, TermFacts DEF Good
<1> QED
  BY <1>1 DEF TakesIn

\* What a participant takes from a good packet leaves it with a good state.
LEMMA ReceivedFacts ==
    ASSUME next_term \in Int, GoodPacket, NEW s, Good(s, next_term)
    PROVE  LET r == Received(s, payload)
           IN  Good(r, next_term) /\ TakesIn(s, r) /\ payload.current_term <= r.highest_seen
<1> DEFINE t == payload.current_term
           p == payload.piggyback
           seen == IF payload.has_message THEN InsertMessage(s, t, payload.message_data)
                   ELSE RaiseHighestSeen(s, t)
           r == Received(s, payload)
<1>0. t \in Term /\ p \in Piggyback /\ (p.data # None => p.term < next_term /\ p.data = Message(p.term))
  BY DEF GoodPacket, Packet, GoodPiggyback
<1>1. Good(seen, next_term) /\ TakesIn(s, seen) /\ t <= seen.highest_seen
  <2>1. CASE payload.has_message
    <3>1. t < next_term /\ payload.message_data = Message(t)
      BY <2>1 DEF GoodPacket
    <3>2. seen = InsertMessage(s, t, Message(t))
      BY <2>1, <3>1
    <3> HIDE DEF seen, t
    <3> QED
      BY <1>0, <3>1, <3>2, InsertFacts
  <2>2. CASE ~payload.has_message
    <3>1. seen = RaiseHighestSeen(s, t)
      BY <2>2
    <3> HIDE DEF seen, t
    <3> QED
      BY <1>0, <3>1, RaiseFacts
  <2> QED
    BY <2>1, <2>2
<1>2. r = IF p.data # None THEN InsertMessage(seen, p.term, p.data) ELSE seen
  BY DEF Received
<1> HIDE DEF seen, r
<1>3. Good(r, next_term) /\ TakesIn(seen, r)
  <2>1. CASE p.data # None
    <3>1. p.term \in Term /\ p.term < next_term /\ p.data = Message(p.term)
      BY <1>0, <2>1 DEF Piggyback, MaybeTerm, Message
    <3> HIDE DEF p
    <3> QED
      BY <1>1, <1>2, <2>1, <3>1, InsertFacts
  <2>2. CASE p.data = None
    <3>1. seen.highest_seen \in Int
      BY <1>1, StateFacts, TermFacts DEF Good
    <3> QED
      BY <1>1, <1>2, <2>2, <3>1 DEF TakesIn
  <2> QED
    BY <2>1, <2>2
<1>4. TakesIn(s, r)
  BY <1>1, <1>3, TakesInTwice
<1>5. t <= r.highest_seen
  <2>1. t \in Int /\ seen.highest_seen \in Int /\ r.highest_seen \in Int
    BY <1>0, <1>1, <1>3, StateFacts, TermFacts DEF Good
  <2> QED
    BY <1>1, <1>3, <2>1 DEF TakesIn
<1> QED
  BY <1>3, <1>4, <1>5 DEF r

\* How many terms are published once prepare_round is over.
PublishedNext == IF Publishing THEN next_term + 1 ELSE next_term

\* The state of every node in terms of which the rounds are described.
LEMMA NodesAreGood ==
    ASSUME TypeOK, LoopInv, StoresInv
    PROVE  /\ next_term \in Nat /\ next_term <= NumMsgs /\ PublishedNext \in Nat
           /\ next_term <= PublishedNext /\ PublishedNext <= NumMsgs
           /\ Initiator \in Node
           /\ \A i \in Node : Good(states[i], next_term) /\ Good(states[i], PublishedNext)
<1>1. next_term \in 0 .. NumMsgs /\ NumMsgs \in Nat
  BY TermFacts DEF TypeOK
<1>2. PublishedNext \in Nat /\ next_term <= PublishedNext /\ PublishedNext <= NumMsgs
  BY <1>1 DEF PublishedNext, Publishing
<1>3. Initiator \in Node
  BY InitiatorIsNode DEF Initiator, LoopInv, LoopTypeOK
<1>4. ASSUME NEW i \in Node
      PROVE  Good(states[i], next_term) /\ Good(states[i], PublishedNext)
  <2>1. Good(states[i], next_term)
    BY DEF StoresInv
  <2> QED
    BY <1>1, <1>2, <2>1, GoodLater
<1> QED
  BY <1>1, <1>2, <1>3, <1>4

\* A round is about a term, and a message it announces is the one of its term and published.
LEMMA AnnouncedFacts ==
    ASSUME TypeOK, LoopInv, StoresInv
    PROVE  /\ Announced.term \in Term /\ Announced.has \in BOOLEAN /\ Announced.data \in MaybeMessage
           /\ Announced.has => Announced.term < PublishedNext /\ Announced.data = Message(Announced.term)
           /\ Publishing => Announced.has /\ Announced.term = next_term
<1>0. next_term \in Nat /\ NumMsgs \in Nat /\ next_term <= NumMsgs
  BY NodesAreGood, TermFacts
<1>1. CASE Publishing
  <2>1. Announced = [term |-> next_term, has |-> TRUE, data |-> Message(next_term)]
    BY <1>1 DEF Announced
  <2>2. next_term \in Term /\ next_term < PublishedNext
    BY <1>0, <1>1, TermFacts DEF Publishing, PublishedNext
  <2> QED
    BY <2>1, <2>2 DEF MaybeMessage, Message
<1>2. CASE ~Publishing /\ Holders(NeededTerm) # {}
  <2> DEFINE t == NeededTerm
  <2>1. Announced = [term |-> t, has |-> TRUE, data |-> CopyOf(t)]
    BY <1>2 DEF Announced
  <2> HIDE DEF t
  <2>2. PICK k \in Node : Stores(states[k], t) /\ CopyOf(t) = states[k].store[t]
    <3>1. CASE Stores(states[Initiator], t)
      BY <3>1, NodesAreGood DEF CopyOf
    <3>2. CASE ~Stores(states[Initiator], t)
      <4>1. IsFiniteSet(Holders(t)) /\ Holders(t) \in SUBSET Int /\ Holders(t) # {}
        <5>1. Holders(t) \in SUBSET Node
          BY DEF Holders
        <5> QED
          BY <1>2, <5>1, NodesAreFinite, FS_Subset DEF t
      <4>2. Min(Holders(t)) \in Holders(t)
        BY <4>1, MinOfFinite
      <4> QED
        BY <3>2, <4>2 DEF CopyOf, Holders
    <3> QED
      BY <3>1, <3>2
  <2>3. t \in Term /\ states[k].store[t] = Message(t) /\ t < next_term
    BY <2>2, NodesAreGood DEF Good, Stores
  <2> QED
    BY <1>2, <2>1, <2>2, <2>3 DEF MaybeMessage, Message, PublishedNext
<1>3. CASE ~Publishing /\ Holders(NeededTerm) = {}
  <2>1. Announced = NoMessage
    BY <1>3 DEF Announced
  <2>2. Max({next_term - 1, 0}) \in {next_term - 1, 0} /\ 0 <= Max({next_term - 1, 0})
    BY <1>0, MaxOfTwo
  <2>3. Max({next_term - 1, 0}) \in Term
    BY <1>0, <2>2, TermFacts
  <2> QED
    BY <1>3, <2>1, <2>3 DEF NoMessage, MaybeMessage
<1> QED
  BY <1>1, <1>2, <1>3

(***************************************************************************)
(* What the initiator does with the announced message.  If it publishes    *)
(* one, it was waiting for a term it did not hold, so the only delivery is *)
(* that of the message it publishes.                                       *)
(***************************************************************************)
LEMMA AnnouncingFacts ==
    ASSUME TypeOK, LoopInv, StoresInv, pc = "prepare"
    PROVE  LET s == states[Initiator]
               r == AfterAnnouncing(s)
           IN  /\ Good(r, PublishedNext)
               /\ s.highest_seen <= r.highest_seen /\ s.last_delivered <= r.last_delivered
               /\ ~Publishing => r.delivered = s.delivered /\ r.last_delivered = s.last_delivered
               /\ \A t \in Term : t <= r.last_delivered =>
                     t <= s.last_delivered \/ (Publishing /\ t = next_term)
<1> DEFINE s == states[Initiator]
           r == AfterAnnouncing(s)
           a == Announced
           inserted == IF a.has THEN InsertMessage(s, a.term, a.data) ELSE s
<1>0. /\ Good(s, PublishedNext) /\ Good(s, next_term) /\ PublishedNext \in Int /\ next_term \in Int
      /\ Settled(s)
  BY NodesAreGood DEF StoresInv
<1>1. /\ a.term \in Term
      /\ a.has => a.term < PublishedNext /\ a.data = Message(a.term)
      /\ Publishing => a.has /\ a.term = next_term
  BY AnnouncedFacts
<1>2. r = IF Publishing THEN TryDeliverInOrder(inserted) ELSE inserted
  BY DEF AfterAnnouncing
<1> HIDE DEF s, r, a
<1>3. /\ Good(inserted, PublishedNext) /\ TakesIn(s, inserted)
      /\ a.has => \A u : Stores(inserted, u) <=> Stores(s, u) \/ u = a.term
  <2>1. CASE a.has
    <3>1. inserted = InsertMessage(s, a.term, Message(a.term))
      BY <1>1, <2>1
    <3> HIDE DEF inserted
    <3> QED
      BY <1>0, <1>1, <2>1, <3>1, InsertFacts
  <2>2. CASE ~a.has
    <3>1. s.highest_seen \in Int
      BY <1>0, StateFacts, TermFacts DEF Good
    <3> QED
      BY <1>0, <2>2, <3>1 DEF TakesIn
  <2> QED
    BY <2>1, <2>2
<1> HIDE DEF inserted
<1>4. /\ s.last_delivered \in Int /\ s.highest_seen \in Int
      /\ inserted.last_delivered = s.last_delivered /\ NextExpected(inserted) = NextExpected(s)
      /\ NextExpected(s) = s.last_delivered + 1 /\ inserted.delivered = s.delivered
      /\ s.highest_seen <= inserted.highest_seen
  BY <1>0, <1>3, StateFacts, TermFacts DEF Good, TakesIn, NextExpected
<1> SUFFICES
      /\ Good(r, PublishedNext)
      /\ s.highest_seen <= r.highest_seen /\ s.last_delivered <= r.last_delivered
      /\ ~Publishing => r.delivered = s.delivered /\ r.last_delivered = s.last_delivered
      /\ \A t \in Term : t <= r.last_delivered =>
            t <= s.last_delivered \/ (Publishing /\ t = next_term)
  BY DEF r, s
<1>5. CASE ~Publishing
  BY <1>2, <1>3, <1>4, <1>5
<1>6. CASE Publishing
  <2> DEFINE end == FirstMissing(inserted)
  <2>1. /\ Good(r, PublishedNext) /\ r.last_delivered = end - 1
        /\ r.highest_seen = inserted.highest_seen
    BY <1>0, <1>2, <1>3, <1>6, DeliverFacts
  <2>2. /\ end \in s.last_delivered + 1 .. NumMsgs
        /\ \A t \in s.last_delivered + 1 .. end - 1 : Stores(inserted, t)
    BY <1>3, <1>4, FirstMissingFacts
  <2> HIDE DEF end
  <2>3. ASSUME NEW t \in Term, t <= r.last_delivered, ~(t <= s.last_delivered)
        PROVE  t = next_term
    <3>1. t \in Int /\ s.last_delivered + 1 <= t /\ t <= end - 1 /\ end \in Int
      BY <1>4, <2>1, <2>2, <2>3, TermFacts
    <3>2. Stores(inserted, t) /\ Stores(inserted, s.last_delivered + 1)
      BY <1>4, <2>2, <3>1
    <3>3. next_term = s.last_delivered + 1
      BY <1>0, <1>1, <1>3, <1>4, <1>6, <3>2 DEF Settled
    <3>4. Stores(s, t) => t < next_term
      BY <1>0, <2>3 DEF Good
    <3> QED
      BY <1>0, <1>1, <1>3, <1>6, <3>1, <3>2, <3>3, <3>4
  <2> QED
    BY <1>4, <1>6, <2>1, <2>2, <2>3
<1> QED
  BY <1>5, <1>6

\* An answer, from the initiator's store or left behind, is the message of the pending term.
LEMMA AnswerFacts ==
    ASSUME NEW n \in Int, NEW s, Good(s, n), next_term \in Int, next_term <= n,
           GoodPiggyback(piggyback), piggyback.term # None, AnswerData(s) # None
    PROVE  /\ piggyback.term \in Term /\ piggyback.term < n
           /\ AnswerData(s) = Message(piggyback.term)
<1>0. piggyback.term \in Term
  BY DEF GoodPiggyback, Piggyback, MaybeTerm
<1>1. CASE Stores(s, piggyback.term)
  BY <1>0, <1>1 DEF AnswerData, Good
<1>2. CASE ~Stores(s, piggyback.term)
  <2>1. AnswerData(s) = piggyback.data
    BY <1>2 DEF AnswerData
  <2>2. piggyback.term < next_term /\ piggyback.data = Message(piggyback.term) /\ piggyback.term \in Int
    BY <1>0, <2>1, TermFacts DEF GoodPiggyback
  <2> QED
    BY <1>0, <2>1, <2>2
<1> QED
  BY <1>1, <1>2

(***************************************************************************)
(* What prepare_round makes of the initiator's state, which the invariant  *)
(* and the refinement both read.                                           *)
(***************************************************************************)
LEMMA PreparedFacts ==
    ASSUME TypeOK, LoopInv, StoresInv, PrepareRound
    PROVE  LET s == states[Initiator]
               r == states'[Initiator]
           IN  /\ states' = [states EXCEPT ![Initiator] = r]
               /\ Good(r, PublishedNext)
               /\ s.highest_seen <= r.highest_seen /\ s.last_delivered <= r.last_delivered
               /\ ~Publishing => r.delivered = s.delivered /\ r.last_delivered = s.last_delivered
               /\ \A t \in Term : t <= r.last_delivered =>
                     t <= s.last_delivered \/ (Publishing /\ t = next_term)
               /\ \A i \in Node : i # Initiator => states'[i] = states[i]
<1> DEFINE s == states[Initiator]
           a == AfterAnnouncing(s)
           answer == IF piggyback.term = None THEN None ELSE AnswerData(a)
           r == IF answer = None THEN a ELSE InsertMessage(a, piggyback.term, answer)
<1>0. pc = "prepare" /\ states' = [states EXCEPT ![Initiator] = r]
  BY DEF PrepareRound
<1>1. /\ Good(a, PublishedNext)
      /\ s.highest_seen <= a.highest_seen /\ s.last_delivered <= a.last_delivered
      /\ ~Publishing => a.delivered = s.delivered /\ a.last_delivered = s.last_delivered
      /\ \A t \in Term : t <= a.last_delivered =>
            t <= s.last_delivered \/ (Publishing /\ t = next_term)
  BY <1>0, AnnouncingFacts
<1> HIDE DEF a
<1>2. next_term \in Int /\ PublishedNext \in Int /\ next_term <= PublishedNext /\ Initiator \in Node
      /\ Good(s, next_term)
  BY NodesAreGood
<1>3. Good(r, PublishedNext) /\ TakesIn(a, r)
  <2>1. CASE answer = None
    <3>1. a.highest_seen \in Int
      BY <1>1, StateFacts, TermFacts DEF Good
    <3> QED
      BY <1>1, <2>1, <3>1 DEF TakesIn
  <2>2. CASE answer # None
    <3>1. /\ piggyback.term \in Term /\ piggyback.term < PublishedNext
          /\ answer = Message(piggyback.term)
      BY <1>1, <1>2, <2>2, AnswerFacts DEF StoresInv
    <3>2. r = InsertMessage(a, piggyback.term, Message(piggyback.term))
      BY <2>2, <3>1
    <3> HIDE DEF r
    <3> QED
      BY <1>1, <1>2, <3>1, <3>2, InsertFacts
  <2> QED
    BY <2>1, <2>2
<1> HIDE DEF r
<1>4. states'[Initiator] = r /\ (\A i \in Node : i # Initiator => states'[i] = states[i])
  BY <1>0, <1>2 DEF TypeOK
<1>5. s.highest_seen <= r.highest_seen
  <2>1. s.highest_seen \in Int /\ a.highest_seen \in Int /\ r.highest_seen \in Int
    BY <1>1, <1>2, <1>3, StateFacts, TermFacts DEF Good
  <2> QED
    BY <1>1, <1>3, <2>1 DEF TakesIn
<1> QED
  BY <1>0, <1>1, <1>3, <1>4, <1>5 DEF TakesIn

\* The answer of the round, and what is left pending, are good.
LEMMA PreparedAnswer ==
    ASSUME TypeOK, LoopInv, StoresInv, PrepareRound
    PROVE  \A p \in {piggyback', payload'.piggyback} :
              /\ p \in Piggyback
              /\ p.data # None => p.term < PublishedNext /\ p.data = Message(p.term)
<1> DEFINE a == AfterAnnouncing(states[Initiator])
           answer == IF piggyback.term = None THEN None ELSE AnswerData(a)
           q == IF answer = None THEN NoPiggyback ELSE [term |-> piggyback.term, data |-> answer]
<1>0. piggyback' = LeftPending(answer) /\ payload'.piggyback = q /\ pc = "prepare"
  BY DEF PrepareRound
<1>1. next_term \in Int /\ PublishedNext \in Int /\ next_term <= PublishedNext
  BY NodesAreGood
<1>2. Good(a, PublishedNext) /\ piggyback \in Piggyback /\ GoodPiggyback(piggyback)
  BY <1>0, AnnouncingFacts DEF StoresInv, TypeOK
<1> HIDE DEF a
<1>3. NoPiggyback \in Piggyback /\ NoPiggyback.data = None
  BY DEF NoPiggyback, Piggyback, MaybeTerm, MaybeMessage
<1>4. CASE answer = None
  <2>1. q = NoPiggyback /\ piggyback' = [piggyback EXCEPT !.data = None]
    BY <1>0, <1>4 DEF LeftPending
  <2>2. piggyback' \in Piggyback /\ piggyback'.data = None
    BY <1>2, <2>1 DEF Piggyback, MaybeMessage
  <2> QED
    BY <1>0, <1>3, <2>1, <2>2
<1>5. CASE answer # None
  <2>1. /\ piggyback.term \in Term /\ piggyback.term < PublishedNext
        /\ answer = Message(piggyback.term)
    BY <1>1, <1>2, <1>5, AnswerFacts
  <2>2. q \in Piggyback /\ q.data = Message(q.term) /\ q.term < PublishedNext
    BY <1>5, <2>1 DEF Piggyback, MaybeTerm, MaybeMessage, Message
  <2>3. piggyback' = NoPiggyback
    BY <1>0, <1>5 DEF LeftPending
  <2> QED
    BY <1>0, <1>3, <2>2, <2>3
<1> QED
  BY <1>4, <1>5

\* prepare_round keeps the types.
LEMMA PrepareTypes ==
    ASSUME TomInv, PrepareRound
    PROVE  TypeOK' /\ LoopInv' /\ next_term' = PublishedNext /\ Initiator' = Initiator
<1> DEFINE i == Initiator
<1>0. /\ pc = "prepare" /\ pc' = "flood" /\ next_term' = PublishedNext
      /\ msg_starts' = IF Publishing THEN [msg_starts EXCEPT ![next_term] = round_num] ELSE msg_starts
      /\ payload'.current_term = Announced.term /\ payload'.has_message = Announced.has
      /\ UNCHANGED <<round_num, heard, stopped_by, recorded, records, goal_reached, progress_count,
                     took_part>>
  BY DEF PrepareRound, PublishedNext
<1>1. LoopInv' /\ Initiator' = Initiator
  BY <1>0 DEF TomInv, LoopInv, LoopTypeOK, Initiator
<1>2. /\ next_term \in Nat /\ PublishedNext \in 0 .. NumMsgs /\ i \in Node
      /\ Good(states[i], next_term) /\ round_num \in Nat
  BY NodesAreGood, TermFacts DEF TomInv, LoopInv, LoopTypeOK
<1>3. payload' \in Packet
  <2>1. PICK p : payload' =
            [current_term |-> Announced.term, has_message |-> Announced.has,
             message_data |-> Announced.data, sender |-> i, nack_term |-> NackFor(states[i]),
             piggyback |-> p]
    BY DEF PrepareRound
  <2>2. p \in Piggyback
    BY <2>1, PreparedAnswer DEF TomInv
  <2>3. NackFor(states[i]) \in Term
    BY <1>2, NackFacts
  <2>4. Announced.term \in Term /\ Announced.has \in BOOLEAN /\ Announced.data \in MaybeMessage
    BY AnnouncedFacts DEF TomInv
  <2> QED
    BY <1>2, <2>1, <2>2, <2>3, <2>4 DEF Packet
<1>4. states' \in [Node -> NodeTomState]
  <2>1. states' = [states EXCEPT ![i] = states'[i]] /\ states'[i] \in NodeTomState
    BY PreparedFacts DEF TomInv, Good
  <2>2. states \in [Node -> NodeTomState]
    BY DEF TomInv, TypeOK
  <2> QED
    BY <1>2, <2>1, <2>2
<1>5. msg_starts' \in [Term -> Nat \cup {None}]
  BY <1>0, <1>2 DEF TomInv, TypeOK
<1>6. piggyback' \in Piggyback
  BY PreparedAnswer DEF TomInv
<1> QED
  BY <1>0, <1>1, <1>2, <1>3, <1>4, <1>5, <1>6 DEF TomInv, TypeOK, LoopInv

\* prepare_round keeps the invariant: what it delivers unreported is the publisher's own message.
LEMMA PrepareStep ==
    ASSUME TomInv, PrepareRound
    PROVE  TomInv'
<1> DEFINE i == Initiator
<1>0. /\ pc = "prepare" /\ pc' = "flood"
      /\ msg_starts' = IF Publishing THEN [msg_starts EXCEPT ![next_term] = round_num] ELSE msg_starts
      /\ payload'.current_term = Announced.term /\ payload'.has_message = Announced.has
      /\ payload'.message_data = Announced.data
      /\ UNCHANGED <<round_num, heard, stopped_by, recorded, records, goal_reached, progress_count,
                     took_part>>
  BY DEF PrepareRound
<1>1. TypeOK' /\ LoopInv' /\ next_term' = PublishedNext /\ Initiator' = i
  BY PrepareTypes
<1>2. /\ next_term \in Nat /\ next_term <= PublishedNext /\ PublishedNext \in Nat /\ i \in Node
      /\ \A j \in Node : Good(states[j], next_term) /\ Good(states[j], PublishedNext)
  BY NodesAreGood DEF TomInv
<1>3. /\ Good(states'[i], PublishedNext)
      /\ states[i].highest_seen <= states'[i].highest_seen
      /\ states[i].last_delivered <= states'[i].last_delivered
      /\ \A t \in Term : t <= states'[i].last_delivered =>
            t <= states[i].last_delivered \/ (Publishing /\ t = next_term)
      /\ \A j \in Node : j # i => states'[j] = states[j]
  BY PreparedFacts DEF TomInv
<1> HIDE DEF i
<1>4. StartsInv'
  <2>1. round_num \in Nat /\ msg_starts \in [Term -> Nat \cup {None}]
    BY DEF TomInv, TypeOK, LoopTypeOK
  <2>2. ASSUME NEW t \in Term
        PROVE  IF t < PublishedNext THEN msg_starts'[t] \in 0 .. round_num ELSE msg_starts'[t] = None
    <3>1. t \in Int /\ (IF t < next_term THEN msg_starts[t] \in 0 .. round_num ELSE msg_starts[t] = None)
      BY TermFacts DEF TomInv, StartsInv
    <3>2. CASE Publishing
      BY <1>0, <1>2, <2>1, <3>1, <3>2 DEF PublishedNext
    <3>3. CASE ~Publishing
      BY <1>0, <3>1, <3>3 DEF PublishedNext
    <3> QED
      BY <3>2, <3>3
  <2> QED
    BY <1>0, <1>1, <2>2 DEF StartsInv
<1>5. StoresInv'
  <2>1. ASSUME NEW j \in Node
        PROVE  /\ Good(states'[j], PublishedNext)
               /\ took_part[j] <= states'[j].highest_seen
               /\ Settled(states'[j]) \/ j = i
    <3>0. took_part[j] <= states[j].highest_seen /\ Settled(states[j])
      BY <1>0 DEF TomInv, StoresInv
    <3>1. CASE j = i
      <4>1. took_part[j] \in Int /\ states[j].highest_seen \in Int /\ states'[j].highest_seen \in Int
        BY <1>2, <1>3, <3>1, StateFacts, TermFacts DEF Good, TomInv, TypeOK
      <4> QED
        BY <1>3, <3>0, <3>1, <4>1
    <3>2. CASE j # i
      BY <1>2, <1>3, <3>0, <3>2
    <3> QED
      BY <3>1, <3>2
  <2>2. GoodPiggyback(piggyback)' /\ GoodPiggyback(payload.piggyback)'
    BY <1>1, PreparedAnswer DEF GoodPiggyback, TomInv
  <2>3. payload' \in Packet /\ (payload'.has_message =>
            payload'.current_term < PublishedNext /\ payload'.message_data = Message(payload'.current_term))
    BY <1>0, <1>1, AnnouncedFacts DEF TomInv, TypeOK
  <2> QED
    BY <1>0, <1>1, <2>1, <2>2, <2>3 DEF StoresInv, GoodPacket
<1>6. RecordedOnce'
  <2>1. \A t \in Term : t < next_term => msg_starts'[t] = msg_starts[t]
    BY <1>0 DEF TomInv, TypeOK
  <2>2. ASSUME NEW r \in records
        PROVE  /\ r.start = msg_starts'[r.term] /\ r.start < r.end
               /\ \E j \in Node : states'[j].last_delivered >= r.term
    <3>1. /\ r.term \in Term /\ r.start \in Nat /\ r.start = msg_starts[r.term] /\ r.start < r.end
      BY DEF TomInv, TypeOK, ReportSound, RecordedOnce
    <3>2. r.term < next_term
      BY <3>1 DEF TomInv, StartsInv, None
    <3>3. PICK j \in Node : states[j].last_delivered >= r.term
      BY DEF TomInv, ReportSound, RecordedOnce
    <3>4. states'[j].last_delivered >= r.term
      <4>1. CASE j = i
        <5>1. states'[j].last_delivered \in Int /\ states[j].last_delivered \in Int /\ r.term \in Int
          BY <1>2, <1>3, <3>1, <4>1, StateFacts, TermFacts DEF Good
        <5> QED
          BY <1>3, <3>3, <4>1, <5>1
      <4>2. CASE j # i
        BY <1>3, <3>3, <4>2
      <4> QED
        BY <4>1, <4>2
    <3> QED
      BY <2>1, <3>1, <3>2, <3>4
  <2>3. ASSUME NEW j \in Node, NEW t \in Term, states'[j].last_delivered >= t,
               j # InitiatorOf(msg_starts'[t])
        PROVE  t \in recorded
    <3>0. t <= states'[j].last_delivered
      BY <1>1, <2>3, TermFacts, StateFacts DEF TypeOK
    <3>1. CASE t <= states[j].last_delivered
      <4>1. t < next_term /\ states[j].last_delivered >= t
        BY <1>2, <3>1, StateFacts, TermFacts DEF Good
      <4> QED
        BY <2>1, <2>3, <4>1 DEF TomInv, ReportSound, RecordedOnce
    <3>2. CASE ~(t <= states[j].last_delivered)
      <4>1. j = i /\ Publishing /\ t = next_term
        BY <1>3, <3>0, <3>2
      <4>2. msg_starts'[t] = round_num
        BY <1>0, <4>1 DEF TomInv, TypeOK
      <4> QED
        BY <2>3, <4>1, <4>2 DEF i, Initiator
    <3> QED
      BY <3>1, <3>2
  <2> QED
    BY <1>0, <2>2, <2>3 DEF TomInv, ReportSound, RecordedOnce
<1>7. StopSound'
  BY <1>0 DEF TomInv, LoopInv, StopSound
<1> QED
  BY <1>1, <1>4, <1>5, <1>6, <1>7 DEF TomInv, ReportSound

(***************************************************************************)
(* What process_round makes of the nodes' states: participants deliver all *)
(* they can, the others are as they were.                                  *)
(***************************************************************************)
LEMMA ProcessedFacts ==
    ASSUME TypeOK, LoopInv, StoresInv, ProcessRound
    PROVE  \A i \in Node :
              /\ Good(states'[i], next_term) /\ Settled(states'[i])
              /\ states[i].last_delivered <= states'[i].last_delivered
              /\ took_part'[i] <= states'[i].highest_seen
              /\ i \in heard => \A t \in Term :
                    t <= states'[i].last_delivered <=>
                        t <= states[i].last_delivered \/ t \in DeliveredNow(Received(states[i], payload))
              /\ i \notin heard => states'[i] = states[i]
<1> SUFFICES ASSUME NEW i \in Node
             PROVE  /\ Good(states'[i], next_term) /\ Settled(states'[i])
                    /\ states[i].last_delivered <= states'[i].last_delivered
                    /\ took_part'[i] <= states'[i].highest_seen
                    /\ i \in heard => \A t \in Term :
                          t <= states'[i].last_delivered <=>
                              \/ t <= states[i].last_delivered
                              \/ t \in DeliveredNow(Received(states[i], payload))
                    /\ i \notin heard => states'[i] = states[i]
  OBVIOUS
<1>0. /\ pc = "process" /\ Initiator \in heard
      /\ states'[i] = IF i \in heard THEN TryDeliverInOrder(Received(states[i], payload)) ELSE states[i]
      /\ took_part'[i] = IF i \in heard THEN Max({took_part[i], payload.current_term}) ELSE took_part[i]
  BY DEF ProcessRound, LoopInv
<1>1. /\ next_term \in Int /\ Good(states[i], next_term) /\ took_part[i] <= states[i].highest_seen
      /\ Settled(states[i]) \/ i = Initiator
      /\ took_part[i] \in MaybeTerm
  BY NodesAreGood DEF StoresInv, TypeOK
<1>2. CASE i \notin heard
  <2>1. states[i].last_delivered \in Int
    BY <1>1, StateFacts, TermFacts DEF Good
  <2> QED
    BY <1>0, <1>1, <1>2, <2>1
<1>3. CASE i \in heard
  <2> DEFINE s == states[i]
             q == Received(s, payload)
             r == TryDeliverInOrder(q)
  <2>1. Good(q, next_term) /\ TakesIn(s, q) /\ payload.current_term <= q.highest_seen
    BY <1>1, ReceivedFacts DEF StoresInv
  <2>2. states'[i] = r /\ DeliveredNow(q) = NextExpected(q) .. FirstMissing(q) - 1
    BY <1>0, <1>3 DEF DeliveredNow
  <2> HIDE DEF q
  <2>3. /\ Good(r, next_term) /\ Settled(r)
        /\ r.last_delivered = FirstMissing(q) - 1 /\ q.last_delivered <= r.last_delivered
        /\ r.highest_seen = q.highest_seen
    BY <1>1, <2>1, DeliverFacts
  <2>4. FirstMissing(q) \in Int /\ NextExpected(q) = q.last_delivered + 1
        /\ NextExpected(q) <= FirstMissing(q)
    BY <2>1, FirstMissingFacts, TermFacts DEF NextExpected
  <2> HIDE DEF r
  <2>5. took_part'[i] <= r.highest_seen
    <3>1. /\ took_part[i] \in Int /\ payload.current_term \in Int /\ s.highest_seen \in Int
          /\ q.highest_seen \in Int
      BY <1>1, <2>1, StateFacts, TermFacts DEF Good, StoresInv, GoodPacket, Packet
    <3>2. Max({took_part[i], payload.current_term}) \in {took_part[i], payload.current_term}
      BY <3>1, MaxOfTwo
    <3> QED
      BY <1>0, <1>1, <1>3, <2>1, <2>3, <3>1, <3>2 DEF TakesIn
  <2>6. ASSUME NEW t \in Term
        PROVE  t <= r.last_delivered <=> t <= s.last_delivered \/ t \in NextExpected(q) .. FirstMissing(q) - 1
    <3>1. t \in Int /\ s.last_delivered \in Int /\ q.last_delivered = s.last_delivered
      BY <1>1, <2>1, StateFacts, TermFacts DEF Good, TakesIn
    <3> QED
      BY <2>3, <2>4, <3>1
  <2>7. s.last_delivered <= r.last_delivered
    BY <2>1, <2>3 DEF TakesIn
  <2> QED
    BY <1>3, <2>2, <2>3, <2>5, <2>6, <2>7 DEF q
<1> QED
  BY <1>2, <1>3

\* What is delivered to the participants was published, and is delivered at one of them.
LEMMA DeliveredByFacts ==
    ASSUME TypeOK, LoopInv, StoresInv, ProcessRound, NEW t \in DeliveredByParticipants
    PROVE  t \in Term /\ t < next_term /\ \E i \in Node : states'[i].last_delivered >= t
<1>1. PICK i \in heard : t \in DeliveredNow(Received(states[i], payload))
  BY DEF DeliveredByParticipants
<1>2. i \in Node /\ Good(states[i], next_term) /\ next_term \in Int
  BY NodesAreGood DEF TypeOK, LoopTypeOK
<1>3. Good(Received(states[i], payload), next_term)
  BY <1>2, ReceivedFacts DEF StoresInv
<1>4. t \in Term /\ t < next_term
  BY <1>1, <1>3, FirstMissingFacts DEF DeliveredNow, Good, Stores
<1>5. t <= states'[i].last_delivered /\ Good(states'[i], next_term)
  BY <1>1, <1>2, <1>4, ProcessedFacts
<1>6. states'[i].last_delivered >= t
  BY <1>4, <1>5, StateFacts, TermFacts DEF Good
<1> QED
  BY <1>2, <1>4, <1>6

\* The answer to a NACK is the message of the term asked for.
LEMMA AnswerNackIsGood ==
    ASSUME TypeOK, LoopInv, StoresInv
    PROVE  GoodPiggyback(AnswerNack)
<1> DEFINE n == payload.nack_term
           holders == {i \in heard : Stores(Received(states[i], payload), n)}
           k == Max(holders)
           q == Received(states[k], payload)
<1>0. heard \in SUBSET Node /\ n \in Term /\ piggyback \in Piggyback /\ GoodPiggyback(piggyback)
      /\ next_term \in Int
  BY NodesAreGood DEF TypeOK, LoopTypeOK, Packet, StoresInv
<1>1. CASE n # 0 /\ holders # {}
  <2>1. holders \in SUBSET Node
    BY <1>0
  <2>2. IsFiniteSet(holders) /\ holders \in SUBSET Int
    <3> HIDE DEF holders
    <3> QED
      BY <2>1, NodesAreFinite, FS_Subset
  <2>3. k \in holders
    <3> HIDE DEF holders
    <3> QED
      BY <1>1, <2>2, MaxOfFinite
  <2>4. k \in Node /\ Stores(q, n)
    BY <2>1, <2>3
  <2>5. AnswerNack = [term |-> n, data |-> q.store[n]]
    BY <1>1 DEF AnswerNack
  <2> HIDE DEF k
  <2>6. Good(q, next_term)
    BY <1>0, <2>4, NodesAreGood, ReceivedFacts DEF StoresInv
  <2> HIDE DEF q, n
  <2>7. q.store[n] = Message(n) /\ n < next_term
    BY <1>0, <2>4, <2>6 DEF Good
  <2> QED
    BY <1>0, <2>5, <2>7 DEF GoodPiggyback, Piggyback, MaybeTerm, MaybeMessage, Message
<1>2. CASE ~(n # 0 /\ holders # {})
  <2>1. AnswerNack = piggyback \/ (AnswerNack = [piggyback EXCEPT !.term = n] /\ piggyback.term = None)
    BY <1>2 DEF AnswerNack
  <2>2. CASE AnswerNack = piggyback
    BY <1>0, <2>2
  <2>3. CASE AnswerNack = [piggyback EXCEPT !.term = n] /\ piggyback.term = None
    <3>1. piggyback.data = None
      <4>1. piggyback.data # None => piggyback.data = None
        BY <1>0, <2>3 DEF GoodPiggyback, Message
      <4> QED
        BY <4>1
    <3> QED
      BY <1>0, <2>3, <3>1 DEF GoodPiggyback, Piggyback, MaybeTerm
  <2> QED
    BY <2>1, <2>2, <2>3
<1> QED
  BY <1>1, <1>2

\* process_round keeps the types.
LEMMA ProcessTypes ==
    ASSUME TomInv, ProcessRound
    PROVE  /\ TypeOK' /\ LoopInv' /\ pc' \in {"prepare", "stopped"}
           /\ round_num \in Nat /\ round_num' \in Nat /\ round_num <= round_num'
           /\ stopped_by' \in {StopReason, "max_rounds"}
<1>0. /\ EndRound(StopReason) /\ piggyback' = AnswerNack
      /\ states' = [i \in Node |->
             IF i \in heard THEN TryDeliverInOrder(Received(states[i], payload)) ELSE states[i]]
      /\ RecordDelivered(round_num + 1)
      /\ goal_reached' = [i \in Node |-> LogComplete(states'[i])]
      /\ progress_count' = Min({Len(states'[i].delivered) : i \in Node})
      /\ took_part' = [i \in Node |->
             IF i \in heard THEN Max({took_part[i], payload.current_term}) ELSE took_part[i]]
      /\ UNCHANGED <<next_term, msg_starts, payload>>
  BY DEF ProcessRound
<1>1. /\ LoopInv' /\ pc' \in {"prepare", "stopped"} /\ round_num' \in Nat /\ round_num <= round_num'
      /\ stopped_by' \in {StopReason, "max_rounds"}
  <2>1. StopReason \in StopReasons
    BY DEF StopReason, StopReasons
  <2>2. round_num \in Nat
    BY DEF TomInv, LoopInv, LoopTypeOK
  <2> QED
    BY <1>0, <2>1, <2>2, EndRoundStep DEF TomInv
<1>2. round_num \in Nat /\ TypeOK /\ LoopInv /\ StoresInv
  BY DEF TomInv, LoopInv, LoopTypeOK
<1>3. \A i \in Node : Good(states'[i], next_term)
  BY <1>2, ProcessedFacts
<1>4. states' \in [Node -> NodeTomState]
  <2>1. \A i \in Node : states'[i] \in NodeTomState
    BY <1>3 DEF Good
  <2>2. states' = [i \in Node |-> states'[i]]
    BY <1>0
  <2> QED
    BY <2>1, <2>2
<1>5. /\ recorded' \in SUBSET Term
      /\ records' \in SUBSET [term : Term, start : Nat, end : Nat]
  <2>1. DeliveredByParticipants \in SUBSET Term
    BY <1>2, DeliveredByFacts
  <2>2. \A t \in Term : StartOf(t) \in Nat
    BY DEF StartOf, TomInv, TypeOK
  <2>3. \A t \in DeliveredByParticipants \ recorded :
            [term |-> t, start |-> StartOf(t), end |-> round_num + 1]
                \in [term : Term, start : Nat, end : Nat]
    BY <1>2, <2>1, <2>2
  <2> QED
    BY <1>0, <2>1, <2>3 DEF RecordDelivered, TomInv, TypeOK
<1>6. progress_count' \in 0 .. NumMsgs
  <2> DEFINE f == [i \in Node |-> Len(states'[i].delivered)]
  <2>1. \A i \in Node : f[i] \in 0 .. NumMsgs
    <3> SUFFICES ASSUME NEW i \in Node
                 PROVE  f[i] \in 0 .. NumMsgs
      OBVIOUS
    <3>1. f[i] = states'[i].last_delivered + 1 /\ states'[i].last_delivered \in MaybeTerm
      BY <1>3, StateFacts DEF Good
    <3> QED
      BY <3>1, TermFacts
  <2>2. f \in [Node -> Int]
    BY <2>1
  <2>3. progress_count' = Min({f[i] : i \in Node})
    BY <1>0
  <2> HIDE DEF f
  <2>9. Min({f[i] : i \in Node}) \in {f[i] : i \in Node}
    <3>1. IsFiniteSet(Node) /\ Node # {}
      BY NodesAreFinite
    <3> QED
      BY <2>1, <2>2, <3>1, LeastOver
  <2> QED
    BY <2>1, <2>3, <2>9
<1>7. piggyback' \in Piggyback
  BY <1>0, <1>2, AnswerNackIsGood DEF GoodPiggyback
<1>8. took_part' \in [Node -> MaybeTerm]
  <2>1. ASSUME NEW i \in Node
        PROVE  Max({took_part[i], payload.current_term}) \in MaybeTerm /\ took_part[i] \in MaybeTerm
    <3>1. took_part[i] \in MaybeTerm /\ payload.current_term \in MaybeTerm
      BY <1>2 DEF TypeOK, Packet, MaybeTerm
    <3>2. took_part[i] \in Int /\ payload.current_term \in Int
      BY <3>1, TermFacts
    <3> QED
      BY <3>1, <3>2, MaxOfTwo
  <2> QED
    BY <1>0, <2>1
<1>9. goal_reached' \in [Node -> BOOLEAN]
  BY <1>0 DEF LogComplete
<1> QED
  BY <1>0, <1>1, <1>2, <1>4, <1>5, <1>6, <1>7, <1>8, <1>9 DEF TypeOK, LoopInv

\* process_round reports each delivery that is the first in the network, once.
LEMMA ProcessKeepsRecords ==
    ASSUME TomInv, ProcessRound
    PROVE  RecordedOnce'
<1> DEFINE D == DeliveredByParticipants
<1>0. /\ recorded' = recorded \cup D
      /\ records' = records \cup
             {[term |-> t, start |-> StartOf(t), end |-> round_num + 1] : t \in D \ recorded}
      /\ msg_starts' = msg_starts /\ pc = "process"
  BY DEF ProcessRound, RecordDelivered
<1>1. TypeOK /\ LoopInv /\ StoresInv /\ StartsInv /\ RecordedOnce /\ round_num \in Nat
  BY DEF TomInv, ReportSound, LoopInv, LoopTypeOK
<1>2. \A t \in D : t \in Term /\ t < next_term /\ \E i \in Node : states'[i].last_delivered >= t
  BY <1>1, DeliveredByFacts
<1>3. \A i \in Node :
         /\ states[i].last_delivered <= states'[i].last_delivered
         /\ states[i].last_delivered \in Int /\ states'[i].last_delivered \in Int
         /\ \A t \in Term : t <= states'[i].last_delivered =>
               t <= states[i].last_delivered \/ (i \in heard /\ t \in DeliveredNow(Received(states[i], payload)))
  <2> SUFFICES ASSUME NEW i \in Node
               PROVE  /\ states[i].last_delivered <= states'[i].last_delivered
                      /\ states[i].last_delivered \in Int /\ states'[i].last_delivered \in Int
                      /\ \A t \in Term : t <= states'[i].last_delivered =>
                            \/ t <= states[i].last_delivered
                            \/ i \in heard /\ t \in DeliveredNow(Received(states[i], payload))
    OBVIOUS
  <2>1. /\ Good(states[i], next_term) /\ Good(states'[i], next_term)
        /\ states[i].last_delivered <= states'[i].last_delivered
        /\ i \in heard => \A t \in Term :
              t <= states'[i].last_delivered <=>
                  t <= states[i].last_delivered \/ t \in DeliveredNow(Received(states[i], payload))
        /\ i \notin heard => states'[i] = states[i]
    BY <1>1, ProcessedFacts DEF StoresInv
  <2>2. states[i].last_delivered \in Int /\ states'[i].last_delivered \in Int
    BY <2>1, StateFacts, TermFacts DEF Good
  <2> QED
    BY <2>1, <2>2
<1> HIDE DEF D
<1>4. \A t \in D : StartOf(t) = msg_starts[t] /\ msg_starts[t] \in 0 .. round_num
  BY <1>1, <1>2 DEF StartOf, StartsInv, None
<1>5. recorded' = {r.term : r \in records'}
  <2>1. recorded = {r.term : r \in records}
    BY <1>1 DEF RecordedOnce
  <2>2. ASSUME NEW t \in recorded'
        PROVE  \E r \in records' : t = r.term
    <3>1. CASE t \in recorded
      BY <1>0, <2>1, <3>1
    <3>2. CASE t \notin recorded
      <4> DEFINE r == [term |-> t, start |-> StartOf(t), end |-> round_num + 1]
      <4>1. r \in records' /\ t = r.term
        BY <1>0, <2>2, <3>2
      <4> QED
        BY <4>1
    <3> QED
      BY <3>1, <3>2
  <2>3. ASSUME NEW r \in records'
        PROVE  r.term \in recorded'
    <3>1. r \in records \/ \E t \in D : r = [term |-> t, start |-> StartOf(t), end |-> round_num + 1]
      BY <1>0
    <3> QED
      BY <1>0, <2>1, <3>1
  <2> QED
    BY <2>2, <2>3
<1>6. \A r, q \in records' : r.term = q.term => r = q
  <2> SUFFICES ASSUME NEW r \in records', NEW q \in records', r.term = q.term
               PROVE  r = q
    OBVIOUS
  <2>1. /\ r \in records \/ (r.term \notin recorded
                             /\ r = [term |-> r.term, start |-> StartOf(r.term), end |-> round_num + 1])
        /\ q \in records \/ (q.term \notin recorded
                             /\ q = [term |-> q.term, start |-> StartOf(q.term), end |-> round_num + 1])
    BY <1>0
  <2>2. (r \in records => r.term \in recorded) /\ (q \in records => q.term \in recorded)
    BY <1>1 DEF RecordedOnce
  <2>3. r \in records /\ q \in records => r = q
    BY <1>1 DEF RecordedOnce
  <2> QED
    BY <2>1, <2>2, <2>3
<1>7. ASSUME NEW r \in records'
      PROVE  /\ r.start = msg_starts[r.term] /\ r.start < r.end
             /\ \E i \in Node : states'[i].last_delivered >= r.term
  <2>1. CASE r \in records
    <3>1. r.start = msg_starts[r.term] /\ r.start < r.end /\ r.term \in Int
      BY <1>1, <2>1, TermFacts DEF RecordedOnce, TypeOK
    <3>2. PICK i \in Node : states[i].last_delivered >= r.term
      BY <1>1, <2>1 DEF RecordedOnce
    <3>3. states'[i].last_delivered >= r.term
      BY <1>3, <3>1, <3>2
    <3> QED
      BY <3>1, <3>3
  <2>2. CASE r \notin records
    <3>1. PICK t \in D : r = [term |-> t, start |-> StartOf(t), end |-> round_num + 1]
      BY <1>0, <2>2
    <3> QED
      BY <1>1, <1>2, <1>4, <3>1
  <2> QED
    BY <2>1, <2>2
<1>8. ASSUME NEW i \in Node, NEW t \in Term, states'[i].last_delivered >= t,
             i # InitiatorOf(msg_starts[t])
      PROVE  t \in recorded'
  <2>1. t \in Int /\ t <= states'[i].last_delivered
    BY <1>3, <1>8, TermFacts
  <2>2. CASE t <= states[i].last_delivered
    BY <1>0, <1>1, <1>3, <1>8, <2>1, <2>2 DEF RecordedOnce
  <2>3. CASE ~(t <= states[i].last_delivered)
    <3>1. i \in heard /\ t \in DeliveredNow(Received(states[i], payload))
      BY <1>3, <2>1, <2>3
    <3> QED
      BY <1>0, <3>1 DEF D, DeliveredByParticipants
  <2> QED
    BY <2>2, <2>3
<1> QED
  BY <1>0, <1>5, <1>6, <1>7, <1>8 DEF RecordedOnce

(***************************************************************************)
(* A stop is for the reason given.  A message that everyone delivered has  *)
(* some node that did not publish it, so it was reported; and a reported   *)
(* last message was delivered by some node, after all others.              *)
(***************************************************************************)
LEMMA ProcessKeepsStop ==
    ASSUME TomInv, ProcessRound
    PROVE  StopSound'
<1>1. RecordedOnce' /\ TypeOK' /\ stopped_by' \in {StopReason, "max_rounds"}
  BY ProcessKeepsRecords, ProcessTypes
<1>2. goal_reached' = [i \in Node |-> LogComplete(states'[i])]
  BY DEF ProcessRound
<1>3. \A i \in Node : /\ Len(states'[i].delivered) = states'[i].last_delivered + 1
                      /\ states'[i].last_delivered \in Int
                      /\ Len(states'[i].delivered) \in Nat
  <2> SUFFICES ASSUME NEW i \in Node
               PROVE  /\ Len(states'[i].delivered) = states'[i].last_delivered + 1
                      /\ states'[i].last_delivered \in Int
                      /\ Len(states'[i].delivered) \in Nat
    OBVIOUS
  <2>1. Good(states'[i], next_term)
    BY ProcessedFacts DEF TomInv
  <2> QED
    BY <2>1, StateFacts, TermFacts DEF Good
<1>4. ASSUME stopped_by' = "all_done"
      PROVE  recorded' = Term /\ \A i \in Node : goal_reached'[i] /\ LogComplete(states'[i])
  <2>1. AllDelivered
    BY <1>1, <1>4 DEF StopReason
  <2>2. ASSUME NEW t \in Term
        PROVE  t \in recorded'
    <3>1. PICK i \in Node : i # InitiatorOf(msg_starts'[t])
      <4>1. 0 \in Node /\ 1 \in Node
        BY NAssumption DEF Node
      <4> QED
        BY <4>1
    <3>2. Len(states'[i].delivered) >= NumMsgs
      BY <2>1 DEF AllDelivered, LogComplete
    <3>3. states'[i].last_delivered >= t
      BY <1>3, <3>2, TermFacts
    <3> QED
      BY <1>1, <3>1, <3>3 DEF RecordedOnce
  <2> QED
    BY <1>1, <1>2, <2>1, <2>2 DEF AllDelivered, TypeOK
<1>5. ASSUME stopped_by' = "drained"
      PROVE  \E i \in Node : LogComplete(states'[i])
  <2>1. Cardinality(recorded') >= NumMsgs
    BY <1>1, <1>5 DEF StopReason
  <2>2. IsFiniteSet(Term) /\ Cardinality(Term) = NumMsgs
    BY NumMsgsAssumption, FS_Interval DEF Term
  <2>3. recorded' \in SUBSET Term
    BY <1>1 DEF TypeOK
  <2>4. recorded' = Term
    <3>1. IsFiniteSet(recorded') /\ Cardinality(recorded') <= Cardinality(Term)
          /\ (Cardinality(Term) = Cardinality(recorded') => Term = recorded')
      BY <2>2, <2>3, FS_Subset
    <3>2. Cardinality(recorded') \in Nat /\ Cardinality(Term) \in Nat
      BY <2>2, <3>1, FS_CardinalityType
    <3> QED
      BY <2>1, <2>2, <3>1, <3>2
  <2>5. NumMsgs - 1 \in Term
    BY NumMsgsAssumption DEF Term
  <2>6. PICK r \in records' : r.term = NumMsgs - 1
    BY <1>1, <2>4, <2>5 DEF RecordedOnce
  <2>7. PICK i \in Node : states'[i].last_delivered >= NumMsgs - 1
    BY <1>1, <2>6 DEF RecordedOnce
  <2>8. Len(states'[i].delivered) >= NumMsgs
    BY <1>3, <2>7, NumMsgsAssumption
  <2> QED
    BY <2>8 DEF LogComplete
<1> QED
  BY <1>4, <1>5 DEF StopSound, LogComplete

\* process_round keeps the invariant.
LEMMA ProcessStep ==
    ASSUME TomInv, ProcessRound
    PROVE  TomInv'
<1>0. /\ UNCHANGED <<next_term, msg_starts, payload>> /\ piggyback' = AnswerNack
      /\ TypeOK' /\ LoopInv' /\ pc' \in {"prepare", "stopped"}
      /\ round_num \in Nat /\ round_num' \in Nat /\ round_num <= round_num'
  BY ProcessTypes DEF ProcessRound
<1>1. StartsInv'
  <2>1. \A t \in Term : msg_starts[t] \in 0 .. round_num => msg_starts[t] \in 0 .. round_num'
    BY <1>0
  <2> QED
    BY <1>0, <2>1 DEF TomInv, StartsInv
<1>2. StoresInv'
  <2>1. \A i \in Node :
           /\ Good(states'[i], next_term) /\ Settled(states'[i])
           /\ took_part'[i] <= states'[i].highest_seen
    BY ProcessedFacts DEF TomInv
  <2>2. GoodPiggyback(piggyback)'
    BY <1>0, AnswerNackIsGood DEF TomInv, GoodPiggyback
  <2>3. GoodPacket'
    BY <1>0 DEF TomInv, StoresInv, GoodPacket, GoodPiggyback
  <2> QED
    BY <1>0, <2>1, <2>2, <2>3 DEF StoresInv
<1>3. ReportSound'
  BY ProcessKeepsRecords, ProcessKeepsStop DEF ReportSound
<1> QED
  BY <1>0, <1>1, <1>2, <1>3 DEF TomInv

\* The other steps of the loop leave the protocol's variables alone.
LEMMA LoopStep ==
    ASSUME TomInv, \/ FloodIdentical /\ UNCHANGED tom_vars
                   \/ OutOfSlots /\ UNCHANGED tom_vars
                   \/ UNCHANGED vars
    PROVE  TomInv'
<1>1. /\ UNCHANGED tom_vars /\ LoopInv' /\ Initiator' = Initiator /\ round_num' = round_num
      /\ (pc' = "stopped" /\ pc = "prepare") \/ (pc = "flood" /\ pc' = "process") \/ pc' = pc
      /\ stopped_by' = stopped_by \/ stopped_by' = "max_slots"
  <2>1. CASE FloodIdentical /\ UNCHANGED tom_vars
    BY <2>1, FloodStep DEF TomInv, FloodIdentical
  <2>2. CASE OutOfSlots /\ UNCHANGED tom_vars
    BY <2>2, SlotsStep DEF TomInv, OutOfSlots
  <2>3. CASE UNCHANGED vars
    BY <2>3 DEF TomInv, vars, loop_vars, LoopInv, LoopTypeOK, Initiator
  <2> QED
    BY <2>1, <2>2, <2>3
<1>2. TypeOK'
  BY <1>1 DEF TomInv, TypeOK, LoopInv, tom_vars
<1>3. StartsInv' /\ StoresInv'
  BY <1>1 DEF TomInv, StartsInv, StoresInv, GoodPacket, GoodPiggyback, tom_vars
<1>4. ReportSound'
  BY <1>1 DEF TomInv, ReportSound, RecordedOnce, StopSound, tom_vars
<1> QED
  BY <1>1, <1>2, <1>3, <1>4 DEF TomInv

-----------------------------------------------------------------------------
(***************************************************************************)
(* The inductive invariant: what each node has is the published messages   *)
(* without a hole below last_delivered, what travels are published         *)
(* messages, and what is reported happened.                                *)
(***************************************************************************)
THEOREM Invariance == Spec => []TomInv
<1>1. Init => TomInv
  <2> SUFFICES ASSUME Init
               PROVE  TomInv
    OBVIOUS
  <2>0. NewTomState \in NodeTomState /\ NumMsgs \in Nat /\ 0 \in Term /\ 0 \in Node
    BY TermFacts, NAssumption DEF NewTomState, NodeTomState, MaybeTerm, MaybeMessage, Node
  <2>1. LoopInv
    BY InitLoop DEF Init
  <2>2. NoPacket \in Packet /\ NoPiggyback \in Piggyback
    BY <2>0 DEF NoPacket, Packet, NoPiggyback, Piggyback, MaybeTerm, MaybeMessage
  <2>3. TypeOK
    <3> HIDE DEF NewTomState, NoPacket, NoPiggyback
    <3> QED
      BY <2>0, <2>1, <2>2 DEF Init, TypeOK, LoopInv, MaybeTerm
  <2>4. \A i \in Node : /\ Good(states[i], next_term) /\ Settled(states[i])
                        /\ took_part[i] <= states[i].highest_seen
    <3>1. \A t : ~Stores(NewTomState, t)
      BY DEF Stores, NewTomState
    <3>2. Len(NewTomState.delivered) = NewTomState.last_delivered + 1
      BY DEF NewTomState, None
    <3>3. DOMAIN NewTomState.delivered = {}
      BY DEF NewTomState
    <3>4. \A t \in Term : ~(t <= NewTomState.last_delivered)
      BY TermFacts DEF NewTomState
    <3>5. NewTomState.highest_seen = None
      BY DEF NewTomState
    <3> QED
      BY <2>0, <3>1, <3>2, <3>3, <3>4, <3>5 DEF Init, Good, Settled, None
  <2>5. StoresInv
    BY <2>2, <2>4 DEF Init, StoresInv, GoodPacket, GoodPiggyback, NoPacket, NoPiggyback
  <2>6. StartsInv
    BY TermFacts DEF Init, StartsInv
  <2>7. ReportSound
    BY TermFacts DEF Init, LoopInit, ReportSound, RecordedOnce, StopSound, NewTomState
  <2> QED
    BY <2>1, <2>3, <2>5, <2>6, <2>7 DEF TomInv
<1>2. TomInv /\ [Next]_vars => TomInv'
  BY PrepareStep, ProcessStep, LoopStep DEF Next
<1> QED
  BY <1>1, <1>2, PTL DEF Spec

\* The terms, packets and records the loop computes always have their types.
THEOREM TypeCorrect == Spec => []TypeOK
<1>1. TomInv => TypeOK
  BY DEF TomInv
<1> QED
  BY <1>1, Invariance, PTL

(***************************************************************************)
(* What a node delivered are the messages from term 0 on, each under its   *)
(* own term, and it knows of every hole below what it has heard of.        *)
(***************************************************************************)
THEOREM StoresTheorem == Spec => []StoresAreSound
<1>1. TomInv => DataIntegrity
  <2> SUFFICES ASSUME TomInv
               PROVE  DataIntegrity
    OBVIOUS
  <2>1. ASSUME NEW i \in Node
        PROVE  /\ states[i].last_delivered = Len(states[i].delivered) - 1
               /\ \A k \in DOMAIN states[i].delivered :
                     states[i].delivered[k] = [term |-> k - 1, data |-> Message(k - 1)]
               /\ \A t \in Term : Stores(states[i], t) => states[i].store[t] = Message(t)
    <3>1. Good(states[i], next_term) /\ states[i].last_delivered \in Int
      BY NodesAreGood, StateFacts, TermFacts DEF TomInv, Good
    <3> QED
      BY <3>1 DEF Good
  <2> QED
    BY <2>1 DEF DataIntegrity, TomInv, StoresInv, GoodPacket, GoodPiggyback
<1>2. TomInv => GapsAreSeen
  <2> SUFFICES ASSUME TomInv, NEW i \in Node, NEW t \in Term, ~Stores(states[i], t),
                      took_part[i] >= t \/ \E u \in t .. NumMsgs-1 : Stores(states[i], u)
               PROVE  t \in Gaps(states[i]) /\ NackFor(states[i]) <= t
    BY DEF GapsAreSeen
  <2>1. /\ Good(states[i], next_term) /\ took_part[i] <= states[i].highest_seen
        /\ took_part[i] \in Int /\ t \in Int
        /\ states[i].last_delivered \in Int /\ states[i].highest_seen \in Int
    BY NodesAreGood, StateFacts, TermFacts DEF TomInv, StoresInv, Good, TypeOK
  <2>2. t <= states[i].highest_seen
    <3>1. CASE took_part[i] >= t
      BY <2>1, <3>1
    <3>2. CASE \E u \in t .. NumMsgs-1 : Stores(states[i], u)
      <4>1. PICK u \in t .. NumMsgs-1 : Stores(states[i], u)
        BY <3>2
      <4>2. u <= states[i].highest_seen
        BY <2>1, <4>1 DEF Good, Stores
      <4> QED
        BY <2>1, <4>1, <4>2
    <3> QED
      BY <3>1, <3>2
  <2>3. NextExpected(states[i]) <= t
    BY <2>1 DEF Good, NextExpected
  <2>4. t \in Gaps(states[i])
    BY <2>1, <2>2, <2>3 DEF Gaps, NextExpected
  <2> QED
    BY <2>1, <2>4, NackFacts
<1> QED
  BY <1>1, <1>2, Invariance, PTL DEF StoresAreSound

\* Each message is reported once, with its start, and the reason of a stop is so.
THEOREM ReportTheorem == Spec => []ReportSound
<1>1. TomInv => ReportSound
  BY DEF TomInv
<1> QED
  BY <1>1, Invariance, PTL

\* A pending term leaves only with the packet that answers it: a new NACK does not displace it
\* unless it is answered at once.
THEOREM PendingTheorem == Spec => PendingUntilAnswered
<1> DEFINE Waits == piggyback.term # None /\ piggyback'.term # piggyback.term =>
                       \/ pc = "prepare" /\ payload'.piggyback.term = piggyback.term
                       \/ pc = "process" /\ payload.nack_term = piggyback'.term
<1>1. TomInv /\ [Next]_vars => [Waits]_vars
  <2> SUFFICES ASSUME TomInv, Next, piggyback.term # None, piggyback'.term # piggyback.term
               PROVE  \/ pc = "prepare" /\ payload'.piggyback.term = piggyback.term
                      \/ pc = "process" /\ payload.nack_term = piggyback'.term
    OBVIOUS
  <2>1. CASE PrepareRound
    <3> DEFINE answer == AnswerData(AfterAnnouncing(states[Initiator]))
    <3>1. /\ pc = "prepare" /\ piggyback' = LeftPending(answer)
          /\ answer # None => payload'.piggyback = [term |-> piggyback.term, data |-> answer]
      BY <2>1 DEF PrepareRound
    <3>2. answer # None
      BY <3>1 DEF LeftPending, TomInv, TypeOK, Piggyback
    <3> QED
      BY <3>1, <3>2
  <2>2. CASE ProcessRound
    <3>1. pc = "process" /\ piggyback' = AnswerNack
      BY <2>2 DEF ProcessRound
    <3> QED
      BY <3>1 DEF AnswerNack
  <2>3. CASE UNCHANGED tom_vars \/ UNCHANGED vars
    BY <2>3 DEF tom_vars, vars
  <2> QED
    BY <2>1, <2>2, <2>3 DEF Next
<1> QED
  BY <1>1, Invariance, PTL DEF Spec, PendingUntilAnswered

\* The first n messages in the order in which they are published.
FirstMessages(n) == [k \in 1 .. n |-> Message(k - 1)]

\* Fewer first messages are a prefix of more.
LEMMA FirstMessagesFacts ==
    ASSUME NEW m \in Nat, NEW n \in Nat, m <= n
    PROVE  /\ Len(FirstMessages(m)) = m
           /\ Order!IsPrefix(FirstMessages(m), FirstMessages(n))
<1>1. Len(FirstMessages(m)) = m /\ Len(FirstMessages(n)) = n
  BY DEF FirstMessages
<1>2. SubSeq(FirstMessages(m), 1, m) = SubSeq(FirstMessages(n), 1, m)
  BY DEF FirstMessages
<1> QED
  BY <1>1, <1>2 DEF Order!IsPrefix

\* A published message is appended to the first ones.
LEMMA FirstMessagesAppend ==
    ASSUME NEW n \in Nat
    PROVE  FirstMessages(n + 1) = Append(FirstMessages(n), Message(n))
<1>1. Len(FirstMessages(n)) = n
  BY DEF FirstMessages
<1> QED
  BY <1>1 DEF FirstMessages

\* What the application of a node in state s was given.
Given(s) == [k \in DOMAIN s.delivered |-> s.delivered[k].data]

\* The application was given the first messages, no more than are published.
LEMMA GivenFacts ==
    ASSUME NEW n \in Int, NEW s, Good(s, n), 0 <= n
    PROVE  /\ Given(s) = FirstMessages(s.last_delivered + 1)
           /\ s.last_delivered + 1 \in Nat
           /\ s.last_delivered + 1 <= n
<1>1. /\ s.last_delivered \in Int /\ -1 <= s.last_delivered
      /\ s.last_delivered \in MaybeTerm
      /\ s.delivered \in Seq([term : Term, data : Term])
  BY StateFacts, TermFacts DEF Good
<1>2. DOMAIN s.delivered = 1 .. s.last_delivered + 1
  BY <1>1 DEF Good
<1>3. \A k \in 1 .. s.last_delivered + 1 : s.delivered[k].data = Message(k - 1)
  <2> SUFFICES ASSUME NEW k \in DOMAIN s.delivered
               PROVE  s.delivered[k].data = Message(k - 1)
    BY <1>2
  <2>1. s.delivered[k] = [term |-> k - 1, data |-> Message(k - 1)]
    BY DEF Good
  <2> QED
    BY <2>1
<1>4. s.last_delivered + 1 <= n
  <2>1. CASE s.last_delivered = None
    BY <1>1, <2>1 DEF None
  <2>2. CASE s.last_delivered \in Term
    BY <1>1, <2>2 DEF Good
  <2> QED
    BY <1>1, <2>1, <2>2 DEF MaybeTerm
<1> QED
  BY <1>1, <1>2, <1>3, <1>4 DEF Given, FirstMessages

(***************************************************************************)
(* The pipeline implements the total order.  prepare_round publishes the   *)
(* next message, which its initiator may deliver at once; process_round    *)
(* extends what the participants delivered; every other step is a stutter. *)
(***************************************************************************)
THEOREM TotalOrderImplemented == Spec => ImplementsTotalOrder
<1> DEFINE log == FirstMessages(next_term)
           delivered == [i \in Node |-> Given(states[i])]
<1>1. Init => Order!Init
  <2> SUFFICES ASSUME Init
               PROVE  Order!Init
    OBVIOUS
  <2>1. [k \in 1 .. next_term |-> Message(k - 1)] = <<>>
    BY DEF Init
  <2>2. \A i \in Node : states[i].delivered = <<>>
    BY DEF Init, NewTomState
  <2>3. [i \in Node |-> [k \in DOMAIN states[i].delivered |-> states[i].delivered[k].data]] =
            [i \in Node |-> <<>>]
    BY <2>2
  <2> QED
    BY <2>1, <2>3 DEF Order!Init
<1>2. TomInv /\ TomInv' /\ [Next]_vars =>
          [Order!Next]_<<[k \in 1 .. next_term |-> Message(k - 1)],
                         [i \in Node |-> [k \in DOMAIN states[i].delivered |->
                                             states[i].delivered[k].data]]>>
  <2> SUFFICES ASSUME TomInv, TomInv', [Next]_vars
               PROVE  [(\E i \in Node : /\ Len(log) < Len(FirstMessages(NumMsgs))
                                        /\ log' = Append(log, FirstMessages(NumMsgs)[Len(log) + 1])
                                        /\ Order!IsPrefix(delivered[i], delivered'[i])
                                        /\ Order!IsPrefix(delivered'[i], log')
                                        /\ delivered' = [delivered EXCEPT ![i] = delivered'[i]])
                       \/ (/\ UNCHANGED log
                           /\ DOMAIN delivered' = Node
                           /\ \A i \in Node : /\ Order!IsPrefix(delivered[i], delivered'[i])
                                              /\ Order!IsPrefix(delivered'[i], log'))]_<<log, delivered>>
    BY DEF Order!Next, Order!Publish, Order!Deliver, Order!Extend, FirstMessages, Given
  <2>1. /\ next_term \in Nat /\ next_term <= NumMsgs /\ Initiator \in Node
        /\ next_term' \in Nat /\ NumMsgs \in Nat
        /\ \A i \in Node : Good(states[i], next_term) /\ Good(states'[i], next_term')
    BY NodesAreGood, TermFacts DEF TomInv, StoresInv, TypeOK
  <2>2. ASSUME NEW i \in Node, states[i].last_delivered <= states'[i].last_delivered
        PROVE  /\ Order!IsPrefix(delivered[i], delivered'[i])
               /\ Order!IsPrefix(delivered'[i], log')
    <3>1. /\ Given(states[i]) = FirstMessages(states[i].last_delivered + 1)
          /\ states[i].last_delivered + 1 \in Nat
      BY <2>1, GivenFacts
    <3>2. /\ Given(states'[i]) = FirstMessages(states'[i].last_delivered + 1)
          /\ states'[i].last_delivered + 1 \in Nat
          /\ states'[i].last_delivered + 1 <= next_term'
      BY <2>1, GivenFacts
    <3>3. states[i].last_delivered \in Int /\ states'[i].last_delivered \in Int
      BY <2>1, StateFacts, TermFacts DEF Good
    <3>4. delivered[i] = Given(states[i]) /\ delivered'[i] = Given(states'[i])
      OBVIOUS
    <3>5. states[i].last_delivered + 1 <= states'[i].last_delivered + 1
      BY <2>2, <3>3
    <3> HIDE DEF delivered
    <3>6. /\ Order!IsPrefix(Given(states[i]), Given(states'[i]))
          /\ Order!IsPrefix(Given(states'[i]), FirstMessages(next_term'))
      BY <2>1, <3>1, <3>2, <3>5, FirstMessagesFacts
    <3> QED
      BY <3>4, <3>6
  <2>3. CASE PrepareRound
    <3> DEFINE i == Initiator
    <3>1. /\ states' = [states EXCEPT ![i] = states'[i]]
          /\ states[i].last_delivered <= states'[i].last_delivered
          /\ ~Publishing => states'[i].delivered = states[i].delivered
          /\ next_term' = PublishedNext
          /\ \A j \in Node : j # i => states'[j] = states[j]
      BY <2>3, PreparedFacts, PrepareTypes DEF TomInv
    <3> HIDE DEF i
    <3>2. CASE Publishing
      <4>1. next_term' = next_term + 1 /\ next_term < NumMsgs
        BY <2>1, <3>1, <3>2 DEF PublishedNext, Publishing
      <4>2. /\ Len(log) = next_term /\ Len(FirstMessages(NumMsgs)) = NumMsgs
            /\ FirstMessages(NumMsgs)[next_term + 1] = Message(next_term)
        BY <2>1, <4>1 DEF FirstMessages
      <4>3. log' = Append(log, Message(next_term))
        BY <2>1, <4>1, FirstMessagesAppend
      <4>4. delivered' = [delivered EXCEPT ![i] = delivered'[i]]
        BY <3>1 DEF Given
      <4> QED
        BY <2>1, <2>2, <3>1, <4>1, <4>2, <4>3, <4>4 DEF i
    <3>3. CASE ~Publishing
      <4>1. next_term' = next_term /\ \A j \in Node : states'[j].delivered = states[j].delivered
        BY <3>1, <3>3 DEF PublishedNext
      <4>2. UNCHANGED <<log, delivered>>
        BY <4>1 DEF Given
      <4> QED
        BY <4>2
    <3> QED
      BY <3>2, <3>3
  <2>4. CASE ProcessRound
    <3>1. UNCHANGED log
      BY <2>4 DEF ProcessRound
    <3>2. \A i \in Node : states[i].last_delivered <= states'[i].last_delivered
      BY <2>4, ProcessedFacts DEF TomInv
    <3> QED
      BY <2>2, <3>1, <3>2
  <2>5. CASE UNCHANGED tom_vars \/ UNCHANGED vars
    <3>1. UNCHANGED <<states, next_term>>
      BY <2>5 DEF tom_vars, vars
    <3>2. UNCHANGED <<log, delivered>>
      BY <3>1 DEF Given
    <3> QED
      BY <3>2
  <2> QED
    BY <2>3, <2>4, <2>5 DEF Next
<1> QED
  BY <1>1, <1>2, Invariance, PTL DEF Spec, ImplementsTotalOrder, Order!Spec, Order!vars

=============================================================================
