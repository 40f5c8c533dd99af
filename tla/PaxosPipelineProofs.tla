------------------------- MODULE PaxosPipelineProofs -------------------------
(***************************************************************************)
(* Theorems about PaxosPipeline for every number of nodes and proposals,   *)
(* every topology and every loss schedule.  The invariant PipelineInv says *)
(* that every node's state is well formed for the number of terms proposed *)
(* so far and that the packet and the prepared answer only speak of those  *)
(* terms, with their own data.  From it follow the type invariant, the     *)
(* integrity of the payloads, the single home of a term and the action     *)
(* property that nothing a node has is ever forgotten.                     *)
(***************************************************************************)
EXTENDS PaxosPipeline, FiniteIntegerSets

-----------------------------------------------------------------------------
(***************************************************************************)
(* What the round-robin loop keeps whatever the protocol does: its own     *)
(* variables keep their types, the initiator takes part in every flood,    *)
(* and a stop is for the protocol's reason, for the lack of slots or for   *)
(* the lack of rounds.                                                     *)
(***************************************************************************)

\* The nodes are a finite set of N integers.
LEMMA NodesAreFinite ==
    IsFiniteSet(Node) /\ Cardinality(Node) = N /\ Node # {} /\ Node \in SUBSET Int
<1>1. IsFiniteSet(Node) /\ Cardinality(Node) = N
  BY NAssumption, FS_Interval DEF Node
<1>2. 0 \in Node /\ Node \in SUBSET Int
  BY NAssumption DEF Node
<1> QED
  BY <1>1, <1>2

\* The round-robin turn always falls on a node.
LEMMA InitiatorIsNode ==
    ASSUME NEW r \in Nat
    PROVE  InitiatorOf(r) \in Node
BY NAssumption DEF InitiatorOf, Node

\* The loop starts in its types, at the head of round 0.
LEMMA InitLoop ==
    ASSUME LoopInit
    PROVE  LoopInv
BY DEF LoopInit, LoopInv, LoopTypeOK, StopReasons

\* A flood always includes the node it starts from.
LEMMA FloodStep ==
    ASSUME LoopInv, FloodIdentical
    PROVE  LoopInv' /\ heard' \in SUBSET Node /\ Initiator \in heard' /\ Initiator' = Initiator
BY DEF LoopInv, LoopTypeOK, FloodIdentical, FloodOutcomes, ConnectedAround, Initiator

\* Running out of slots ends the run at the head of a round, for that reason.
LEMMA SlotsStep ==
    ASSUME LoopInv, OutOfSlots
    PROVE  LoopInv' /\ Initiator' = Initiator
BY DEF LoopInv, LoopTypeOK, OutOfSlots, StopReasons, Initiator

\* The end of a round stops the loop for the reason given, or goes on, or is one round too many.
LEMMA EndRoundStep ==
    ASSUME LoopInv, NEW reason \in StopReasons, EndRound(reason)
    PROVE  /\ LoopInv'
           /\ pc' \in {"prepare", "stopped"} /\ round_num' \in {round_num, round_num + 1}
           /\ pc' = "prepare" => round_num' = round_num + 1
           /\ stopped_by' \in {reason, "max_rounds"}
<1>1. CASE reason # "none"
  BY <1>1 DEF EndRound, LoopInv, LoopTypeOK
<1>2. CASE reason = "none"
  <2>1. /\ heard' = {} /\ round_num' = round_num + 1
        /\ pc' = IF round_num' > MaxRounds THEN "stopped" ELSE "prepare"
        /\ stopped_by' = IF round_num' > MaxRounds THEN "max_rounds" ELSE "none"
    BY <1>2 DEF EndRound
  <2>2. /\ pc' \in {"prepare", "stopped"} /\ stopped_by' \in {"none", "max_rounds"}
        /\ pc' # "stopped" => stopped_by' = "none"
    BY <2>1
  <2>3. round_num \in Nat
    BY DEF LoopInv, LoopTypeOK
  <2> QED
    BY <1>2, <2>1, <2>2, <2>3 DEF LoopInv, LoopTypeOK, StopReasons
<1> QED
  BY <1>1, <1>2

-----------------------------------------------------------------------------
(***************************************************************************)
(* What the operators of PaxosNode preserve: the shape of one node's state *)
(* and the fact that a node never forgets a term.                          *)
(***************************************************************************)

(***************************************************************************)
(* The shape of a node's state when tc terms have been proposed: a term is *)
(* held in one place, with its own data, below tc, and the log does not    *)
(* run ahead of last_accepted.                                             *)
(***************************************************************************)
WellFormed(s, tc) ==
    /\ s \in NodePaxosState
    /\ s.last_accepted < tc
    /\ \A t \in Term :
          /\ s.log[t] \in {None, Tx(t)}
          /\ s.pending[t] \in {None, Tx(t)}
          /\ ~(Committed(s, t) /\ Pending(s, t))
          /\ s.bitmap[t] # {} => Pending(s, t)
          /\ Committed(s, t) => t <= s.last_accepted
          /\ Held(s, t) => t < tc

\* r keeps everything s has: the accepted prefix, the log, and the terms held.
Grows(s, r) ==
    /\ r.last_accepted >= s.last_accepted
    /\ \A t \in Term :
          /\ Committed(s, t) => r.log[t] = s.log[t]
          /\ Held(s, t) => Held(r, t)

\* Terms are numbers, and the absent value is no term.
LEMMA TermFacts ==
    /\ Term \subseteq Nat
    /\ None \notin Term
    /\ \A t \in Term : Tx(t) \in Term /\ Tx(t) # None
BY NumProposalsAssumption DEF Term, None, Tx

\* Every set of terms is finite, so that Max and Min of it are what their names say.
LEMMA TermSets ==
    ASSUME NEW S \in SUBSET Term
    PROVE  IsFiniteSet(S) /\ S \in SUBSET Int
<1>1. IsFiniteSet(0 .. NumProposals-1)
  BY NumProposalsAssumption, FS_Interval
<1>2. IsFiniteSet(S)
  BY <1>1, FS_Subset DEF Term
<1>3. S \in SUBSET Int
  BY NumProposalsAssumption DEF Term
<1> QED
  BY <1>2, <1>3

\* The fields of a NodePaxosState, and last_accepted as the integer it is compared as.
LEMMA NodeStateFacts ==
    ASSUME NEW s \in NodePaxosState
    PROVE  /\ s.last_accepted \in Int /\ s.last_accepted \in MaybeData
           /\ s.highest_seen_term \in MaybeData
           /\ s.log \in [Term -> MaybeData]
           /\ s.pending \in [Term -> MaybeData]
           /\ s.bitmap \in [Term -> SUBSET Node]
<1>1. MaybeData \subseteq Int
  BY TermFacts DEF MaybeData, None
<1>2. s.last_accepted \in MaybeData
  BY DEF NodePaxosState
<1> QED
  BY <1>1, <1>2 DEF NodePaxosState

\* NodePaxosState::new is well formed before the first proposal.
LEMMA NewNodeWellFormed ==
    ASSUME NEW tc \in Nat
    PROVE  WellFormed(NewPaxosState, tc)
BY NumProposalsAssumption DEF WellFormed, NewPaxosState, NodePaxosState, MaybeData, Committed, Pending,
   Held, None, Term, Tx

(***************************************************************************)
(* commit_up_to leaves last_accepted at the greater of its old value and   *)
(* the term it was given, although it skips terms already in the log.      *)
(***************************************************************************)
LEMMA CommitRaises ==
    ASSUME NEW tc \in Nat, NEW s, WellFormed(s, tc), NEW T \in Term
    PROVE  CommitUpTo(s, T).last_accepted = IF s.last_accepted >= T THEN s.last_accepted ELSE T
<1> DEFINE S == {s.last_accepted} \cup NewlyCommitted(s, T)
           m == IF s.last_accepted >= T THEN s.last_accepted ELSE T
<1>0. /\ s \in NodePaxosState
      /\ s.last_accepted \in Int
      /\ T \in Int
      /\ \A t \in Term : t \in Int
  BY TermFacts, NodeStateFacts DEF WellFormed
<1>1. NewlyCommitted(s, T) \in SUBSET Term
  BY DEF NewlyCommitted
<1>2. S \in SUBSET Int /\ IsFiniteSet(S) /\ S # {}
  <2>1. IsFiniteSet(NewlyCommitted(s, T)) /\ NewlyCommitted(s, T) \in SUBSET Int
    BY <1>1, TermSets
  <2>2. S = NewlyCommitted(s, T) \cup {s.last_accepted}
    OBVIOUS
  <2>3. IsFiniteSet(S)
    BY <2>1, <2>2, FS_AddElement
  <2> QED
    BY <1>0, <2>1, <2>3
<1>3. Max(S) \in S /\ \A y \in S : Max(S) >= y
  BY <1>2, MaxOfFinite
<1>4. m \in S
  <2>1. CASE s.last_accepted >= T
    BY <2>1
  <2>2. CASE ~(s.last_accepted >= T)
    <3>1. ~Committed(s, T)
      BY <2>2 DEF WellFormed
    <3> QED
      BY <2>2, <3>1, <1>0 DEF NewlyCommitted
  <2> QED
    BY <2>1, <2>2
<1>5. ASSUME NEW y \in S
      PROVE  m >= y
  <2>1. CASE y = s.last_accepted
    BY <1>0, <2>1
  <2>2. CASE y \in NewlyCommitted(s, T)
    <3>1. y \in Int /\ y <= T
      BY <1>0, <2>2 DEF NewlyCommitted
    <3> QED
      BY <1>0, <3>1
  <2> QED
    BY <2>1, <2>2
<1>6. Max(S) = m
  <2>1. Max(S) >= m /\ m >= Max(S)
    BY <1>3, <1>4, <1>5
  <2>2. Max(S) \in Int /\ m \in Int
    BY <1>2, <1>3, <1>4
  <2> QED
    BY <2>1, <2>2
<1> QED
  BY <1>6 DEF CommitUpTo, WellFormed, NodePaxosState

\* commit_up_to moves entries to the log and forgets none, even where it passes over a hole.
LEMMA CommitKeepsWellFormed ==
    ASSUME NEW tc \in Nat, NEW s, WellFormed(s, tc), NEW T \in Term, T < tc
    PROVE  /\ WellFormed(CommitUpTo(s, T), tc)
           /\ Grows(s, CommitUpTo(s, T))
<1> DEFINE r == CommitUpTo(s, T)
<1>0. /\ s \in NodePaxosState
      /\ s.last_accepted \in Int
      /\ T \in Int
  BY TermFacts, NodeStateFacts DEF WellFormed
<1>1. r.last_accepted = IF s.last_accepted >= T THEN s.last_accepted ELSE T
  BY CommitRaises
<1>2a. r.log = [t \in Term |-> IF t \in NewlyCommitted(s, T) THEN s.pending[t] ELSE s.log[t]]
  BY <1>0 DEF CommitUpTo, NodePaxosState
<1>2b. r.pending = [t \in Term |-> IF t \in NewlyCommitted(s, T) THEN None ELSE s.pending[t]]
  BY <1>0 DEF CommitUpTo, NodePaxosState
<1>2c. r.bitmap = [t \in Term |-> IF t \in NewlyCommitted(s, T) THEN {} ELSE s.bitmap[t]]
  BY <1>0 DEF CommitUpTo, NodePaxosState
<1>3. r \in NodePaxosState
  <2> DEFINE a == Max({s.last_accepted} \cup NewlyCommitted(s, T))
             l == [t \in Term |-> IF t \in NewlyCommitted(s, T) THEN s.pending[t] ELSE s.log[t]]
             p == [t \in Term |-> IF t \in NewlyCommitted(s, T) THEN None ELSE s.pending[t]]
             b == [t \in Term |-> IF t \in NewlyCommitted(s, T) THEN {} ELSE s.bitmap[t]]
  <2>1. r = [s EXCEPT !.last_accepted = a, !.log = l, !.pending = p, !.bitmap = b]
    BY DEF CommitUpTo
  <2>2. a \in MaybeData
    <3>1. a = r.last_accepted
      BY <1>0 DEF CommitUpTo, NodePaxosState
    <3> QED
      BY <1>0, <1>1, <3>1, NodeStateFacts DEF MaybeData
  <2>3. l \in [Term -> MaybeData] /\ p \in [Term -> MaybeData]
    BY <1>0, NodeStateFacts DEF MaybeData
  <2>4. b \in [Term -> SUBSET Node]
    BY <1>0, NodeStateFacts
  <2> HIDE DEF a, l, p, b
  <2> QED
    BY <1>0, <2>1, <2>2, <2>3, <2>4 DEF NodePaxosState
<1>4. r.last_accepted < tc
  BY <1>0, <1>1 DEF WellFormed
<1> HIDE DEF r
<1>5. ASSUME NEW t \in Term
      PROVE  /\ r.log[t] \in {None, Tx(t)}
             /\ r.pending[t] \in {None, Tx(t)}
             /\ ~(Committed(r, t) /\ Pending(r, t))
             /\ r.bitmap[t] # {} => Pending(r, t)
             /\ Committed(r, t) => t <= r.last_accepted
             /\ Held(r, t) => t < tc
             /\ Committed(s, t) => r.log[t] = s.log[t]
             /\ Held(s, t) => Held(r, t)
  <2>0. t \in Int
    BY TermFacts
  <2>1. CASE t \in NewlyCommitted(s, T)
    <3>1. r.log[t] = s.pending[t] /\ r.pending[t] = None /\ r.bitmap[t] = {}
      BY <1>2a, <1>2b, <1>2c, <2>1
    <3>2. ~Committed(s, t) /\ t <= T
      BY <2>1 DEF NewlyCommitted
    <3>3. t <= r.last_accepted
      BY <1>0, <1>1, <2>0, <3>2
    <3> QED
      BY <3>1, <3>2, <3>3 DEF WellFormed, Committed, Pending, Held
  <2>2. CASE t \notin NewlyCommitted(s, T)
    <3>1. r.log[t] = s.log[t] /\ r.pending[t] = s.pending[t] /\ r.bitmap[t] = s.bitmap[t]
      BY <1>2a, <1>2b, <1>2c, <2>2
    <3>2. Committed(s, t) => t <= r.last_accepted
      BY <1>0, <1>1, <2>0 DEF WellFormed
    <3> QED
      BY <3>1, <3>2 DEF WellFormed, Committed, Pending, Held
  <2> QED
    BY <2>1, <2>2
<1>6. WellFormed(r, tc)
  BY <1>3, <1>4, <1>5 DEF WellFormed
<1>7. Grows(s, r)
  <2>1. r.last_accepted >= s.last_accepted
    BY <1>0, <1>1
  <2>2. \A t \in Term : (Committed(s, t) => r.log[t] = s.log[t]) /\ (Held(s, t) => Held(r, t))
    BY <1>5
  <2> QED
    BY <2>1, <2>2 DEF Grows
<1> QED
  BY <1>6, <1>7 DEF r

\* pending.push of a term not held yet, as prepare_round, process_round and recovery do it.
LEMMA PushKeepsWellFormed ==
    ASSUME NEW tc \in Nat, NEW s, WellFormed(s, tc), NEW t \in Term, t < tc,
           ~Held(s, t), NEW bits \in SUBSET Node
    PROVE  /\ WellFormed(PushPending(s, t, Tx(t), bits), tc)
           /\ Grows(s, PushPending(s, t, Tx(t), bits))
           /\ Held(PushPending(s, t, Tx(t), bits), t)
<1> DEFINE p == [s.pending EXCEPT ![t] = Tx(t)]
           b == [s.bitmap EXCEPT ![t] = bits]
           r == [s EXCEPT !.pending = p, !.bitmap = b]
<1>0. s \in NodePaxosState /\ s.last_accepted \in Int
  BY NodeStateFacts DEF WellFormed
<1>1. p \in [Term -> MaybeData] /\ b \in [Term -> SUBSET Node]
  BY <1>0, NodeStateFacts, TermFacts DEF MaybeData
<1>2. PushPending(s, t, Tx(t), bits) = r
  BY DEF PushPending
<1>3. /\ r \in NodePaxosState /\ r.log = s.log /\ r.last_accepted = s.last_accepted
      /\ r.pending = p /\ r.bitmap = b
  <2> HIDE DEF p, b
  <2> QED
    BY <1>0, <1>1 DEF NodePaxosState
<1> HIDE DEF r
<1>4. ASSUME NEW u \in Term
      PROVE  /\ r.log[u] = s.log[u]
             /\ r.pending[u] = IF u = t THEN Tx(t) ELSE s.pending[u]
             /\ r.bitmap[u] = IF u = t THEN bits ELSE s.bitmap[u]
  BY <1>0, <1>3, NodeStateFacts
<1>5. WellFormed(r, tc)
  BY <1>3, <1>4, TermFacts DEF WellFormed, Committed, Pending, Held
<1>6. Grows(s, r)
  BY <1>0, <1>3, <1>4, TermFacts DEF Grows, Committed, Pending, Held
<1>7. Held(r, t)
  BY <1>4, TermFacts DEF Held, Pending
<1> QED
  BY <1>2, <1>5, <1>6, <1>7

\* merge_votes_up_to only adds votes to pending proposals.
LEMMA MergeKeepsWellFormed ==
    ASSUME NEW tc \in Nat, NEW s, WellFormed(s, tc), NEW T, NEW bits \in SUBSET Node
    PROVE  /\ WellFormed(MergeVotesUpTo(s, T, bits), tc)
           /\ Grows(s, MergeVotesUpTo(s, T, bits))
<1> DEFINE b == [t \in Term |-> IF t <= T /\ Pending(s, t) THEN s.bitmap[t] \cup bits ELSE s.bitmap[t]]
           r == MergeVotesUpTo(s, T, bits)
<1>0. s \in NodePaxosState /\ s.last_accepted \in Int
  BY NodeStateFacts DEF WellFormed
<1>1. b \in [Term -> SUBSET Node]
  BY <1>0, NodeStateFacts
<1>2. r = [s EXCEPT !.bitmap = b]
  BY DEF MergeVotesUpTo
<1>3. /\ r \in NodePaxosState /\ r.log = s.log /\ r.last_accepted = s.last_accepted
      /\ r.pending = s.pending /\ r.bitmap = b
  <2> HIDE DEF b, r
  <2> QED
    BY <1>0, <1>1, <1>2 DEF NodePaxosState
<1> HIDE DEF r
<1>4. \A t \in Term : r.bitmap[t] # {} => s.bitmap[t] # {} \/ Pending(s, t)
  BY <1>3
<1> HIDE DEF b
<1>5. WellFormed(r, tc)
  BY <1>3, <1>4 DEF WellFormed, Committed, Pending, Held
<1>6. Grows(s, r)
  BY <1>0, <1>3 DEF Grows, Committed, Pending, Held
<1> QED
  BY <1>5, <1>6 DEF r

\* The updates one handler makes in a row grow the state when each of them does.
LEMMA GrowsTransitive ==
    ASSUME NEW s, NEW r, NEW q, Grows(s, r), Grows(r, q),
           s.last_accepted \in Int, r.last_accepted \in Int, q.last_accepted \in Int
    PROVE  Grows(s, q)
BY DEF Grows, Committed, Held

\* A state well formed for tc proposals is well formed when there are more.
LEMMA WellFormedLater ==
    ASSUME NEW tc \in Nat, NEW td \in Nat, tc <= td, NEW s, WellFormed(s, tc)
    PROVE  WellFormed(s, td)
<1>1. s.last_accepted \in Int /\ \A t \in Term : t \in Int
  BY NodeStateFacts, TermFacts DEF WellFormed
<1> QED
  BY <1>1 DEF WellFormed

-----------------------------------------------------------------------------
(***************************************************************************)
(* The votes a handler may add: r comes of s by steps of node i which add  *)
(* its own bit anywhere, the bits of a packet up to term upTo, make only   *)
(* terms of new pending and never lower the highest term seen.             *)
(***************************************************************************)
Casts(s, r, i, upTo, bits, new) ==
    /\ \A t \in Term :
          /\ r.bitmap[t] \subseteq s.bitmap[t] \cup {i} \cup (IF t <= upTo THEN bits ELSE {})
          /\ Pending(r, t) => Pending(s, t) \/ t \in new
    /\ UnwrapOr0(r.highest_seen_term) >= UnwrapOr0(s.highest_seen_term)

\* The number a missing term counts as.
LEMMA UnwrappedIsNat ==
    ASSUME NEW x \in MaybeData
    PROVE  UnwrapOr0(x) \in Nat
BY TermFacts DEF UnwrapOr0, MaybeData

\* Casts of the steps of one handler add up.
LEMMA CastsTransitive ==
    ASSUME NEW s \in NodePaxosState, NEW r \in NodePaxosState, NEW q \in NodePaxosState,
           NEW i, NEW upTo, NEW bits, NEW new,
           Casts(s, r, i, upTo, bits, new), Casts(r, q, i, upTo, bits, new)
    PROVE  Casts(s, q, i, upTo, bits, new)
<1>1. /\ UnwrapOr0(s.highest_seen_term) \in Nat /\ UnwrapOr0(r.highest_seen_term) \in Nat
      /\ UnwrapOr0(q.highest_seen_term) \in Nat
  BY NodeStateFacts, UnwrappedIsNat
<1>2. UnwrapOr0(q.highest_seen_term) >= UnwrapOr0(s.highest_seen_term)
  BY <1>1 DEF Casts
<1>3. ASSUME NEW t \in Term
      PROVE  /\ q.bitmap[t] \subseteq s.bitmap[t] \cup {i} \cup (IF t <= upTo THEN bits ELSE {})
             /\ Pending(q, t) => Pending(s, t) \/ t \in new
  BY DEF Casts
<1> QED
  BY <1>2, <1>3 DEF Casts

\* A step that changes nothing casts nothing.
LEMMA CastsNothing ==
    ASSUME NEW s \in NodePaxosState, NEW i, NEW upTo, NEW bits, NEW new
    PROVE  Casts(s, s, i, upTo, bits, new)
BY NodeStateFacts, UnwrappedIsNat DEF Casts

\* commit_up_to only clears votes.
LEMMA CommitCasts ==
    ASSUME NEW s \in NodePaxosState, NEW T \in Term, NEW i, NEW upTo, NEW bits, NEW new
    PROVE  Casts(s, CommitUpTo(s, T), i, upTo, bits, new)
<1> DEFINE r == CommitUpTo(s, T)
<1>1. r.highest_seen_term = s.highest_seen_term
  BY DEF CommitUpTo, NodePaxosState
<1>2. r.pending = [t \in Term |-> IF t \in NewlyCommitted(s, T) THEN None ELSE s.pending[t]]
  BY DEF CommitUpTo, NodePaxosState
<1>3. r.bitmap = [t \in Term |-> IF t \in NewlyCommitted(s, T) THEN {} ELSE s.bitmap[t]]
  BY DEF CommitUpTo, NodePaxosState
<1>4. UnwrapOr0(s.highest_seen_term) \in Nat
  BY NodeStateFacts, UnwrappedIsNat
<1> HIDE DEF r
<1>5. ASSUME NEW t \in Term
      PROVE  r.bitmap[t] \subseteq s.bitmap[t] /\ (Pending(r, t) => Pending(s, t))
  BY <1>2, <1>3 DEF Pending
<1>6. Casts(s, r, i, upTo, bits, new)
  BY <1>1, <1>4, <1>5 DEF Casts
<1> QED
  BY <1>6 DEF r

\* pending.push makes one term pending, with the votes given.
LEMMA PushCasts ==
    ASSUME NEW s \in NodePaxosState, NEW t \in Term, NEW bits, NEW i, NEW upTo, NEW new,
           NEW cast, t \in new, cast \subseteq {i} \cup (IF t <= upTo THEN bits ELSE {})
    PROVE  /\ Casts(s, PushPending(s, t, Tx(t), cast), i, upTo, bits, new)
           /\ PushPending(s, t, Tx(t), cast).last_accepted = s.last_accepted
           /\ PushPending(s, t, Tx(t), cast).highest_seen_term = s.highest_seen_term
<1> DEFINE r == PushPending(s, t, Tx(t), cast)
<1>1. r.highest_seen_term = s.highest_seen_term /\ r.last_accepted = s.last_accepted
  BY DEF PushPending, NodePaxosState
<1>2. r.pending = [s.pending EXCEPT ![t] = Tx(t)]
  BY DEF PushPending, NodePaxosState
<1>3. r.bitmap = [s.bitmap EXCEPT ![t] = cast]
  BY DEF PushPending, NodePaxosState
<1>4. UnwrapOr0(s.highest_seen_term) \in Nat /\ s.pending \in [Term -> MaybeData]
      /\ s.bitmap \in [Term -> SUBSET Node]
  BY NodeStateFacts, UnwrappedIsNat
<1> HIDE DEF r
<1>5. ASSUME NEW u \in Term
      PROVE  /\ r.bitmap[u] \subseteq s.bitmap[u] \cup {i} \cup (IF u <= upTo THEN bits ELSE {})
             /\ Pending(r, u) => Pending(s, u) \/ u \in new
  BY <1>2, <1>3, <1>4 DEF Pending
<1>6. Casts(s, r, i, upTo, bits, new)
  BY <1>1, <1>4, <1>5 DEF Casts
<1> QED
  BY <1>1, <1>6 DEF r

\* merge_votes_up_to adds the votes given to pending terms up to the one given.
LEMMA MergeCasts ==
    ASSUME NEW s \in NodePaxosState, NEW i, NEW upTo, NEW bits, NEW new
    PROVE  /\ Casts(s, MergeVotesUpTo(s, upTo, bits \cup {i}), i, upTo, bits, new)
           /\ MergeVotesUpTo(s, upTo, bits \cup {i}).last_accepted = s.last_accepted
           /\ MergeVotesUpTo(s, upTo, bits \cup {i}).highest_seen_term = s.highest_seen_term
<1> DEFINE r == MergeVotesUpTo(s, upTo, bits \cup {i})
<1>1. r.highest_seen_term = s.highest_seen_term /\ r.last_accepted = s.last_accepted
      /\ r.pending = s.pending
  BY DEF MergeVotesUpTo, NodePaxosState
<1>2. r.bitmap = [t \in Term |-> IF t <= upTo /\ Pending(s, t) THEN s.bitmap[t] \cup (bits \cup {i})
                                 ELSE s.bitmap[t]]
  BY DEF MergeVotesUpTo, NodePaxosState
<1>3. UnwrapOr0(s.highest_seen_term) \in Nat
  BY NodeStateFacts, UnwrappedIsNat
<1> HIDE DEF r
<1>4. ASSUME NEW u \in Term
      PROVE  /\ r.bitmap[u] \subseteq s.bitmap[u] \cup {i} \cup (IF u <= upTo THEN bits ELSE {})
             /\ Pending(r, u) => Pending(s, u)
  BY <1>1, <1>2 DEF Pending
<1>5. Casts(s, r, i, upTo, bits, new)
  BY <1>1, <1>3, <1>4 DEF Casts
<1> QED
  BY <1>1, <1>5 DEF r

-----------------------------------------------------------------------------
(***************************************************************************)
(* The invariant of the pipeline, and its actions.                         *)
(***************************************************************************)
\* An answer is none, or of one of the tc terms proposed so far, with its data.
GoodPiggyback(p, tc) ==
    p = NoPiggyback \/ (p.term \in Term /\ p.term < tc /\ p.data = Tx(p.term))

\* A packet speaks of the tc terms proposed so far, and carries the data of its own term or none.
GoodPacket(pkt, tc) ==
    /\ pkt.current_term < tc
    /\ pkt.last_accepted_term < tc
    /\ pkt.proposal_data \in {None, Tx(pkt.current_term)}

\* The invariant behind types, data and growth.
PipelineInv ==
    /\ TypeOK
    /\ \A i \in Node : WellFormed(states[i], term_counter)
    /\ GoodPiggyback(piggyback, term_counter)
    /\ GoodPiggyback(payload.piggyback, term_counter)
    /\ pc \in {"flood", "process"} => GoodPacket(payload, term_counter)

-----------------------------------------------------------------------------
\* A packet's fields have the types of Packet.
LEMMA PacketFacts ==
    ASSUME NEW pkt \in Packet
    PROVE  /\ pkt.current_term \in Term
           /\ pkt.last_accepted_term \in MaybeData
           /\ pkt.flags_bitmap \in SUBSET Node
           /\ pkt.nack_term \in Term
           /\ pkt.proposal_data \in MaybeData
           /\ pkt.piggyback \in [term : MaybeData, data : MaybeData]
BY DEF Packet

\* The part of process_round before the NACK is served: nothing is lost, nothing is out of place.
LEMMA OverhearKeepsWellFormed ==
    ASSUME NEW tc \in Nat, NEW i \in Node, NEW s, WellFormed(s, tc),
           NEW pkt \in Packet, GoodPacket(pkt, tc)
    PROVE  /\ WellFormed(Overhear(i, s, pkt), tc)
           /\ Grows(s, Overhear(i, s, pkt))
<1> DEFINE a == AdoptPrefix(s, pkt)
           b == SeeTerm(a, pkt)
           c == StoreProposal(b, pkt)
           bits == pkt.flags_bitmap \cup {i}
<1>0. \A r : WellFormed(r, tc) => r \in NodePaxosState /\ r.last_accepted \in Int
  BY NodeStateFacts DEF WellFormed
<1>1. WellFormed(a, tc) /\ Grows(s, a)
  <2>1. CASE pkt.last_accepted_term = None
    BY <2>1, <1>0 DEF AdoptPrefix, Grows
  <2>2. CASE pkt.last_accepted_term # None
    <3>1. pkt.last_accepted_term \in Term /\ pkt.last_accepted_term < tc
      BY <2>2, PacketFacts DEF MaybeData, GoodPacket
    <3> QED
      BY <2>2, <3>1, CommitKeepsWellFormed DEF AdoptPrefix
  <2> QED
    BY <2>1, <2>2
<1>2. WellFormed(b, tc) /\ Grows(a, b)
  <2> HIDE DEF a
  <2>1. CASE b = a
    BY <1>0, <1>1, <2>1 DEF Grows
  <2>2. CASE b # a
    <3>1. b = [a EXCEPT !.highest_seen_term = pkt.current_term]
      BY <2>2 DEF SeeTerm
    <3>2. a \in NodePaxosState /\ pkt.current_term \in MaybeData
      BY <1>0, <1>1, PacketFacts DEF MaybeData
    <3>3. /\ b \in NodePaxosState /\ b.log = a.log /\ b.pending = a.pending
          /\ b.bitmap = a.bitmap /\ b.last_accepted = a.last_accepted
      BY <3>1, <3>2 DEF NodePaxosState
    <3> HIDE DEF b
    <3> QED
      BY <1>0, <1>1, <3>3 DEF WellFormed, Grows, Committed, Pending, Held
  <2> QED
    BY <2>1, <2>2
<1>3. WellFormed(c, tc) /\ Grows(b, c)
  <2> HIDE DEF a, b
  <2>1. CASE pkt.proposal_data # None /\ ~Held(b, pkt.current_term)
    <3>1. pkt.proposal_data = Tx(pkt.current_term)
      BY <2>1 DEF GoodPacket
    <3>2. c = PushPending(b, pkt.current_term, Tx(pkt.current_term), pkt.flags_bitmap)
      BY <2>1, <3>1 DEF StoreProposal
    <3> HIDE DEF c
    <3> QED
      BY <1>2, <2>1, <3>2, PacketFacts, PushKeepsWellFormed DEF GoodPacket
  <2>2. CASE ~(pkt.proposal_data # None /\ ~Held(b, pkt.current_term))
    <3>1. c = b
      BY <2>2 DEF StoreProposal
    <3> HIDE DEF c
    <3> QED
      BY <1>0, <1>2, <3>1 DEF Grows
  <2> QED
    BY <2>1, <2>2
<1>4. Overhear(i, s, pkt) = MergeVotesUpTo(c, pkt.current_term, bits)
  BY DEF Overhear
<1> HIDE DEF a, b, c
<1>5. bits \in SUBSET Node
  BY PacketFacts
<1> HIDE DEF bits
<1>6. WellFormed(Overhear(i, s, pkt), tc) /\ Grows(c, Overhear(i, s, pkt))
  BY <1>3, <1>4, <1>5, MergeKeepsWellFormed
<1>7. Grows(s, b)
  BY <1>0, <1>1, <1>2, GrowsTransitive
<1>8. Grows(s, c)
  BY <1>0, <1>2, <1>3, <1>7, GrowsTransitive
<1> QED
  BY <1>0, <1>3, <1>6, <1>8, GrowsTransitive

\* Storing the piggybacked proposal, guarded by "neither in the log nor pending".
LEMMA RecoverKeepsWellFormed ==
    ASSUME NEW tc \in Nat, NEW i \in Node, NEW s, WellFormed(s, tc),
           NEW pkt, GoodPiggyback(pkt.piggyback, tc)
    PROVE  /\ WellFormed(Recover(i, s, pkt), tc)
           /\ Grows(s, Recover(i, s, pkt))
<1> DEFINE p == pkt.piggyback
<1>1. CASE p.term # None /\ ~Held(s, p.term)
  <2>1. p.term \in Term /\ p.term < tc /\ p.data = Tx(p.term)
    BY <1>1 DEF GoodPiggyback, NoPiggyback
  <2>2. Recover(i, s, pkt) = PushPending(s, p.term, Tx(p.term), {i})
    BY <1>1, <2>1 DEF Recover
  <2> HIDE DEF p
  <2> QED
    BY <1>1, <2>1, <2>2, PushKeepsWellFormed
<1>2. CASE ~(p.term # None /\ ~Held(s, p.term))
  <2>1. Recover(i, s, pkt) = s
    BY <1>2 DEF Recover
  <2>2. s.last_accepted \in Int
    BY NodeStateFacts DEF WellFormed
  <2> QED
    BY <2>1, <2>2 DEF Grows
<1> QED
  BY <1>1, <1>2

\* The answer some participant prepares for a NACK is the proposal asked for.
LEMMA AnswerIsGood ==
    ASSUME PipelineInv, pc = "process"
    PROVE  /\ AnswerNack(payload) \in [term : MaybeData, data : MaybeData]
           /\ GoodPiggyback(AnswerNack(payload), term_counter)
<1> DEFINE n == payload.nack_term
           O(i) == Overhear(i, states[i], payload)
           holders == {i \in heard : Held(O(i), n)}
<1>0. /\ term_counter \in Nat /\ heard \in SUBSET Node /\ n \in Term
      /\ \A i \in Node : WellFormed(states[i], term_counter)
      /\ payload \in Packet /\ GoodPacket(payload, term_counter)
  BY PacketFacts DEF PipelineInv, TypeOK, LoopTypeOK
<1>1. CASE n > 0 /\ holders # {}
  <2> DEFINE k == Max(holders)
  <2>1. holders \in SUBSET (0 .. N-1)
    BY <1>0 DEF Node
  <2>2. IsFiniteSet(holders) /\ holders \in SUBSET Int
    <3>1. IsFiniteSet(0 .. N-1)
      BY NAssumption, FS_Interval
    <3>2. IsFiniteSet(holders)
      BY <2>1, <3>1, FS_Subset
    <3>3. holders \in SUBSET Int
      BY <2>1, NAssumption
    <3> QED
      BY <3>2, <3>3
  <2>3. k \in holders
    <3> HIDE DEF holders
    <3> QED
      BY <1>1, <2>2, MaxOfFinite
  <2>4. k \in Node /\ Held(O(k), n)
    BY <1>0, <2>3
  <2>5. WellFormed(O(k), term_counter)
    BY <1>0, <2>4, OverhearKeepsWellFormed
  <2>6. AnswerNack(payload) = [term |-> n, data |-> DataOf(O(k), n)]
    BY <1>1 DEF AnswerNack
  <2>7. DataOf(O(k), n) = Tx(n)
    <3> HIDE DEF O, k
    <3> QED
      BY <1>0, <2>4, <2>5 DEF DataOf, WellFormed, Held, Committed, Pending
  <2>8. n < term_counter
    <3> HIDE DEF O, k
    <3> QED
      BY <1>0, <2>4, <2>5 DEF WellFormed
  <2> DEFINE a == AnswerNack(payload)
  <2>9. a = [term |-> n, data |-> Tx(n)]
    BY <2>6, <2>7
  <2>10. n \in MaybeData /\ Tx(n) \in MaybeData
    BY <1>0, TermFacts DEF MaybeData
  <2> HIDE DEF O, k, a, n, holders
  <2>11. a \in [term : MaybeData, data : MaybeData] /\ a.term = n /\ a.data = Tx(n)
    BY <2>9, <2>10
  <2>12. GoodPiggyback(a, term_counter)
    BY <1>0, <2>8, <2>11 DEF GoodPiggyback
  <2> QED
    BY <2>11, <2>12 DEF a
<1>2. CASE ~(n > 0 /\ holders # {})
  <2>1. AnswerNack(payload) = NoPiggyback
    BY <1>2 DEF AnswerNack
  <2> QED
    BY <2>1 DEF GoodPiggyback, NoPiggyback, MaybeData
<1> QED
  BY <1>1, <1>2

-----------------------------------------------------------------------------
\* Reporting terms keeps the types: a start is a round or the unwrap_or(0) of its absence.
LEMMA RecordTypes ==
    ASSUME TypeOK, NEW newly \in SUBSET Term, NEW starts \in [Term -> Nat \cup {None}],
           NEW now \in Nat, RecordCommitted(newly, starts, now)
    PROVE  /\ globally_committed' \in SUBSET Term
           /\ records' \in SUBSET [term : Term, start : Nat, end : Nat]
<1>1. globally_committed' \in SUBSET Term
  BY DEF RecordCommitted, TypeOK
<1>2. \A t \in Term : UnwrapOr0(starts[t]) \in Nat
  BY DEF UnwrapOr0
<1>3. \A t \in newly \ globally_committed :
         [term |-> t, start |-> UnwrapOr0(starts[t]), end |-> now]
             \in [term : Term, start : Nat, end : Nat]
  BY <1>2
<1> QED
  BY <1>1, <1>3 DEF RecordCommitted, TypeOK

(***************************************************************************)
(* prepare_round on the initiator: the new proposal is one nobody held, so *)
(* pushing it and then committing every quorum keeps the state well formed *)
(* for the new number of proposals.                                        *)
(***************************************************************************)
LEMMA PrepareKeepsWellFormed ==
    ASSUME PipelineInv, NEW i \in Node,
           NEW tc, tc = IF Generating THEN term_counter + 1 ELSE term_counter,
           NEW s, s = IF QuorumTerms(Drafted(i)) = {} THEN Drafted(i)
                      ELSE CommitUpTo(Drafted(i), Max(QuorumTerms(Drafted(i))))
    PROVE  WellFormed(s, tc) /\ Grows(states[i], s)
<1>1. /\ term_counter \in Nat /\ term_counter <= NumProposals /\ tc \in Nat /\ term_counter <= tc
      /\ WellFormed(states[i], term_counter)
  BY NumProposalsAssumption DEF PipelineInv, TypeOK
<1>2. WellFormed(states[i], tc) /\ states[i].last_accepted \in Int
  BY <1>1, WellFormedLater, NodeStateFacts DEF WellFormed
<1>3. WellFormed(Drafted(i), tc) /\ Grows(states[i], Drafted(i))
  <2>1. CASE Generating
    <3>1. term_counter \in Term /\ term_counter < tc
      BY <1>1, <2>1, NumProposalsAssumption DEF Generating, Term
    <3>2. ~Held(states[i], term_counter)
      BY <1>1, <3>1 DEF WellFormed
    <3>3. Drafted(i) = PushPending(states[i], term_counter, Tx(term_counter), {i})
      BY <2>1 DEF Drafted
    <3> QED
      BY <1>1, <1>2, <3>1, <3>2, <3>3, PushKeepsWellFormed
  <2>2. CASE ~Generating
    BY <1>2, <2>2 DEF Drafted, Grows
  <2> QED
    BY <2>1, <2>2
<1>4. CASE QuorumTerms(Drafted(i)) = {}
  BY <1>3, <1>4
<1>5. CASE QuorumTerms(Drafted(i)) # {}
  <2> DEFINE Q == QuorumTerms(Drafted(i))
  <2>1. Q \in SUBSET Term /\ \A t \in Q : Held(Drafted(i), t)
    BY DEF QuorumTerms, CheckQuorum, Held
  <2> HIDE DEF Q
  <2>2. IsFiniteSet(Q) /\ Q \in SUBSET Int
    BY <2>1, TermSets
  <2>3. Max(Q) \in Q
    BY <1>5, <2>2, MaxOfFinite DEF Q
  <2>4. Max(Q) \in Term /\ Max(Q) < tc
    BY <1>3, <2>1, <2>3 DEF WellFormed
  <2>5. s = CommitUpTo(Drafted(i), Max(Q))
    BY <1>5 DEF Q
  <2>6. WellFormed(s, tc) /\ Grows(Drafted(i), s)
    BY <1>1, <1>3, <2>4, <2>5, CommitKeepsWellFormed
  <2>7. Drafted(i).last_accepted \in Int /\ s.last_accepted \in Int
    BY <1>3, <2>6, NodeStateFacts DEF WellFormed
  <2> QED
    BY <1>2, <1>3, <2>6, <2>7, GrowsTransitive
<1> QED
  BY <1>4, <1>5

\* The first gap, or the 0 that stands for none, is a term.
LEMMA NackIsTerm ==
    ASSUME NEW s, NEW upTo
    PROVE  UnwrapOr0(DetectGap(s, upTo)) \in Term
<1>1. 0 \in Term
  BY NumProposalsAssumption DEF Term
<1>2. CASE Gaps(s, upTo) = {}
  BY <1>1, <1>2 DEF DetectGap, UnwrapOr0
<1>3. CASE Gaps(s, upTo) # {}
  <2>1. Gaps(s, upTo) \in SUBSET Term
    BY DEF Gaps
  <2>2. Min(Gaps(s, upTo)) \in Gaps(s, upTo)
    BY <1>3, <2>1, TermSets, MinOfFinite
  <2>3. DetectGap(s, upTo) \in Term
    BY <1>3, <2>1, <2>2 DEF DetectGap
  <2> QED
    BY <1>1, <2>3 DEF UnwrapOr0
<1> QED
  BY <1>2, <1>3

\* Every state a step leads to keeps what the node had.
Monotone == \A i \in Node : Grows(states[i], states'[i])

\* prepare_round keeps the invariant and forgets nothing.
LEMMA PrepareStep ==
    ASSUME PipelineInv, PrepareRound
    PROVE  PipelineInv' /\ Monotone
<1> DEFINE i == Initiator
           gap == DetectGap(states[i], term_counter)
           term == IF Generating THEN term_counter ELSE term_counter - 1
           draft == Drafted(i)
           quorum == QuorumTerms(draft)
           s == IF quorum = {} THEN draft ELSE CommitUpTo(draft, Max(quorum))
           newly == IF quorum = {} THEN {} ELSE NewlyCommitted(draft, Max(quorum))
           data == IF Generating THEN Tx(term) ELSE None
           flags == s.bitmap[term] \cup {i}
           nack == UnwrapOr0(gap)
<1>1. /\ pc = "prepare" /\ pc' = "flood"
      /\ states' = [states EXCEPT ![i] = s]
      /\ proposal_starts' =
            IF Generating THEN [proposal_starts EXCEPT ![term] = round_num] ELSE proposal_starts
      /\ RecordCommitted(newly, proposal_starts', round_num)
      /\ payload' = [current_term |-> term, last_accepted_term |-> s.last_accepted,
                     flags_bitmap |-> flags, nack_term |-> nack, sender |-> i,
                     proposal_data |-> data, piggyback |-> piggyback]
      /\ term_counter' = IF Generating THEN term_counter + 1 ELSE term_counter
      /\ UNCHANGED <<round_num, heard, stopped_by, piggyback, goal_reached, progress_count>>
  BY DEF PrepareRound
<1>2. /\ i \in Node /\ round_num \in Nat /\ term_counter \in 0 .. NumProposals
      /\ states \in [Node -> NodePaxosState]
      /\ \A j \in Node : WellFormed(states[j], term_counter)
      /\ piggyback \in [term : MaybeData, data : MaybeData]
      /\ GoodPiggyback(piggyback, term_counter)
  BY InitiatorIsNode DEF PipelineInv, TypeOK, LoopTypeOK, Initiator
<1>3. /\ term \in Term /\ term < term_counter' /\ term_counter' \in 0 .. NumProposals
      /\ term_counter <= term_counter' /\ term_counter \in Nat /\ term_counter' \in Nat
  BY <1>1, <1>2, NumProposalsAssumption DEF Generating, Term
<1>4. data \in {None, Tx(term)} /\ data \in MaybeData
  BY <1>3, TermFacts DEF MaybeData
<1>5. WellFormed(s, term_counter') /\ Grows(states[i], s)
  BY <1>1, <1>2, PrepareKeepsWellFormed
<1>6. nack \in Term
  BY NackIsTerm
<1>7. newly \in SUBSET Term
  BY DEF NewlyCommitted
<1> HIDE DEF i, gap, draft, quorum, s, newly, data, nack, term
<1>8. s \in NodePaxosState
  BY <1>5 DEF WellFormed
<1>9. flags \in SUBSET Node /\ s.last_accepted \in MaybeData /\ s.last_accepted < term_counter'
  BY <1>2, <1>3, <1>5, <1>8, NodeStateFacts DEF WellFormed
<1> HIDE DEF flags
<1>10. states' \in [Node -> NodePaxosState]
  BY <1>1, <1>2, <1>8
<1>11. \A j \in Node : WellFormed(states'[j], term_counter') /\ Grows(states[j], states'[j])
  <2> SUFFICES ASSUME NEW j \in Node
               PROVE  WellFormed(states'[j], term_counter') /\ Grows(states[j], states'[j])
    OBVIOUS
  <2>1. CASE j = i
    BY <1>1, <1>2, <1>5, <2>1
  <2>2. CASE j # i
    <3>1. states'[j] = states[j]
      BY <1>1, <1>2, <2>2
    <3>2. WellFormed(states[j], term_counter') /\ states[j].last_accepted \in Int
      BY <1>2, <1>3, WellFormedLater, NodeStateFacts DEF WellFormed
    <3> QED
      BY <3>1, <3>2 DEF Grows
  <2> QED
    BY <2>1, <2>2
<1>12. proposal_starts' \in [Term -> Nat \cup {None}]
  BY <1>1, <1>2, <1>3 DEF PipelineInv, TypeOK
<1>13. /\ globally_committed' \in SUBSET Term
       /\ records' \in SUBSET [term : Term, start : Nat, end : Nat]
  BY <1>1, <1>2, <1>7, <1>12, RecordTypes DEF PipelineInv
<1>14. payload' \in Packet
  BY <1>1, <1>2, <1>3, <1>4, <1>6, <1>9 DEF Packet
<1>15. GoodPacket(payload', term_counter')
  <2>1. /\ payload'.current_term = term /\ payload'.last_accepted_term = s.last_accepted
        /\ payload'.proposal_data = data
    BY <1>1
  <2> QED
    BY <1>3, <1>4, <1>9, <2>1 DEF GoodPacket
<1>16. GoodPiggyback(piggyback', term_counter') /\ GoodPiggyback(payload'.piggyback, term_counter')
  <2>1. GoodPiggyback(piggyback, term_counter')
    <3>1. CASE piggyback = NoPiggyback
      BY <3>1 DEF GoodPiggyback
    <3>2. CASE piggyback # NoPiggyback
      <4>1. /\ piggyback.term \in Term /\ piggyback.term < term_counter
            /\ piggyback.data = Tx(piggyback.term)
        BY <1>2, <3>2 DEF GoodPiggyback
      <4>2. piggyback.term \in Nat
        BY <4>1, TermFacts
      <4>3. piggyback.term < term_counter'
        BY <1>3, <4>1, <4>2
      <4> QED
        BY <4>1, <4>3 DEF GoodPiggyback
    <3> QED
      BY <3>1, <3>2
  <2>2. payload'.piggyback = piggyback /\ piggyback' = piggyback
    BY <1>1
  <2> QED
    BY <2>1, <2>2
<1>17. TypeOK'
  BY <1>1, <1>3, <1>10, <1>12, <1>13, <1>14 DEF PipelineInv, TypeOK, LoopTypeOK
<1> QED
  BY <1>1, <1>11, <1>15, <1>16, <1>17 DEF PipelineInv, Monotone

\* Node.progress_count, the least log length, is a number.
LEMMA LeastLogLength ==
    ASSUME NEW st \in [Node -> NodePaxosState]
    PROVE  Min({LogLen(st[i]) : i \in Node}) \in Nat
<1> DEFINE L == {LogLen(st[i]) : i \in Node}
<1>1. \A i \in Node : LogLen(st[i]) \in Nat
  <2> SUFFICES ASSUME NEW i \in Node
               PROVE  LogLen(st[i]) \in Nat
    OBVIOUS
  <2> DEFINE C == {t \in Term : Committed(st[i], t)}
  <2>1. IsFiniteSet(C)
    BY TermSets
  <2>2. Cardinality(C) \in Nat
    <3> HIDE DEF C
    <3> QED
      BY <2>1, FS_CardinalityType
  <2> QED
    BY <2>2 DEF LogLen
<1>2. L \in SUBSET Nat
  BY <1>1
<1>3. IsFiniteSet(Node)
  BY NAssumption, FS_Interval DEF Node
<1>4. IsFiniteSet(L)
  <2> DEFINE f == [i \in Node |-> LogLen(st[i])]
  <2>1. f \in Surjection(Node, L)
    BY DEF Surjection
  <2> HIDE DEF f, L
  <2> QED
    BY <1>3, <2>1, FS_Surjection
<1>5. L # {}
  BY NAssumption DEF Node
<1> HIDE DEF L
<1>6. L \in SUBSET Int
  BY <1>2
<1>7. Min(L) \in L
  BY <1>4, <1>5, <1>6, MinOfFinite
<1> QED
  BY <1>2, <1>7 DEF L

\* Ending a round keeps the loop's own variables in their types.
LEMMA EndRoundTypes ==
    ASSUME LoopTypeOK, NEW reason \in StopReasons, EndRound(reason)
    PROVE  LoopTypeOK' /\ pc' \in {"prepare", "stopped"}
<1>1. CASE reason # "none"
  BY <1>1 DEF EndRound, LoopTypeOK
<1>2. CASE reason = "none"
  <2>1. /\ heard' = {} /\ round_num' = round_num + 1
        /\ pc' = IF round_num' > MaxRounds THEN "stopped" ELSE "prepare"
        /\ stopped_by' = IF round_num' > MaxRounds THEN "max_rounds" ELSE "none"
    BY <1>2 DEF EndRound
  <2>2. pc' \in {"prepare", "stopped"} /\ stopped_by' \in StopReasons
    BY <2>1 DEF StopReasons
  <2> QED
    BY <2>1, <2>2 DEF LoopTypeOK
<1> QED
  BY <1>1, <1>2

\* process_round keeps the invariant and forgets nothing.
LEMMA ProcessStep ==
    ASSUME PipelineInv, ProcessRound
    PROVE  PipelineInv' /\ Monotone
<1> DEFINE newly == IF payload.last_accepted_term = None THEN {}
                    ELSE UNION {NewlyCommitted(states[i], payload.last_accepted_term) : i \in heard}
           R(i) == Recover(i, Overhear(i, states[i], payload), payload)
<1>1. /\ pc = "process"
      /\ states' = [i \in Node |-> IF i \in heard THEN R(i) ELSE states[i]]
      /\ RecordCommitted(newly, proposal_starts, round_num + 1)
      /\ piggyback' = AnswerNack(payload)
      /\ goal_reached' = [i \in Node |-> LogLen(states'[i]) = NumProposals]
      /\ progress_count' = Min({LogLen(states'[i]) : i \in Node})
      /\ EndRound(StopReason)
      /\ UNCHANGED <<term_counter, proposal_starts, payload>>
  BY DEF ProcessRound
<1>2. /\ TypeOK /\ LoopTypeOK /\ term_counter \in Nat /\ payload \in Packet
      /\ \A i \in Node : WellFormed(states[i], term_counter)
      /\ GoodPacket(payload, term_counter) /\ GoodPiggyback(payload.piggyback, term_counter)
  BY <1>1 DEF PipelineInv, TypeOK
<1>3. \A i \in Node : WellFormed(R(i), term_counter) /\ Grows(states[i], R(i))
  <2> SUFFICES ASSUME NEW i \in Node
               PROVE  WellFormed(R(i), term_counter) /\ Grows(states[i], R(i))
    OBVIOUS
  <2> DEFINE o == Overhear(i, states[i], payload)
             r == Recover(i, o, payload)
  <2>1. WellFormed(o, term_counter) /\ Grows(states[i], o)
    BY <1>2, OverhearKeepsWellFormed
  <2> HIDE DEF o
  <2>2. WellFormed(r, term_counter) /\ Grows(o, r)
    BY <1>2, <2>1, RecoverKeepsWellFormed
  <2> HIDE DEF r
  <2>3. states[i].last_accepted \in Int /\ o.last_accepted \in Int /\ r.last_accepted \in Int
    BY <1>2, <2>1, <2>2, NodeStateFacts DEF WellFormed
  <2>4. Grows(states[i], r)
    BY <2>1, <2>2, <2>3, GrowsTransitive
  <2> QED
    BY <2>2, <2>4 DEF o, r
<1>4. newly \in SUBSET Term
  BY DEF NewlyCommitted
<1> HIDE DEF newly, R
<1>5. \A i \in Node : WellFormed(states'[i], term_counter) /\ Grows(states[i], states'[i])
  <2> SUFFICES ASSUME NEW i \in Node
               PROVE  WellFormed(states'[i], term_counter) /\ Grows(states[i], states'[i])
    OBVIOUS
  <2>1. CASE i \in heard
    BY <1>1, <1>3, <2>1
  <2>2. CASE i \notin heard
    <3>1. states'[i] = states[i]
      BY <1>1, <2>2
    <3>2. states[i].last_accepted \in Int
      BY <1>2, NodeStateFacts DEF WellFormed
    <3> QED
      BY <1>2, <3>1, <3>2 DEF Grows
  <2> QED
    BY <2>1, <2>2
<1>6. states' \in [Node -> NodePaxosState]
  <2>1. \A i \in Node : (IF i \in heard THEN R(i) ELSE states[i]) \in NodePaxosState
    BY <1>2, <1>3 DEF WellFormed
  <2> QED
    BY <1>1, <2>1
<1>7. /\ globally_committed' \in SUBSET Term
      /\ records' \in SUBSET [term : Term, start : Nat, end : Nat]
  <2>1. round_num + 1 \in Nat /\ proposal_starts \in [Term -> Nat \cup {None}]
    BY <1>2 DEF TypeOK, LoopTypeOK
  <2> QED
    BY <1>1, <1>2, <1>4, <2>1, RecordTypes
<1>8. /\ piggyback' \in [term : MaybeData, data : MaybeData]
      /\ GoodPiggyback(piggyback', term_counter)
  BY <1>1, AnswerIsGood
<1>9. goal_reached' \in [Node -> BOOLEAN]
  BY <1>1
<1>10. progress_count' \in Nat
  BY <1>1, <1>6, LeastLogLength
<1>11. LoopTypeOK' /\ pc' \in {"prepare", "stopped"}
  <2>1. StopReason \in StopReasons
    BY DEF StopReason, StopReasons
  <2> QED
    BY <1>1, <1>2, <2>1, EndRoundTypes
<1>12. TypeOK'
  BY <1>1, <1>2, <1>6, <1>7, <1>8, <1>9, <1>10, <1>11 DEF TypeOK
<1> QED
  BY <1>1, <1>2, <1>5, <1>8, <1>11, <1>12 DEF PipelineInv, Monotone

\* The other steps of the loop leave the protocol's variables alone.
LEMMA LoopStep ==
    ASSUME PipelineInv, UNCHANGED paxos_vars, FloodIdentical \/ OutOfSlots
    PROVE  PipelineInv' /\ Monotone
<1>1. LoopTypeOK' /\ pc' # "flood" /\ (pc' = "process" => pc = "flood")
  <2>1. CASE FloodIdentical
    BY <2>1 DEF PipelineInv, TypeOK, LoopTypeOK, FloodIdentical, FloodOutcomes
  <2>2. CASE OutOfSlots
    BY <2>2 DEF PipelineInv, TypeOK, LoopTypeOK, OutOfSlots, StopReasons
  <2> QED
    BY <2>1, <2>2
<1>2. \A i \in Node : Grows(states[i], states[i])
  <2>1. \A i \in Node : states[i].last_accepted \in Int
    BY NodeStateFacts DEF PipelineInv, TypeOK
  <2> QED
    BY <2>1 DEF Grows
<1> QED
  BY <1>1, <1>2 DEF PipelineInv, TypeOK, paxos_vars, Monotone

\* A step in which nothing changes keeps everything.
LEMMA StutterStep ==
    ASSUME PipelineInv, UNCHANGED vars
    PROVE  PipelineInv' /\ Monotone
<1>1. \A i \in Node : Grows(states[i], states[i])
  <2>1. \A i \in Node : states[i].last_accepted \in Int
    BY NodeStateFacts DEF PipelineInv, TypeOK
  <2> QED
    BY <2>1 DEF Grows
<1> QED
  BY <1>1 DEF PipelineInv, TypeOK, LoopTypeOK, vars, loop_vars, paxos_vars, Monotone

-----------------------------------------------------------------------------
(***************************************************************************)
(* The induction behind every theorem below: the initial state satisfies   *)
(* PipelineInv, and each step keeps it and lets every node grow.           *)
(***************************************************************************)
LEMMA InitPipelineInv == Init => PipelineInv
<1> SUFFICES ASSUME Init
             PROVE  PipelineInv
  OBVIOUS
<1>1. \A i \in Node : states[i] = NewPaxosState /\ WellFormed(states[i], term_counter)
  BY NewNodeWellFormed DEF Init
<1>2. states \in [Node -> NodePaxosState]
  <2>1. NewPaxosState \in NodePaxosState
    BY <1>1, NewNodeWellFormed DEF WellFormed
  <2> HIDE DEF NewPaxosState
  <2> QED
    BY <2>1 DEF Init
<1>3. payload \in Packet /\ payload.piggyback = NoPiggyback
  <2>1. 0 \in Term /\ 0 \in Node
    BY NumProposalsAssumption, NAssumption DEF Term, Node
  <2> QED
    BY <2>1 DEF Init, NoPacket, Packet, NoPiggyback, MaybeData
<1>4. piggyback = NoPiggyback /\ NoPiggyback \in [term : MaybeData, data : MaybeData]
  BY DEF Init, NoPiggyback, MaybeData
<1>5. LoopTypeOK /\ pc = "prepare"
  BY DEF Init, LoopInit, LoopTypeOK, StopReasons
<1>6. TypeOK
  BY <1>2, <1>3, <1>4, <1>5, NumProposalsAssumption DEF Init, TypeOK
<1> QED
  BY <1>1, <1>3, <1>4, <1>5, <1>6 DEF PipelineInv, GoodPiggyback

\* One step of the loop, whichever it is.
LEMMA NextPipelineInv == PipelineInv /\ [Next]_vars => PipelineInv' /\ Monotone
<1> SUFFICES ASSUME PipelineInv, [Next]_vars
             PROVE  PipelineInv' /\ Monotone
  OBVIOUS
<1>1. CASE PrepareRound
  BY <1>1, PrepareStep
<1>2. CASE FloodIdentical /\ UNCHANGED paxos_vars
  BY <1>2, LoopStep
<1>3. CASE ProcessRound
  BY <1>3, ProcessStep
<1>4. CASE OutOfSlots /\ UNCHANGED paxos_vars
  BY <1>4, LoopStep
<1>5. CASE Finished /\ UNCHANGED vars
  BY <1>5, StutterStep
<1>6. CASE UNCHANGED vars
  BY <1>6, StutterStep
<1> QED
  BY <1>1, <1>2, <1>3, <1>4, <1>5, <1>6 DEF Next

\* PipelineInv is an invariant: the reason why each theorem below holds in every reachable state.
THEOREM PipelineInvariant == Spec => []PipelineInv
<1>1. PipelineInv /\ [Next]_vars => PipelineInv'
  BY NextPipelineInv
<1> QED
  BY InitPipelineInv, <1>1, PTL DEF Spec

(***************************************************************************)
(* Type correctness: the terms, votes and packet fields the loop computes, *)
(* the NACK and the answer to it included, always have their types.        *)
(***************************************************************************)
THEOREM TypeCorrect == Spec => []TypeOK
<1>1. PipelineInv => TypeOK
  BY DEF PipelineInv
<1> QED
  BY <1>1, PipelineInvariant, PTL

(***************************************************************************)
(* Payload integrity, whatever the losses and whoever answers a NACK: a    *)
(* recovered proposal is the one its proposer published for that term.     *)
(***************************************************************************)
THEOREM IntegrityTheorem == Spec => []DataIntegrity
<1>1. PipelineInv => DataIntegrity
  BY DEF PipelineInv, WellFormed, GoodPiggyback, DataIntegrity
<1> QED
  BY <1>1, PipelineInvariant, PTL

(***************************************************************************)
(* A term is in the log or pending but never in both, votes only stand on  *)
(* pending terms, and nothing is logged above last_accepted or held before *)
(* it is proposed: the guards around pending.push and commit_up_to suffice.*)
(***************************************************************************)
THEOREM OneHomeTheorem == Spec => []OneHome
<1>1. PipelineInv => OneHome
  BY DEF PipelineInv, WellFormed, OneHome
<1> QED
  BY <1>1, PipelineInvariant, PTL

(***************************************************************************)
(* No step of prepare_round, process_round or recovery takes back what a   *)
(* node accepted, logged or held.                                          *)
(***************************************************************************)
THEOREM NothingForgottenTheorem == Spec => NothingForgotten
<1> DEFINE Keeps ==
        \A i \in Node :
          /\ states'[i].last_accepted >= states[i].last_accepted
          /\ \A t \in Term :
                /\ Committed(states[i], t) => states'[i].log[t] = states[i].log[t]
                /\ Held(states[i], t) => Held(states'[i], t)
<1>1. Monotone => Keeps
  BY DEF Monotone, Grows
<1>2. PipelineInv /\ [Next]_vars => [Keeps]_vars
  BY <1>1, NextPipelineInv
<1>3. Spec => [][Next]_vars
  BY PTL DEF Spec
<1>4. Spec => [][Keeps]_vars
  BY <1>2, <1>3, PipelineInvariant, PTL
<1> QED
  BY <1>4 DEF NothingForgotten
-----------------------------------------------------------------------------
(***************************************************************************)
(* What the run reports, and the evidence behind votes and quorums.  Every *)
(* round proposes one term until none is left, so term t is started in     *)
(* round t; by then its votes can only come from the initiators of rounds  *)
(* t and later, one a round, which bounds a bitmap from above by time.     *)
(***************************************************************************)

\* The nodes whose turns were the rounds from t up to, but not including, r.
Turns(t, r) == {InitiatorOf(x) : x \in t .. r-1}

\* The nodes that, in the states st, have been in the flood of term x or of a later one.
Reached(st, x) == {j \in Node : UnwrapOr0(st[j].highest_seen_term) >= x}

\* The terms some node, in the states st, has accepted.
Accepted(st) == {t \in Term : \E i \in Node : t <= st[i].last_accepted}

\* The initiator's state when prepare_round is done, and the terms it commits there.
PreparedState(i) ==
    IF QuorumTerms(Drafted(i)) = {} THEN Drafted(i)
    ELSE CommitUpTo(Drafted(i), Max(QuorumTerms(Drafted(i))))

\* The terms that node i commits while it prepares its round.
PreparedTerms(i) ==
    IF QuorumTerms(Drafted(i)) = {} THEN {}
    ELSE NewlyCommitted(Drafted(i), Max(QuorumTerms(Drafted(i))))

\* The proposals are made in the order of the rounds, until none is left.
Schedule ==
    /\ pc = "prepare" =>
          term_counter = IF round_num < NumProposals THEN round_num ELSE NumProposals
    /\ pc \in {"flood", "process"} =>
          /\ term_counter = IF round_num < NumProposals THEN round_num + 1 ELSE NumProposals
          /\ payload.current_term = term_counter - 1
          /\ payload.last_accepted_term = states[Initiator].last_accepted
          /\ payload.flags_bitmap = states[Initiator].bitmap[payload.current_term] \cup {Initiator}
    /\ \A t \in Term : proposal_starts[t] = IF t < term_counter THEN t ELSE None

\* A node that has a term pending was in its flood or in a later one; the proposer is about to be.
PendingIsSeen ==
    \A i \in Node, t \in Term :
        Pending(states[i], t) =>
            \/ UnwrapOr0(states[i].highest_seen_term) >= t
            \/ pc \in {"flood", "process"} /\ i = Initiator /\ t = payload.current_term

\* While the loop runs, a vote of another node for t took one of the rounds since t.
VotesTakeRounds ==
    pc # "stopped" =>
        \A i \in Node :
            /\ \A t \in Term : states[i].bitmap[t] \subseteq {i} \cup Turns(t, round_num)
            /\ states[i].last_accepted # None => round_num >= states[i].last_accepted + N \div 2

\* The invariant behind votes, quorums and reports.
EvidenceInv ==
    /\ PipelineInv
    /\ LoopInv
    /\ Schedule
    /\ PendingIsSeen
    /\ VotesTakeRounds
    /\ QuorumsHaveEvidence
    /\ ReportSound

-----------------------------------------------------------------------------
\* What process_round does to a participant, as far as votes and acceptance go.
Served(s, r, i, pkt) ==
    /\ Casts(s, r, i, pkt.current_term, pkt.flags_bitmap, {t \in Term : t <= pkt.current_term})
    /\ r.last_accepted = IF s.last_accepted >= pkt.last_accepted_term THEN s.last_accepted
                         ELSE pkt.last_accepted_term
    /\ UnwrapOr0(r.highest_seen_term) >= pkt.current_term

(***************************************************************************)
(* A participant takes over the votes of the packet and casts its own, has *)
(* seen the term, and accepts what the initiator has accepted; a recovered *)
(* proposal is of a term already proposed, so not above the packet's.      *)
(***************************************************************************)
LEMMA ParticipantIsServed ==
    ASSUME NEW tc \in Nat, NEW i \in Node, NEW s, WellFormed(s, tc),
           NEW pkt \in Packet, GoodPacket(pkt, tc), GoodPiggyback(pkt.piggyback, tc),
           pkt.current_term = tc - 1
    PROVE  Served(s, Recover(i, Overhear(i, s, pkt), pkt), i, pkt)
<1> DEFINE a == AdoptPrefix(s, pkt)
           b == SeeTerm(a, pkt)
           c == StoreProposal(b, pkt)
           d == MergeVotesUpTo(c, pkt.current_term, pkt.flags_bitmap \cup {i})
           r == Recover(i, d, pkt)
           p == pkt.piggyback
           new == {t \in Term : t <= pkt.current_term}
           C(x, y) == Casts(x, y, i, pkt.current_term, pkt.flags_bitmap, new)
           la == IF s.last_accepted >= pkt.last_accepted_term THEN s.last_accepted
                 ELSE pkt.last_accepted_term
<1>0. /\ pkt.current_term \in Term /\ pkt.flags_bitmap \in SUBSET Node
      /\ pkt.last_accepted_term \in MaybeData /\ pkt.last_accepted_term < tc
      /\ s \in NodePaxosState /\ s.last_accepted \in Int
      /\ \A t \in Term : t \in Nat
      /\ pkt.current_term \in MaybeData
  BY PacketFacts, NodeStateFacts, TermFacts DEF WellFormed, GoodPacket, MaybeData
<1>1. WellFormed(a, tc) /\ a \in NodePaxosState /\ C(s, a) /\ a.last_accepted = la
  <2>1. CASE pkt.last_accepted_term = None
    <3>1. a = s /\ s.last_accepted \in MaybeData
      BY <1>0, <2>1, NodeStateFacts DEF AdoptPrefix
    <3>2. s.last_accepted >= None
      <4>1. s.last_accepted \in Term \/ s.last_accepted = -1
        BY <3>1 DEF MaybeData, None
      <4> QED
        BY <1>0, <4>1 DEF None
    <3> HIDE DEF a
    <3> QED
      BY <1>0, <2>1, <3>1, <3>2, CastsNothing
  <2>2. CASE pkt.last_accepted_term # None
    <3>1. pkt.last_accepted_term \in Term
      BY <1>0, <2>2 DEF MaybeData
    <3>2. a = CommitUpTo(s, pkt.last_accepted_term)
      BY <2>2 DEF AdoptPrefix
    <3> HIDE DEF a, new
    <3>3. WellFormed(a, tc)
      BY <1>0, <3>1, <3>2, CommitKeepsWellFormed
    <3>4. C(s, a)
      BY <1>0, <3>1, <3>2, CommitCasts
    <3>5. a.last_accepted = la
      BY <3>1, <3>2, CommitRaises
    <3> QED
      BY <3>3, <3>4, <3>5 DEF WellFormed
  <2> QED
    BY <2>1, <2>2
<1>2. /\ b \in NodePaxosState /\ C(a, b) /\ b.last_accepted = la
      /\ UnwrapOr0(b.highest_seen_term) >= pkt.current_term
      /\ b.pending = a.pending /\ b.log = a.log
  <2> HIDE DEF a, la, new
  <2>0. UnwrapOr0(a.highest_seen_term) \in Nat
    BY <1>1, NodeStateFacts, UnwrappedIsNat
  <2>1. CASE UnwrapOr0(a.highest_seen_term) < pkt.current_term
    <3>1. b = [a EXCEPT !.highest_seen_term = pkt.current_term]
      BY <2>1 DEF SeeTerm
    <3>2. /\ b \in NodePaxosState /\ b.pending = a.pending /\ b.bitmap = a.bitmap
          /\ b.last_accepted = a.last_accepted /\ b.highest_seen_term = pkt.current_term
          /\ b.log = a.log
      BY <1>0, <1>1, <3>1 DEF NodePaxosState
    <3> HIDE DEF b
    <3>3. UnwrapOr0(b.highest_seen_term) = pkt.current_term
      BY <1>0, <3>2, TermFacts DEF UnwrapOr0
    <3>4. C(a, b)
      BY <1>0, <2>0, <2>1, <3>2, <3>3 DEF Casts, Pending
    <3> QED
      BY <1>0, <1>1, <3>2, <3>3, <3>4
  <2>2. CASE ~(UnwrapOr0(a.highest_seen_term) < pkt.current_term)
    <3>1. b = a
      BY <2>2 DEF SeeTerm
    <3> HIDE DEF b
    <3> QED
      BY <1>0, <1>1, <2>0, <2>2, <3>1, CastsNothing
  <2> QED
    BY <2>1, <2>2
<1>3. /\ c \in NodePaxosState /\ C(b, c) /\ c.last_accepted = la
      /\ UnwrapOr0(c.highest_seen_term) >= pkt.current_term
  <2> HIDE DEF a, b, la
  <2>1. CASE pkt.proposal_data # None /\ ~Held(b, pkt.current_term)
    <3>1. pkt.proposal_data = Tx(pkt.current_term)
      BY <2>1 DEF GoodPacket
    <3>2. c = PushPending(b, pkt.current_term, Tx(pkt.current_term), pkt.flags_bitmap)
      BY <2>1, <3>1 DEF StoreProposal
    <3>3. Tx(pkt.current_term) \in MaybeData
      BY <1>0, TermFacts DEF MaybeData
    <3>4. c \in NodePaxosState
      <4> DEFINE q == [b.pending EXCEPT ![pkt.current_term] = Tx(pkt.current_term)]
                 v == [b.bitmap EXCEPT ![pkt.current_term] = pkt.flags_bitmap]
      <4>1. c = [b EXCEPT !.pending = q, !.bitmap = v]
        BY <3>2 DEF PushPending
      <4>2. q \in [Term -> MaybeData] /\ v \in [Term -> SUBSET Node]
        BY <1>0, <1>2, <3>3, NodeStateFacts
      <4> HIDE DEF q, v, c
      <4> QED
        BY <1>2, <4>1, <4>2 DEF NodePaxosState
    <3>5. pkt.current_term \in new /\ pkt.current_term <= pkt.current_term
      BY <1>0
    <3> HIDE DEF c, new
    <3>6. pkt.flags_bitmap \subseteq {i} \cup (IF pkt.current_term <= pkt.current_term
                                               THEN pkt.flags_bitmap ELSE {})
      BY <3>5
    <3> QED
      BY <1>0, <1>2, <3>2, <3>4, <3>5, <3>6, PushCasts
  <2>2. CASE ~(pkt.proposal_data # None /\ ~Held(b, pkt.current_term))
    <3>1. c = b
      BY <2>2 DEF StoreProposal
    <3> HIDE DEF c, new
    <3> QED
      BY <1>2, <3>1, CastsNothing
  <2> QED
    BY <2>1, <2>2
<1>4. Overhear(i, s, pkt) = d
  BY DEF Overhear
<1>5. WellFormed(d, tc)
  BY <1>4, OverhearKeepsWellFormed
<1>6. /\ d \in NodePaxosState /\ C(c, d) /\ d.last_accepted = la
      /\ UnwrapOr0(d.highest_seen_term) >= pkt.current_term
  <2> HIDE DEF a, b, c, la, new
  <2> QED
    BY <1>3, <1>5, MergeCasts DEF WellFormed
<1>7. /\ r \in NodePaxosState /\ C(d, r) /\ r.last_accepted = la
      /\ UnwrapOr0(r.highest_seen_term) >= pkt.current_term
  <2> HIDE DEF a, b, c, d, la
  <2>0. r \in NodePaxosState
    BY <1>5, RecoverKeepsWellFormed DEF WellFormed
  <2>1. CASE p.term # None /\ ~Held(d, p.term)
    <3>1. p.term \in Term /\ p.term < tc /\ p.data = Tx(p.term)
      BY <2>1 DEF GoodPiggyback, NoPiggyback
    <3>2. r = PushPending(d, p.term, Tx(p.term), {i})
      BY <2>1, <3>1 DEF Recover
    <3>3. p.term \in new
      BY <1>0, <3>1
    <3> HIDE DEF r, p, new
    <3>4. {i} \subseteq {i} \cup (IF p.term <= pkt.current_term THEN pkt.flags_bitmap ELSE {})
      OBVIOUS
    <3> QED
      BY <1>6, <2>0, <3>1, <3>2, <3>3, <3>4, PushCasts
  <2>2. CASE ~(p.term # None /\ ~Held(d, p.term))
    <3>1. r = d
      BY <2>2 DEF Recover
    <3> HIDE DEF r, new
    <3> QED
      BY <1>6, <3>1, CastsNothing
  <2> QED
    BY <2>1, <2>2
<1> HIDE DEF a, b, c, d, r, new, la
<1>8. C(s, b)
  BY <1>0, <1>1, <1>2, CastsTransitive
<1>9. C(s, c)
  BY <1>0, <1>2, <1>3, <1>8, CastsTransitive
<1>10. C(s, d)
  BY <1>0, <1>3, <1>6, <1>9, CastsTransitive
<1>11. C(s, r)
  BY <1>0, <1>6, <1>7, <1>10, CastsTransitive
<1>12. Recover(i, Overhear(i, s, pkt), pkt) = r
  BY <1>4 DEF r
<1> HIDE DEF C
<1> QED
  BY <1>7, <1>11, <1>12 DEF Served, C, new, la

-----------------------------------------------------------------------------
\* A later packet brings the turns of an earlier one, and one more.
LEMMA TurnsGrow ==
    ASSUME NEW r \in Nat, NEW c \in Nat, c <= r, NEW t \in Nat, t <= c
    PROVE  Turns(c, r) \cup {InitiatorOf(r)} \subseteq Turns(t, r + 1)
<1>1. ASSUME NEW x \in c .. r - 1
      PROVE  InitiatorOf(x) \in Turns(t, r + 1)
  BY DEF Turns
<1>2. InitiatorOf(r) \in Turns(t, r + 1)
  BY DEF Turns
<1> QED
  BY <1>1, <1>2 DEF Turns

\* One round, one turn: a node and the initiators of the rounds since t are no more than these.
LEMMA TurnsAreFew ==
    ASSUME NEW r \in Nat, NEW t \in Nat, t <= r, NEW i,
           NEW S, S \subseteq {i} \cup Turns(t, r)
    PROVE  IsFiniteSet(S) /\ Cardinality(S) \in Nat /\ Cardinality(S) <= (r - t) + 1
<1> DEFINE U == {i} \cup Turns(t, r)
           W == t .. r
           f == [x \in W |-> IF x = r THEN i ELSE InitiatorOf(x)]
<1>1. f \in Surjection(W, U)
  <2>1. \A x \in W : f[x] \in U
    BY DEF Turns
  <2>2. \A u \in U : \E x \in W : f[x] = u
    <3> SUFFICES ASSUME NEW u \in U PROVE \E x \in W : f[x] = u
      OBVIOUS
    <3>1. CASE u = i
      <4>1. r \in W /\ f[r] = i
        OBVIOUS
      <4> QED
        BY <3>1, <4>1
    <3>2. CASE u \in Turns(t, r)
      <4>1. PICK x \in t .. r - 1 : u = InitiatorOf(x)
        BY <3>2 DEF Turns
      <4>2. x \in W /\ f[x] = u
        BY <4>1
      <4> QED
        BY <4>2
    <3> QED
      BY <3>1, <3>2
  <2> QED
    BY <2>1, <2>2 DEF Surjection
<1>2. IsFiniteSet(W) /\ Cardinality(W) = (r - t) + 1
  BY FS_Interval
<1> HIDE DEF f, W, U
<1>3. IsFiniteSet(U) /\ Cardinality(U) <= Cardinality(W)
  BY <1>1, <1>2, FS_Surjection
<1>4. IsFiniteSet(S) /\ Cardinality(S) <= Cardinality(U)
  BY <1>3, FS_Subset DEF U
<1>5. Cardinality(S) \in Nat /\ Cardinality(U) \in Nat /\ Cardinality(W) \in Nat
  BY <1>2, <1>3, <1>4, FS_CardinalityType
<1> QED
  BY <1>2, <1>3, <1>4, <1>5

\* As nodes only see higher terms, the set of those a term has reached does not shrink.
LEMMA ReachedGrows ==
    ASSUME NEW st \in [Node -> NodePaxosState], NEW su \in [Node -> NodePaxosState],
           \A j \in Node : UnwrapOr0(su[j].highest_seen_term) >= UnwrapOr0(st[j].highest_seen_term),
           NEW x \in Int, NEW S, S \subseteq Reached(st, x)
    PROVE  /\ Cardinality(S) \in Nat /\ Cardinality(Reached(su, x)) \in Nat
           /\ Cardinality(Reached(su, x)) >= Cardinality(S)
<1>1. \A j \in Node : /\ UnwrapOr0(st[j].highest_seen_term) \in Nat
                      /\ UnwrapOr0(su[j].highest_seen_term) \in Nat
  BY NodeStateFacts, UnwrappedIsNat
<1>2. S \subseteq Reached(su, x) /\ Reached(su, x) \subseteq Node
  BY <1>1 DEF Reached
<1>3. IsFiniteSet(Reached(su, x))
  BY <1>2, NodesAreFinite, FS_Subset
<1>4. IsFiniteSet(S) /\ Cardinality(S) <= Cardinality(Reached(su, x))
  BY <1>2, <1>3, FS_Subset
<1>5. Cardinality(S) \in Nat /\ Cardinality(Reached(su, x)) \in Nat
  BY <1>3, <1>4, FS_CardinalityType
<1> QED
  BY <1>4, <1>5

(***************************************************************************)
(* Reporting the terms that were newly accepted, in prepare_round or in    *)
(* process_round, keeps the report exact.                                  *)
(***************************************************************************)
LEMMA ReportsKept ==
    ASSUME CommittedIsPrefix, RecordedOnce,
           NEW newly \in SUBSET Term, NEW starts, NEW now \in Nat,
           RecordCommitted(newly, starts, now), proposal_starts' = starts,
           Accepted(states') = Accepted(states) \cup newly,
           \A t \in globally_committed : starts[t] = proposal_starts[t],
           \A t \in newly : starts[t] = t
    PROVE  CommittedIsPrefix' /\ RecordedOnce'
<1> DEFINE fresh == {[term |-> t, start |-> UnwrapOr0(starts[t]), end |-> now] :
                        t \in newly \ globally_committed}
<1>1. globally_committed = Accepted(states)
  BY DEF CommittedIsPrefix, Accepted
<1>2. globally_committed' = Accepted(states')
  BY <1>1 DEF RecordCommitted
<1>3. CommittedIsPrefix'
  BY <1>2 DEF CommittedIsPrefix, Accepted
<1>4. records' = records \cup fresh /\ globally_committed' = globally_committed \cup newly
  BY DEF RecordCommitted
<1>5. ASSUME NEW r \in fresh
      PROVE  /\ r.term \in newly \ globally_committed /\ starts[r.term] = r.start
             /\ r = [term |-> r.term, start |-> UnwrapOr0(starts[r.term]), end |-> now]
  <2>1. PICK t \in newly \ globally_committed :
            r = [term |-> t, start |-> UnwrapOr0(starts[t]), end |-> now]
    OBVIOUS
  <2>2. starts[t] = t /\ t \in Term
    BY <2>1
  <2>3. UnwrapOr0(starts[t]) = t
    BY <2>2, TermFacts DEF UnwrapOr0
  <2> QED
    BY <2>1, <2>2, <2>3
<1>6. \A t \in newly \ globally_committed : \E r \in fresh : r.term = t
  <2> SUFFICES ASSUME NEW t \in newly \ globally_committed PROVE \E r \in fresh : r.term = t
    OBVIOUS
  <2> WITNESS [term |-> t, start |-> UnwrapOr0(starts[t]), end |-> now] \in fresh
  <2> QED
    OBVIOUS
<1> HIDE DEF fresh
<1>7. \A r \in records : r.term \in globally_committed /\ proposal_starts[r.term] = r.start
  BY DEF RecordedOnce
<1>8. \A r \in records' : proposal_starts'[r.term] = r.start
  BY <1>4, <1>5, <1>7
<1>9. \A r, q \in records' : r.term = q.term => r = q
  <2>1. \A r, q \in records : r.term = q.term => r = q
    BY DEF RecordedOnce
  <2>2. \A r, q \in fresh : r.term = q.term => r = q
    BY <1>5
  <2>3. \A r \in records, q \in fresh : r.term # q.term
    BY <1>5, <1>7
  <2> QED
    BY <1>4, <2>1, <2>2, <2>3
<1>10. globally_committed' = {r.term : r \in records'}
  <2>1. globally_committed = {r.term : r \in records}
    BY DEF RecordedOnce
  <2>2. newly \ globally_committed = {r.term : r \in fresh}
    BY <1>5, <1>6
  <2> QED
    BY <1>4, <2>1, <2>2
<1> QED
  BY <1>3, <1>8, <1>9, <1>10 DEF RecordedOnce

\* The reports stay late enough when the terms newly reported are.
LEMMA LatenessKept ==
    ASSUME NoEarlyCommit, NEW newly \in SUBSET Term, NEW starts, NEW now \in Nat,
           RecordCommitted(newly, starts, now),
           \A t \in newly \ globally_committed : starts[t] = t /\ now >= t + N \div 2
    PROVE  NoEarlyCommit'
<1>1. ASSUME NEW t \in newly \ globally_committed
      PROVE  now >= UnwrapOr0(starts[t]) + N \div 2
  <2>1. starts[t] = t /\ t \in Term
    BY <1>1
  <2>2. UnwrapOr0(starts[t]) = t
    BY <2>1, TermFacts DEF UnwrapOr0
  <2> QED
    BY <1>1, <2>2
<1>2. ASSUME NEW r \in records'
      PROVE  r.end >= r.start + N \div 2
  <2>1. CASE r \in records
    BY <2>1 DEF NoEarlyCommit
  <2>2. CASE r \notin records
    <3>1. PICK t \in newly \ globally_committed :
              r = [term |-> t, start |-> UnwrapOr0(starts[t]), end |-> now]
      BY <2>2 DEF RecordCommitted
    <3> QED
      BY <1>1, <3>1
  <2> QED
    BY <2>1, <2>2
<1> QED
  BY <1>2 DEF NoEarlyCommit

\* What prepare_round does to the initiator, as far as votes and acceptance go.
Prepared(i, s, newly) ==
    /\ Casts(states[i], s, i, -1, {}, {t \in Term : Generating /\ t = term_counter})
    /\ \/ s.last_accepted = states[i].last_accepted /\ newly = {}
       \/ \E T \in Term :
             /\ s.last_accepted = IF states[i].last_accepted >= T THEN states[i].last_accepted ELSE T
             /\ \A t \in newly : t <= T
             /\ \A t \in Term : t <= T => t \in newly \/ t <= states[i].last_accepted
             /\ round_num >= T + N \div 2
             /\ Cardinality(Reached(states, T)) >= Majority

(***************************************************************************)
(* The quorum behind a decision.  The votes on T at the initiator are its  *)
(* own and those of the turns since T, so a majority of them takes N div 2 *)
(* rounds; in particular T is not the proposal just drafted.  Every voter, *)
(* the initiator included, has been in the flood of T or of a later term.  *)
(***************************************************************************)
LEMMA InitiatorIsPrepared ==
    ASSUME EvidenceInv, pc = "prepare", NEW i \in Node
    PROVE  /\ Prepared(i, PreparedState(i), PreparedTerms(i))
           /\ PreparedTerms(i) \in SUBSET Term
<1> DEFINE d == Drafted(i)
           Q == QuorumTerms(d)
           s == PreparedState(i)
           tc == IF Generating THEN term_counter + 1 ELSE term_counter
           new == {t \in Term : Generating /\ t = term_counter}
<1>0. /\ term_counter \in Nat /\ round_num \in Nat /\ tc \in Nat
      /\ states[i] \in NodePaxosState /\ states[i].last_accepted \in Int
      /\ WellFormed(states[i], term_counter) /\ WellFormed(states[i], tc)
      /\ states \in [Node -> NodePaxosState]
  <2>1. /\ term_counter \in Nat /\ round_num \in Nat /\ WellFormed(states[i], term_counter)
        /\ states \in [Node -> NodePaxosState]
    BY NumProposalsAssumption DEF EvidenceInv, PipelineInv, TypeOK, LoopTypeOK
  <2>2. tc \in Nat /\ term_counter <= tc
    BY <2>1
  <2> QED
    BY <2>1, <2>2, WellFormedLater, NodeStateFacts
<1>1. d \in NodePaxosState /\ Casts(states[i], d, i, -1, {}, new)
      /\ d.last_accepted = states[i].last_accepted /\ WellFormed(d, tc)
  <2>1. CASE Generating
    <3>1. term_counter \in Term /\ ~Held(states[i], term_counter) /\ term_counter < tc
      BY <1>0, <2>1, NumProposalsAssumption DEF Generating, Term, WellFormed
    <3>2. d = PushPending(states[i], term_counter, Tx(term_counter), {i})
      BY <2>1 DEF Drafted
    <3>3. WellFormed(d, tc)
      BY <1>0, <3>1, <3>2, PushKeepsWellFormed
    <3>4. term_counter \in new
      BY <2>1, <3>1
    <3> HIDE DEF d, new
    <3>5. {i} \subseteq {i} \cup (IF term_counter <= -1 THEN {} ELSE {})
      OBVIOUS
    <3>6. Casts(states[i], d, i, -1, {}, new) /\ d.last_accepted = states[i].last_accepted
      BY <1>0, <3>1, <3>2, <3>4, <3>5, PushCasts
    <3> QED
      BY <3>3, <3>6 DEF WellFormed
  <2>2. CASE ~Generating
    <3>1. d = states[i]
      BY <2>2 DEF Drafted
    <3> HIDE DEF d, new
    <3> QED
      BY <1>0, <3>1, CastsNothing
  <2> QED
    BY <2>1, <2>2
<1> HIDE DEF new
<1>2. CASE Q = {}
  <2>1. s = d /\ PreparedTerms(i) = {}
    BY <1>2 DEF PreparedState, PreparedTerms
  <2>2. Prepared(i, s, PreparedTerms(i))
    <3> HIDE DEF s, d
    <3> QED
      BY <1>1, <2>1 DEF Prepared, new
  <2> QED
    BY <2>1, <2>2
<1>3. CASE Q # {}
  <2> DEFINE T == Max(Q)
             V == d.bitmap[T]
  <2>1. Q \in SUBSET Term
    BY DEF QuorumTerms
  <2>2. T \in Q
    <3> HIDE DEF Q
    <3>1. IsFiniteSet(Q) /\ Q \in SUBSET Int
      BY <2>1, TermSets
    <3> QED
      BY <1>3, <3>1, MaxOfFinite
  <2>3. s = CommitUpTo(d, T) /\ PreparedTerms(i) = NewlyCommitted(d, T)
    BY <1>3 DEF PreparedState, PreparedTerms
  <2>4. Pending(d, T) /\ Cardinality(V) >= Majority /\ T \in Term /\ T \in Nat
    BY <2>2, TermFacts DEF QuorumTerms, CheckQuorum
  <2>5. T < tc
    <3> HIDE DEF T, d
    <3> QED
      BY <1>1, <2>4 DEF WellFormed, Held
  <2> HIDE DEF d, Q, T, s
  <2>6. V \subseteq {i} \cup Turns(T, round_num)
    <3>1. states[i].bitmap[T] \subseteq {i} \cup Turns(T, round_num)
      BY <2>4 DEF EvidenceInv, VotesTakeRounds
    <3>2. V \subseteq states[i].bitmap[T] \cup {i}
      BY <1>1, <2>4 DEF Casts
    <3> QED
      BY <3>1, <3>2
  <2>7. term_counter <= round_num /\ (Generating => term_counter = round_num)
    BY <1>0, NumProposalsAssumption DEF EvidenceInv, Schedule, Generating
  <2>8. T <= round_num
    BY <1>0, <2>4, <2>5, <2>7
  <2>9. /\ IsFiniteSet(V) /\ Cardinality(V) \in Nat
        /\ Cardinality(V) <= (round_num - T) + 1
    <3> HIDE DEF V
    <3> QED
      BY <1>0, <2>4, <2>6, <2>8, TurnsAreFew
  <2>10. N \div 2 \in Nat /\ N \div 2 >= 1 /\ Majority = N \div 2 + 1
    BY NAssumption DEF Majority
  <2>11. round_num >= T + N \div 2
    BY <1>0, <2>4, <2>9, <2>10
  <2>12. T # term_counter \/ ~Generating
    BY <1>0, <2>4, <2>7, <2>10, <2>11
  <2>13. Pending(states[i], T)
    BY <1>1, <2>4, <2>12 DEF Casts, new
  <2>14. i \in Reached(states, T)
    BY <2>4, <2>13 DEF EvidenceInv, PendingIsSeen, Reached
  <2>15. V \subseteq Reached(states, T)
    <3> SUFFICES ASSUME NEW j \in V, j # i
                 PROVE  j \in Reached(states, T)
      BY <2>14
    <3>1. j \in states[i].bitmap[T]
      BY <1>1, <2>4 DEF Casts
    <3>2. j \in Node
      BY <1>0, <2>4, <3>1, NodeStateFacts
    <3> QED
      BY <2>4, <3>1, <3>2 DEF EvidenceInv, QuorumsHaveEvidence, VotesAreOverheard, Reached
  <2>16. Cardinality(Reached(states, T)) >= Majority
    <3>1. \A j \in Node : UnwrapOr0(states[j].highest_seen_term) \in Nat
      BY <1>0, NodeStateFacts, UnwrappedIsNat
    <3>2. /\ Cardinality(Reached(states, T)) >= Cardinality(V)
          /\ Cardinality(Reached(states, T)) \in Nat
      BY <1>0, <2>4, <2>15, <3>1, ReachedGrows
    <3> QED
      BY <2>4, <2>9, <2>10, <3>2
  <2>17. Casts(d, s, i, -1, {}, new)
    BY <1>1, <2>3, <2>4, CommitCasts
  <2>18. s \in NodePaxosState /\ s.last_accepted = IF d.last_accepted >= T THEN d.last_accepted ELSE T
    BY <1>0, <1>1, <2>3, <2>4, <2>5, CommitRaises, CommitKeepsWellFormed DEF WellFormed
  <2>19. Casts(states[i], s, i, -1, {}, new)
    BY <1>0, <1>1, <2>17, <2>18, CastsTransitive
  <2>20. /\ \A t \in PreparedTerms(i) : t <= T
         /\ \A t \in Term : t <= T => t \in PreparedTerms(i) \/ t <= states[i].last_accepted
    BY <1>1, <2>3 DEF NewlyCommitted, WellFormed
  <2>21. PreparedTerms(i) \in SUBSET Term
    BY <2>3 DEF NewlyCommitted
  <2>22. Prepared(i, s, PreparedTerms(i))
    BY <1>1, <2>4, <2>11, <2>16, <2>18, <2>19, <2>20 DEF Prepared, new
  <2> QED
    BY <2>21, <2>22 DEF s
<1> QED
  BY <1>2, <1>3

-----------------------------------------------------------------------------
\* What nodes have seen, as numbers.
LEMMA SeenTerms ==
    ASSUME NEW st \in [Node -> NodePaxosState]
    PROVE  \A j \in Node : /\ UnwrapOr0(st[j].highest_seen_term) \in Nat
                           /\ st[j].last_accepted \in Int
                           /\ st[j].bitmap \in [Term -> SUBSET Node]
BY NodeStateFacts, UnwrappedIsNat

\* prepare_round keeps the schedule, the evidence and the reports.
LEMMA PrepareEvidence ==
    ASSUME EvidenceInv, PrepareRound
    PROVE  EvidenceInv'
<1> DEFINE i == Initiator
           s == PreparedState(i)
           newly == PreparedTerms(i)
           term == IF Generating THEN term_counter ELSE term_counter - 1
           starts == IF Generating THEN [proposal_starts EXCEPT ![term] = round_num] ELSE proposal_starts
           seen(st, j) == UnwrapOr0(st[j].highest_seen_term)
<1>1. /\ pc = "prepare" /\ pc' = "flood"
      /\ states' = [states EXCEPT ![i] = s]
      /\ proposal_starts' = starts
      /\ RecordCommitted(newly, proposal_starts', round_num)
      /\ payload'.current_term = term
      /\ payload'.last_accepted_term = s.last_accepted
      /\ payload'.flags_bitmap = s.bitmap[term] \cup {i}
      /\ term_counter' = IF Generating THEN term_counter + 1 ELSE term_counter
      /\ UNCHANGED <<round_num, heard, stopped_by>>
  BY DEF PrepareRound, PreparedState, PreparedTerms
<1>2. PipelineInv /\ PipelineInv'
  BY PrepareStep DEF EvidenceInv
<1>3. /\ i \in Node /\ round_num \in Nat /\ term_counter \in Nat /\ term_counter <= NumProposals
      /\ states \in [Node -> NodePaxosState] /\ states' \in [Node -> NodePaxosState]
      /\ stopped_by = "none" /\ Initiator' = i
      /\ proposal_starts \in [Term -> Nat \cup {None}]
  <2>1. round_num \in Nat /\ stopped_by = "none"
    BY <1>1 DEF EvidenceInv, LoopInv, LoopTypeOK
  <2>2. Initiator' = Initiator
    BY <1>1 DEF Initiator
  <2> QED
    BY <1>2, <2>1, <2>2, InitiatorIsNode, NumProposalsAssumption DEF PipelineInv, TypeOK, Initiator
<1>4. LoopInv'
  BY <1>1 DEF EvidenceInv, LoopInv, LoopTypeOK
<1>5. Prepared(i, s, newly) /\ newly \in SUBSET Term
  BY <1>1, <1>3, InitiatorIsPrepared
<1>6. /\ Generating => term_counter = round_num /\ term_counter \in Term /\ term = term_counter
      /\ ~Generating => term_counter = NumProposals /\ round_num >= NumProposals
                        /\ term = term_counter - 1
      /\ term \in Term
  BY <1>1, <1>3, NumProposalsAssumption DEF EvidenceInv, Schedule, Generating, Term
<1>7. \A j \in Node : states'[j] = IF j = i THEN s ELSE states[j]
  BY <1>1, <1>3
<1>8. \A t \in Term : t \in Nat
  BY TermFacts
<1>9. \A j \in Node : /\ seen(states, j) \in Nat /\ seen(states', j) \in Nat
                      /\ seen(states', j) >= seen(states, j)
                      /\ states[j].last_accepted \in Int /\ states'[j].last_accepted \in Int
  <2>1. \A j \in Node : /\ seen(states, j) \in Nat /\ seen(states', j) \in Nat
                        /\ states[j].last_accepted \in Int /\ states'[j].last_accepted \in Int
    BY <1>3, SeenTerms
  <2>2. seen(states', i) >= seen(states, i)
    BY <1>3, <1>5, <1>7 DEF Prepared, Casts
  <2> HIDE DEF s, i
  <2> QED
    BY <1>7, <2>1, <2>2
<1>10. ASSUME NEW j \in Node, NEW t \in Term
       PROVE  /\ states'[j].bitmap[t] \subseteq states[j].bitmap[t] \cup {j}
              /\ Pending(states'[j], t) =>
                    Pending(states[j], t) \/ (j = i /\ Generating /\ t = term_counter)
  <2>1. CASE j = i
    <3>1. states'[j] = s
      BY <1>7, <2>1
    <3> HIDE DEF s
    <3> QED
      BY <1>5, <1>8, <2>1, <3>1 DEF Prepared, Casts
  <2>2. CASE j # i
    BY <1>7, <2>2
  <2> QED
    BY <2>1, <2>2
<1> HIDE DEF s, newly, i, term
<1>11. /\ term_counter' \in Nat /\ term = term_counter' - 1
       /\ term_counter' = IF round_num < NumProposals THEN round_num + 1 ELSE NumProposals
  BY <1>1, <1>3, <1>6, NumProposalsAssumption DEF Generating
<1>12. \A t \in Term : starts[t] = IF t < term_counter' THEN t ELSE None
  <2>1. \A t \in Term : proposal_starts[t] = IF t < term_counter THEN t ELSE None
    BY DEF EvidenceInv, Schedule
  <2> QED
    BY <1>1, <1>3, <1>6, <1>8, <2>1 DEF Generating, Term
<1> HIDE DEF starts
<1>13. Schedule'
  <2>1. states'[i] = s
    BY <1>3, <1>7
  <2>2. payload'.last_accepted_term = states'[i].last_accepted
    BY <1>1, <2>1
  <2>3. payload'.flags_bitmap = states'[i].bitmap[payload'.current_term] \cup {i}
    BY <1>1, <2>1
  <2> QED
    BY <1>1, <1>3, <1>11, <1>12, <2>2, <2>3 DEF Schedule
<1>14. PendingIsSeen'
  <2> SUFFICES ASSUME NEW j \in Node, NEW t \in Term, Pending(states'[j], t)
               PROVE  \/ seen(states', j) >= t
                      \/ pc' \in {"flood", "process"} /\ j = i /\ t = payload'.current_term
    BY <1>3 DEF PendingIsSeen
  <2>1. CASE Pending(states[j], t)
    <3>1. seen(states, j) >= t
      BY <1>1, <2>1 DEF EvidenceInv, PendingIsSeen
    <3> QED
      BY <1>8, <1>9, <3>1
  <2>2. CASE ~Pending(states[j], t)
    BY <1>1, <1>6, <1>10, <2>2
  <2> QED
    BY <2>1, <2>2
<1>15. VotesTakeRounds'
  <2> SUFFICES ASSUME NEW j \in Node
               PROVE  /\ \A t \in Term : states'[j].bitmap[t] \subseteq {j} \cup Turns(t, round_num)
                      /\ states'[j].last_accepted # None =>
                            round_num >= states'[j].last_accepted + N \div 2
    BY <1>1 DEF VotesTakeRounds, Turns
  <2>1. /\ \A t \in Term : states[j].bitmap[t] \subseteq {j} \cup Turns(t, round_num)
        /\ states[j].last_accepted # None => round_num >= states[j].last_accepted + N \div 2
    BY <1>1 DEF EvidenceInv, VotesTakeRounds
  <2>2. \A t \in Term : states'[j].bitmap[t] \subseteq {j} \cup Turns(t, round_num)
    BY <1>10, <2>1
  <2>3. states'[j].last_accepted = states[j].last_accepted
        \/ round_num >= states'[j].last_accepted + N \div 2
    BY <1>5, <1>7 DEF Prepared
  <2> QED
    BY <2>1, <2>2, <2>3
<1>16. VotesAreOverheard'
  <2> SUFFICES ASSUME NEW k \in Node, NEW j \in Node, NEW t \in Term,
                      j # k, j \in states'[k].bitmap[t]
               PROVE  seen(states', j) >= t
    BY DEF VotesAreOverheard
  <2>1. j \in states[k].bitmap[t]
    BY <1>10
  <2>2. seen(states, j) >= t
    BY <2>1 DEF EvidenceInv, QuorumsHaveEvidence, VotesAreOverheard
  <2> QED
    BY <1>8, <1>9, <2>2
<1>17. MajorityBehindAccepted'
  <2> SUFFICES ASSUME NEW k \in Node, states'[k].last_accepted # None
               PROVE  Cardinality(Reached(states', states'[k].last_accepted)) >= Majority
    BY DEF MajorityBehindAccepted, Reached
  <2>1. \E x \in Int : states'[k].last_accepted = x /\ Cardinality(Reached(states, x)) >= Majority
    <3>1. CASE states'[k].last_accepted = states[k].last_accepted
      BY <1>9, <3>1 DEF EvidenceInv, QuorumsHaveEvidence, MajorityBehindAccepted, Reached
    <3>2. CASE states'[k].last_accepted # states[k].last_accepted
      <4>1. k = i
        BY <1>7, <3>2
      <4>2. PICK T \in Term :
                /\ s.last_accepted = IF states[i].last_accepted >= T THEN states[i].last_accepted ELSE T
                /\ Cardinality(Reached(states, T)) >= Majority
        BY <1>5, <1>7, <3>2, <4>1 DEF Prepared
      <4>3. states'[k].last_accepted = T /\ T \in Int
        BY <1>7, <1>8, <3>2, <4>1, <4>2
      <4> QED
        BY <4>2, <4>3
    <3> QED
      BY <3>1, <3>2
  <2>2. PICK x \in Int : states'[k].last_accepted = x /\ Cardinality(Reached(states, x)) >= Majority
    BY <2>1
  <2>3. /\ Cardinality(Reached(states, x)) \in Nat /\ Cardinality(Reached(states', x)) \in Nat
        /\ Cardinality(Reached(states', x)) >= Cardinality(Reached(states, x))
    BY <1>3, <1>9, ReachedGrows
  <2>4. Majority \in Nat
    BY NAssumption DEF Majority
  <2> QED
    BY <2>2, <2>3, <2>4
<1>18. \A t \in newly : t < term_counter' /\ round_num >= t + N \div 2
  <2> SUFFICES ASSUME NEW t \in newly
               PROVE  t < term_counter' /\ round_num >= t + N \div 2
    OBVIOUS
  <2>1. PICK T \in Term :
            /\ s.last_accepted = IF states[i].last_accepted >= T THEN states[i].last_accepted ELSE T
            /\ t <= T /\ round_num >= T + N \div 2
    BY <1>5 DEF Prepared
  <2>2. s.last_accepted < term_counter' /\ s.last_accepted \in Int
    BY <1>2, <1>3, <1>7, <1>9 DEF PipelineInv, WellFormed
  <2>3. t \in Nat /\ T \in Nat /\ N \div 2 \in Nat
    BY <1>5, <1>8, NAssumption
  <2> QED
    BY <1>3, <1>9, <1>11, <2>1, <2>2, <2>3
<1>19. Accepted(states') = Accepted(states) \cup newly
  <2>1. ASSUME NEW t \in Accepted(states') PROVE t \in Accepted(states) \cup newly
    <3>1. PICK k \in Node : t <= states'[k].last_accepted
      BY DEF Accepted
    <3>2. t \in Term /\ t \in Nat
      BY <1>8 DEF Accepted
    <3>3. CASE t <= states[k].last_accepted
      BY <3>2, <3>3 DEF Accepted
    <3>4. CASE ~(t <= states[k].last_accepted)
      <4>1. k = i
        BY <1>7, <3>1, <3>4
      <4>2. PICK T \in Term :
              /\ s.last_accepted = IF states[i].last_accepted >= T THEN states[i].last_accepted ELSE T
              /\ \A u \in Term : u <= T => u \in newly \/ u <= states[i].last_accepted
        BY <1>5, <1>7, <3>1, <3>4, <4>1 DEF Prepared
      <4>3. t <= T
        BY <1>7, <3>1, <3>4, <4>1, <4>2
      <4> QED
        BY <3>2, <3>4, <4>1, <4>2, <4>3
    <3> QED
      BY <3>3, <3>4
  <2>2. ASSUME NEW t \in Accepted(states) PROVE t \in Accepted(states')
    <3>1. PICK k \in Node : t <= states[k].last_accepted
      BY DEF Accepted
    <3>2. t \in Term /\ t \in Nat
      BY <1>8 DEF Accepted
    <3>3. states'[k].last_accepted >= states[k].last_accepted
      BY <1>1, <1>2, PrepareStep DEF Monotone, Grows
    <3> QED
      BY <1>9, <3>1, <3>2, <3>3 DEF Accepted
  <2>3. ASSUME NEW t \in newly PROVE t \in Accepted(states')
    <3>1. PICK T \in Term :
            /\ s.last_accepted = IF states[i].last_accepted >= T THEN states[i].last_accepted ELSE T
            /\ t <= T
      BY <1>5 DEF Prepared
    <3>2. t \in Term /\ t \in Nat /\ T \in Nat
      BY <1>5, <1>8
    <3>3. t <= states'[i].last_accepted
      BY <1>3, <1>7, <1>9, <3>1, <3>2
    <3> QED
      BY <1>3, <3>2, <3>3 DEF Accepted
  <2> QED
    BY <2>1, <2>2, <2>3
<1>20. CommittedIsPrefix' /\ RecordedOnce'
  <2>1. CommittedIsPrefix /\ RecordedOnce
    BY DEF EvidenceInv, ReportSound
  <2>2. \A t \in globally_committed : starts[t] = proposal_starts[t]
    <3> SUFFICES ASSUME NEW t \in globally_committed
                 PROVE  starts[t] = proposal_starts[t]
      OBVIOUS
    <3>1. PICK k \in Node : t \in Term /\ t <= states[k].last_accepted
      BY <2>1 DEF CommittedIsPrefix
    <3>2. states[k].last_accepted < term_counter
      BY <1>2 DEF PipelineInv, WellFormed
    <3>3. t < term_counter /\ t < term_counter'
      BY <1>1, <1>3, <1>8, <1>9, <3>1, <3>2
    <3> QED
      BY <1>12, <3>1, <3>3 DEF EvidenceInv, Schedule
  <2>3. \A t \in newly : starts[t] = t
    BY <1>5, <1>12, <1>18
  <2>4. RecordCommitted(newly, starts, round_num)
    BY <1>1
  <2> QED
    <3>1. proposal_starts' = starts /\ newly \in SUBSET Term /\ round_num \in Nat
      BY <1>1, <1>3, <1>5
    <3> HIDE DEF seen
    <3> QED
      BY <3>1, <1>19, <2>1, <2>2, <2>3, <2>4, ReportsKept
<1>21. NoEarlyCommit'
  <2>1. \A t \in newly \ globally_committed : starts[t] = t /\ round_num >= t + N \div 2
    BY <1>5, <1>12, <1>18
  <2>2. RecordCommitted(newly, starts, round_num)
    BY <1>1
  <2> QED
    BY <1>3, <1>5, <2>1, <2>2, LatenessKept DEF EvidenceInv, QuorumsHaveEvidence
<1>22. StopSound'
  BY <1>1, <1>3 DEF StopSound
<1> QED
  BY <1>2, <1>4, <1>13, <1>14, <1>15, <1>16, <1>17, <1>20, <1>21, <1>22
  DEF EvidenceInv, QuorumsHaveEvidence, ReportSound

\* process_round keeps the schedule, the evidence and the reports, whoever heard the flood.
LEMMA ProcessEvidence ==
    ASSUME EvidenceInv, ProcessRound
    PROVE  EvidenceInv'
<1> DEFINE i == Initiator
           c == payload.current_term
           L == payload.last_accepted_term
           flags == payload.flags_bitmap
           R(j) == Recover(j, Overhear(j, states[j], payload), payload)
           newly == IF L = None THEN {} ELSE UNION {NewlyCommitted(states[j], L) : j \in heard}
           seen(st, j) == UnwrapOr0(st[j].highest_seen_term)
<1>1. /\ pc = "process"
      /\ \A j \in Node : states'[j] = IF j \in heard THEN R(j) ELSE states[j]
      /\ RecordCommitted(newly, proposal_starts, round_num + 1)
      /\ goal_reached' = [j \in Node |-> LogLen(states'[j]) = NumProposals]
      /\ EndRound(StopReason)
      /\ UNCHANGED <<term_counter, proposal_starts, payload>>
  BY DEF ProcessRound
<1>2. PipelineInv /\ PipelineInv' /\ Monotone
  BY ProcessStep DEF EvidenceInv
<1>3. /\ StopReason \in StopReasons
      /\ StopReason = "all_done" => AllCommitted
      /\ StopReason = "drained" => globally_committed' = Term
  BY DEF StopReason, StopReasons
<1>4. /\ LoopInv' /\ pc' \in {"prepare", "stopped"} /\ round_num' \in {round_num, round_num + 1}
      /\ pc' = "prepare" => round_num' = round_num + 1
      /\ stopped_by' \in {StopReason, "max_rounds"}
  BY <1>1, <1>3, EndRoundStep DEF EvidenceInv
<1>5. /\ i \in Node /\ i \in heard /\ heard \in SUBSET Node /\ round_num \in Nat
      /\ term_counter \in Nat
      /\ states \in [Node -> NodePaxosState] /\ states' \in [Node -> NodePaxosState]
      /\ payload \in Packet /\ GoodPacket(payload, term_counter)
      /\ GoodPiggyback(payload.piggyback, term_counter)
      /\ \A j \in Node : WellFormed(states[j], term_counter)
  BY <1>1, <1>2, InitiatorIsNode, NumProposalsAssumption
  DEF EvidenceInv, LoopInv, LoopTypeOK, PipelineInv, TypeOK, Initiator
<1>6. /\ c = term_counter - 1 /\ c \in Term /\ c \in Nat /\ c <= round_num
      /\ L = states[i].last_accepted
      /\ flags = states[i].bitmap[c] \cup {i}
      /\ term_counter = IF round_num < NumProposals THEN round_num + 1 ELSE NumProposals
      /\ \A t \in Term : proposal_starts[t] = IF t < term_counter THEN t ELSE None
  <2>1. c \in Term /\ c \in Nat
    BY <1>5, PacketFacts, TermFacts
  <2>2. /\ c = term_counter - 1 /\ L = states[i].last_accepted
        /\ flags = states[i].bitmap[c] \cup {i}
        /\ term_counter = IF round_num < NumProposals THEN round_num + 1 ELSE NumProposals
        /\ \A t \in Term : proposal_starts[t] = IF t < term_counter THEN t ELSE None
    BY <1>1 DEF EvidenceInv, Schedule
  <2> QED
    BY <1>5, <2>1, <2>2, NumProposalsAssumption
<1>7. \A j \in Node : Served(states[j], R(j), j, payload)
  BY <1>5, <1>6, ParticipantIsServed
<1>8. newly \in SUBSET Term /\ \A t \in newly : t <= L
  BY DEF NewlyCommitted
<1> HIDE DEF R, newly, i, c, L, flags
<1>9. \A t \in Term : t \in Nat
  BY TermFacts
<1>10. \A j \in Node : /\ seen(states, j) \in Nat /\ seen(states', j) \in Nat
                       /\ states[j].last_accepted \in Int /\ states'[j].last_accepted \in Int
  BY <1>5, SeenTerms
<1>11. ASSUME NEW j \in Node
       PROVE  /\ seen(states', j) >= seen(states, j)
              /\ j \in heard => seen(states', j) >= c
              /\ states'[j].last_accepted \in {states[j].last_accepted, L}
  <2>1. CASE j \in heard
    <3>1. Served(states[j], states'[j], j, payload)
      BY <1>1, <1>7, <2>1
    <3> QED
      BY <3>1 DEF Served, Casts, c, L
  <2>2. CASE j \notin heard
    BY <1>1, <1>10, <2>2
  <2> QED
    BY <2>1, <2>2
<1>12. ASSUME NEW j \in Node, NEW t \in Term
       PROVE  /\ states'[j].bitmap[t] \subseteq
                    states[j].bitmap[t] \cup {j} \cup (IF t <= c THEN flags ELSE {})
              /\ Pending(states'[j], t) => Pending(states[j], t) \/ (j \in heard /\ t <= c)
  <2>1. CASE j \in heard
    <3>1. Served(states[j], states'[j], j, payload)
      BY <1>1, <1>7, <2>1
    <3> QED
      BY <2>1, <3>1 DEF Served, Casts, c, flags
  <2>2. CASE j \notin heard
    BY <1>1, <2>2
  <2> QED
    BY <2>1, <2>2
<1>13. Schedule'
  <2>1. pc' = "prepare" =>
           term_counter = IF round_num' < NumProposals THEN round_num' ELSE NumProposals
    BY <1>4, <1>5, <1>6, NumProposalsAssumption
  <2> QED
    BY <1>1, <1>4, <1>6, <2>1 DEF Schedule
<1>14. PendingIsSeen'
  <2> SUFFICES ASSUME NEW j \in Node, NEW t \in Term, Pending(states'[j], t)
               PROVE  seen(states', j) >= t
    BY DEF PendingIsSeen
  <2>1. CASE j \in heard /\ t <= c
    BY <1>6, <1>9, <1>10, <1>11, <2>1
  <2>2. CASE ~(j \in heard /\ t <= c)
    <3>1. Pending(states[j], t)
      BY <1>12, <2>2
    <3>2. seen(states, j) >= t \/ (j = i /\ t = c)
      BY <3>1 DEF EvidenceInv, PendingIsSeen, i, c
    <3>3. seen(states, j) >= t
      BY <1>5, <1>6, <2>2, <3>2
    <3> QED
      BY <1>9, <1>10, <1>11, <3>3
  <2> QED
    BY <2>1, <2>2
<1>15. ASSUME pc' # "stopped"
       PROVE  VotesTakeRounds'
  <2>1. round_num' = round_num + 1
    BY <1>4, <1>15
  <2> SUFFICES ASSUME NEW j \in Node
               PROVE  /\ \A t \in Term : states'[j].bitmap[t] \subseteq {j} \cup Turns(t, round_num + 1)
                      /\ states'[j].last_accepted # None =>
                            round_num + 1 >= states'[j].last_accepted + N \div 2
    BY <2>1 DEF VotesTakeRounds, Turns
  <2>2. \A k \in Node :
          /\ \A t \in Term : states[k].bitmap[t] \subseteq {k} \cup Turns(t, round_num)
          /\ states[k].last_accepted # None => round_num >= states[k].last_accepted + N \div 2
    BY <1>1 DEF EvidenceInv, VotesTakeRounds
  <2>3. ASSUME NEW t \in Term
        PROVE  states'[j].bitmap[t] \subseteq {j} \cup Turns(t, round_num + 1)
    <3>1. Turns(t, round_num) \subseteq Turns(t, round_num + 1)
      BY <1>5, <1>9 DEF Turns
    <3>2. t <= c => flags \subseteq Turns(t, round_num + 1)
      <4> SUFFICES ASSUME t <= c PROVE flags \subseteq Turns(t, round_num + 1)
        OBVIOUS
      <4>1. flags \subseteq {i} \cup Turns(c, round_num)
        BY <1>5, <1>6, <2>2
      <4>2. Turns(c, round_num) \cup {InitiatorOf(round_num)} \subseteq Turns(t, round_num + 1)
        BY <1>5, <1>6, <1>9, TurnsGrow
      <4> QED
        BY <4>1, <4>2 DEF i, Initiator
    <3> QED
      BY <1>12, <2>2, <3>1, <3>2
  <2>4. states'[j].last_accepted # None => round_num >= states'[j].last_accepted + N \div 2
    BY <1>5, <1>6, <1>11, <2>2
  <2>5. N \div 2 \in Nat
    BY NAssumption
  <2>6. states'[j].last_accepted # None => round_num + 1 >= states'[j].last_accepted + N \div 2
    BY <1>5, <1>10, <2>4, <2>5
  <2> QED
    BY <2>3, <2>6
<1>16. VotesTakeRounds'
  BY <1>15 DEF VotesTakeRounds
<1>17. VotesAreOverheard'
  <2> SUFFICES ASSUME NEW k \in Node, NEW j \in Node, NEW t \in Term,
                      j # k, j \in states'[k].bitmap[t]
               PROVE  seen(states', j) >= t
    BY DEF VotesAreOverheard
  <2>1. \A m \in Node, u \in Term : j # m /\ j \in states[m].bitmap[u] => seen(states, j) >= u
    BY DEF EvidenceInv, QuorumsHaveEvidence, VotesAreOverheard
  <2>2. CASE j \in states[k].bitmap[t]
    BY <1>9, <1>10, <1>11, <2>1, <2>2
  <2>3. CASE j \notin states[k].bitmap[t]
    <3>1. t <= c /\ j \in states[i].bitmap[c] \cup {i}
      BY <1>6, <1>12, <2>3
    <3>2. seen(states', j) >= c
      <4>1. CASE j = i
        BY <1>5, <1>11, <4>1
      <4>2. CASE j # i
        <5>1. seen(states, j) >= c
          BY <1>5, <1>6, <2>1, <3>1, <4>2
        <5> QED
          BY <1>6, <1>10, <1>11, <5>1
      <4> QED
        BY <4>1, <4>2
    <3>3. seen(states', j) \in Nat /\ t \in Nat /\ c \in Nat /\ t <= c
      BY <1>6, <1>9, <1>10, <3>1
    <3> HIDE DEF seen
    <3> QED
      BY <3>2, <3>3
  <2> QED
    BY <2>2, <2>3
<1>18. MajorityBehindAccepted'
  <2> SUFFICES ASSUME NEW k \in Node, states'[k].last_accepted # None
               PROVE  Cardinality(Reached(states', states'[k].last_accepted)) >= Majority
    BY DEF MajorityBehindAccepted, Reached
  <2>1. PICK m \in Node : states'[k].last_accepted = states[m].last_accepted
    BY <1>5, <1>6, <1>11
  <2> DEFINE x == states[m].last_accepted
  <2>2. x \in Int /\ Cardinality(Reached(states, x)) >= Majority
    BY <1>10, <2>1 DEF EvidenceInv, QuorumsHaveEvidence, MajorityBehindAccepted, Reached
  <2> HIDE DEF x
  <2>3. /\ Cardinality(Reached(states, x)) \in Nat /\ Cardinality(Reached(states', x)) \in Nat
        /\ Cardinality(Reached(states', x)) >= Cardinality(Reached(states, x))
    BY <1>5, <1>11, <2>2, ReachedGrows
  <2>4. Majority \in Nat
    BY NAssumption DEF Majority
  <2>5. Cardinality(Reached(states', x)) >= Majority
    BY <2>2, <2>3, <2>4
  <2> QED
    BY <2>1, <2>5 DEF x
<1>19. CommittedIsPrefix /\ RecordedOnce /\ globally_committed = Accepted(states)
  BY DEF EvidenceInv, ReportSound, CommittedIsPrefix, Accepted
<1>20. newly \subseteq Accepted(states)
  BY <1>5, <1>6, <1>8 DEF Accepted
<1>21. Accepted(states') = Accepted(states)
  <2>1. ASSUME NEW t \in Accepted(states') PROVE t \in Accepted(states)
    <3>1. PICK k \in Node : t \in Term /\ t <= states'[k].last_accepted
      BY DEF Accepted
    <3> QED
      BY <1>5, <1>6, <1>11, <3>1 DEF Accepted
  <2>2. ASSUME NEW t \in Accepted(states) PROVE t \in Accepted(states')
    <3>1. PICK k \in Node : t \in Term /\ t <= states[k].last_accepted
      BY DEF Accepted
    <3>2. states'[k].last_accepted >= states[k].last_accepted
      BY <1>2 DEF Monotone, Grows
    <3>3. t <= states'[k].last_accepted
      BY <1>9, <1>10, <3>1, <3>2
    <3> QED
      BY <3>1, <3>3 DEF Accepted
  <2> QED
    BY <2>1, <2>2
<1>22. CommittedIsPrefix' /\ RecordedOnce'
  <2>1. \A t \in newly : proposal_starts[t] = t
    <3> SUFFICES ASSUME NEW t \in newly PROVE proposal_starts[t] = t
      OBVIOUS
    <3>1. t \in Nat /\ t \in Term /\ t <= L
      BY <1>8, <1>9
    <3>2. L < term_counter /\ L \in Int
      BY <1>5, <1>6, <1>10 DEF WellFormed
    <3> QED
      BY <1>5, <1>6, <3>1, <3>2
  <2>2. /\ proposal_starts' = proposal_starts
        /\ RecordCommitted(newly, proposal_starts, round_num + 1) /\ round_num + 1 \in Nat
        /\ newly \in SUBSET Term
    BY <1>1, <1>5, <1>8
  <2>3. Accepted(states') = Accepted(states) \cup newly
    BY <1>20, <1>21
  <2> HIDE DEF seen
  <2> QED
    BY <1>19, <2>1, <2>2, <2>3, ReportsKept
<1>23. NoEarlyCommit'
  <2>1. newly \ globally_committed = {}
    BY <1>19, <1>20
  <2>2. NoEarlyCommit /\ records' = records
    BY <1>1, <2>1 DEF EvidenceInv, QuorumsHaveEvidence, RecordCommitted
  <2> QED
    BY <2>2 DEF NoEarlyCommit
<1>24. StopSound'
  <2>1. ASSUME stopped_by' = "all_done"
        PROVE  /\ \A j \in Node : LogComplete(states'[j]) /\ goal_reached'[j]
               /\ globally_committed' = Term
    <3>1. \A j \in Node : LogComplete(states'[j])
      BY <1>3, <1>4, <2>1 DEF AllCommitted
    <3>2. Cardinality(Term) = NumProposals
      BY NumProposalsAssumption, FS_Interval DEF Term
    <3>3. \A j \in Node : goal_reached'[j]
      <4> SUFFICES ASSUME NEW j \in Node PROVE goal_reached'[j]
        OBVIOUS
      <4>1. {t \in Term : Committed(states'[j], t)} = Term
        BY <3>1 DEF LogComplete
      <4>2. LogLen(states'[j]) = NumProposals
        BY <3>2, <4>1 DEF LogLen
      <4> QED
        BY <1>1, <4>2
    <3>4. \A t \in Term : t <= states'[i].last_accepted
      BY <1>2, <1>5, <3>1 DEF PipelineInv, WellFormed, LogComplete
    <3>5. globally_committed' = Term
      BY <1>5, <1>22, <3>4 DEF CommittedIsPrefix
    <3> QED
      BY <3>1, <3>3, <3>5
  <2>2. stopped_by' = "drained" => globally_committed' = Term
    BY <1>3, <1>4
  <2> QED
    BY <2>1, <2>2 DEF StopSound
<1> QED
  BY <1>2, <1>4, <1>13, <1>14, <1>16, <1>17, <1>18, <1>22, <1>23, <1>24
  DEF EvidenceInv, QuorumsHaveEvidence, ReportSound

\* A flood, the end of the slots, and steps that change nothing keep all of it.
LEMMA LoopEvidence ==
    ASSUME EvidenceInv, UNCHANGED paxos_vars,
           FloodIdentical \/ OutOfSlots \/ UNCHANGED loop_vars
    PROVE  EvidenceInv'
<1>1. PipelineInv'
  BY LoopStep, StutterStep DEF EvidenceInv, vars
<1>2. LoopInv' /\ Initiator' = Initiator /\ round_num' = round_num
  <2>1. CASE FloodIdentical
    BY <2>1, FloodStep DEF EvidenceInv, FloodIdentical
  <2>2. CASE OutOfSlots
    BY <2>2, SlotsStep DEF EvidenceInv, OutOfSlots
  <2>3. CASE UNCHANGED loop_vars
    BY <2>3 DEF EvidenceInv, LoopInv, LoopTypeOK, Initiator, loop_vars
  <2> QED
    BY <2>1, <2>2, <2>3
<1>3. /\ pc' = pc \/ (pc = "flood" /\ pc' = "process") \/ (pc = "prepare" /\ pc' = "stopped")
      /\ stopped_by' \in {stopped_by, "max_slots"}
  BY DEF FloodIdentical, OutOfSlots, loop_vars
<1>4. /\ states' = states /\ term_counter' = term_counter /\ proposal_starts' = proposal_starts
      /\ globally_committed' = globally_committed /\ records' = records /\ payload' = payload
      /\ goal_reached' = goal_reached
  BY DEF paxos_vars
<1>5. Schedule' /\ PendingIsSeen' /\ VotesTakeRounds'
  BY <1>2, <1>3, <1>4 DEF EvidenceInv, Schedule, PendingIsSeen, VotesTakeRounds, Turns
<1>6. QuorumsHaveEvidence'
  BY <1>4 DEF EvidenceInv, QuorumsHaveEvidence, VotesAreOverheard, MajorityBehindAccepted,
     NoEarlyCommit
<1>7. CommittedIsPrefix' /\ RecordedOnce'
  BY <1>4 DEF EvidenceInv, ReportSound, CommittedIsPrefix, RecordedOnce
<1>8. StopSound'
  BY <1>3, <1>4 DEF EvidenceInv, ReportSound, StopSound
<1> QED
  BY <1>1, <1>2, <1>5, <1>6, <1>7, <1>8 DEF EvidenceInv, ReportSound

\* Before the first round there are no votes, nothing is accepted and nothing is reported.
LEMMA InitEvidence == Init => EvidenceInv
<1> SUFFICES ASSUME Init
             PROVE  EvidenceInv
  OBVIOUS
<1>1. PipelineInv /\ LoopInv
  BY InitPipelineInv, InitLoop DEF Init
<1>2. /\ pc = "prepare" /\ round_num = 0 /\ term_counter = 0 /\ stopped_by = "none"
      /\ globally_committed = {} /\ records = {}
      /\ \A t \in Term : t \in Nat /\ proposal_starts[t] = None
  BY TermFacts DEF Init, LoopInit
<1>3. \A i \in Node :
         /\ states[i].last_accepted = None
         /\ \A t \in Term : ~Pending(states[i], t) /\ states[i].bitmap[t] = {}
  BY DEF Init, NewPaxosState, Pending
<1>4. Schedule
  BY <1>2, NumProposalsAssumption DEF Schedule
<1>5. PendingIsSeen /\ VotesTakeRounds
  BY <1>3 DEF PendingIsSeen, VotesTakeRounds
<1>6. QuorumsHaveEvidence
  BY <1>2, <1>3 DEF QuorumsHaveEvidence, VotesAreOverheard, MajorityBehindAccepted, NoEarlyCommit
<1>7. CommittedIsPrefix
  BY <1>2, <1>3 DEF CommittedIsPrefix, None
<1>8. RecordedOnce /\ StopSound
  BY <1>2 DEF RecordedOnce, StopSound
<1> QED
  BY <1>1, <1>4, <1>5, <1>6, <1>7, <1>8 DEF EvidenceInv, ReportSound

(***************************************************************************)
(* EvidenceInv is an invariant: at any time the reports are exact, and     *)
(* behind every vote, quorum and accepted term stand nodes and rounds.     *)
(***************************************************************************)
THEOREM EvidenceInvariant == Spec => []EvidenceInv
<1>1. EvidenceInv /\ [Next]_vars => EvidenceInv'
  <2> SUFFICES ASSUME EvidenceInv, [Next]_vars
               PROVE  EvidenceInv'
    OBVIOUS
  <2>1. CASE PrepareRound
    BY <2>1, PrepareEvidence
  <2>2. CASE ProcessRound
    BY <2>2, ProcessEvidence
  <2>3. CASE FloodIdentical /\ UNCHANGED paxos_vars
    BY <2>3, LoopEvidence
  <2>4. CASE OutOfSlots /\ UNCHANGED paxos_vars
    BY <2>4, LoopEvidence
  <2>5. CASE UNCHANGED vars
    BY <2>5, LoopEvidence DEF vars
  <2> QED
    BY <2>1, <2>2, <2>3, <2>4, <2>5 DEF Next
<1> QED
  BY InitEvidence, <1>1, PTL DEF Spec

(***************************************************************************)
(* Votes are evidence, whatever recovery did to the bitmaps: a bit of      *)
(* another node stands for a flood it was in, an accepted term for a       *)
(* majority of such nodes, and no commit is reported sooner than N div 2   *)
(* rounds after its proposal (issue 257).                                  *)
(***************************************************************************)
THEOREM QuorumTheorem == Spec => []QuorumsHaveEvidence
<1>1. EvidenceInv => QuorumsHaveEvidence
  BY DEF EvidenceInv
<1> QED
  BY <1>1, EvidenceInvariant, PTL

(***************************************************************************)
(* The metrics are exact: the terms reported committed are those up to the *)
(* highest one accepted anywhere, each reported once with its own start,   *)
(* and the run stops as complete only when it is.                          *)
(***************************************************************************)
THEOREM ReportTheorem == Spec => []ReportSound
<1>1. EvidenceInv => ReportSound
  BY DEF EvidenceInv
<1> QED
  BY <1>1, EvidenceInvariant, PTL

=============================================================================
