------------------------- MODULE TwoPcPipelineProofs -------------------------
(***************************************************************************)
(* Theorems about TwoPcPipeline for every number of nodes and              *)
(* transactions, every topology, loss schedule and limit.  They rest on    *)
(* the pace of the loop: transaction t is opened in round t, so its        *)
(* proposer has its next turn in round t + N, exactly when the window of t *)
(* closes, and has decided and reported t before anyone else's copy can    *)
(* reach its bound.                                                        *)
(***************************************************************************)
EXTENDS TwoPcPipeline, FiniteIntegerSets

-----------------------------------------------------------------------------
(***************************************************************************)
(* What the round-robin loop keeps whatever the protocol does: its own     *)
(* variables keep their types, the initiator takes part in every flood,    *)
(* and a stop is for the protocol's reason, for the lack of slots or for   *)
(* the lack of rounds.                                                     *)
(***************************************************************************)

\* The nodes are a finite set of N integers.
LEMMA NodesAreFinite ==
    IsFiniteSet(Node) /\ Cardinality(Node) = N /\ Node # {} /\ Node \in SUBSET Int
<1>1. IsFiniteSet(Node) /\ Cardinality(Node) = N
  BY NAssumption, FS_Interval DEF Node
<1>2. 0 \in Node /\ Node \in SUBSET Int
  BY NAssumption DEF Node
<1> QED
  BY <1>1, <1>2

\* The round-robin turn always falls on a node.
LEMMA InitiatorIsNode ==
    ASSUME NEW r \in Nat
    PROVE  InitiatorOf(r) \in Node
BY NAssumption DEF InitiatorOf, Node

\* The turn comes back to the same node after N rounds.
LEMMA NextTurn ==
    ASSUME NEW r \in Nat
    PROVE  InitiatorOf(r + N) = InitiatorOf(r)
<1>1. N \in Nat /\ N > 0
  BY NAssumption
<1>2. (r + N) % N = r % N
  BY <1>1, TurnsReturn
<1> QED
  BY <1>2 DEF InitiatorOf

\* The loop starts in its types, at the head of round 0.
LEMMA InitLoop ==
    ASSUME LoopInit
    PROVE  LoopInv
BY DEF LoopInit, LoopInv, LoopTypeOK, StopReasons

\* A flood always includes the node it starts from.
LEMMA FloodStep ==
    ASSUME LoopInv, FloodIdentical
    PROVE  LoopInv' /\ heard' \in SUBSET Node /\ Initiator \in heard' /\ Initiator' = Initiator
BY DEF LoopInv, LoopTypeOK, FloodIdentical, FloodOutcomes, ConnectedAround, Initiator

\* Running out of slots ends the run at the head of a round, for that reason.
LEMMA SlotsStep ==
    ASSUME LoopInv, OutOfSlots
    PROVE  LoopInv' /\ Initiator' = Initiator
BY DEF LoopInv, LoopTypeOK, OutOfSlots, StopReasons, Initiator

\* The end of a round stops the loop for the reason given, or goes on, or is one round too many.
LEMMA EndRoundStep ==
    ASSUME LoopInv, NEW reason \in StopReasons, EndRound(reason)
    PROVE  /\ LoopInv'
           /\ pc' \in {"prepare", "stopped"} /\ round_num' \in {round_num, round_num + 1}
           /\ pc' = "prepare" => round_num' = round_num + 1
           /\ stopped_by' \in {reason, "max_rounds"}
<1>1. CASE reason # "none"
  BY <1>1 DEF EndRound, LoopInv, LoopTypeOK
<1>2. CASE reason = "none"
  <2>1. /\ heard' = {} /\ round_num' = round_num + 1
        /\ pc' = IF round_num' > MaxRounds THEN "stopped" ELSE "prepare"
        /\ stopped_by' = IF round_num' > MaxRounds THEN "max_rounds" ELSE "none"
    BY <1>2 DEF EndRound
  <2>2. /\ pc' \in {"prepare", "stopped"} /\ stopped_by' \in {"none", "max_rounds"}
        /\ pc' # "stopped" => stopped_by' = "none"
    BY <2>1
  <2>3. round_num \in Nat
    BY DEF LoopInv, LoopTypeOK
  <2> QED
    BY <1>2, <2>1, <2>2, <2>3 DEF LoopInv, LoopTypeOK, StopReasons
<1> QED
  BY <1>1, <1>2

-----------------------------------------------------------------------------

\* A round has been prepared and is not processed yet.
InRound == pc \in {"flood", "process"}

\* The node whose turn round t is, which opens transaction t (PaceInv).
Proposer(t) == InitiatorOf(t)

\* Transaction t is opened in round t, and the packet of a round is of the last one opened.
PaceInv ==
    /\ \A t \in Tx : tx_starts[t] = IF t < tx_counter THEN t ELSE None
    /\ pc = "prepare" => tx_counter = IF round_num < NumTxs THEN round_num ELSE NumTxs
    /\ InRound =>
          /\ tx_counter = IF round_num < NumTxs THEN round_num + 1 ELSE NumTxs
          /\ payload.transaction_id = tx_counter - 1
          /\ payload.has_data => payload.transaction_id = round_num

\* What the state s of node i may say of transaction t.
NodeInv(i, s, t) ==
    /\ Known(s, t) => t < tx_counter
    /\ s.pending[t] => ~Finalized(s, t) /\ s.start[t] = t
    /\ Finalized(s, t) => t \in recorded
    /\ s.log[t] = "Committed" => Finalized(states[Proposer(t)], t)
    /\ \A j \in s.bitmap[t] : j = i \/ took_part[j] >= t
    /\ <<i, t>> \in voted_no => s.log[t] = "Aborted" \/ (s.pending[t] /\ s.abort[t])
    /\ <<Proposer(t), t>> \in voted_no =>
          s.log[t] # "Committed" /\ (s.pending[t] => s.abort[t])

\* The proposer knows its transaction and decides it at its next turn, N rounds later.
ProposerInv ==
    \A t \in Tx : t < tx_counter =>
        /\ Known(states[Proposer(t)], t)
        /\ round_num > t + N \/ (round_num = t + N /\ InRound) => Finalized(states[Proposer(t)], t)

\* A decision on its way is a reported one, and a commit one that its proposer did not oppose.
GoodPiggyback(p) ==
    p.state # Undecided =>
        /\ p.tx \in Tx /\ p.tx < tx_counter /\ p.tx \in recorded
        /\ p.state = "Committed" =>
              Finalized(states[Proposer(p.tx)], p.tx) /\ <<Proposer(p.tx), p.tx>> \notin voted_no

\* Answers are reported decisions, and the votes and the abort flag of a packet are true.
PacketInv ==
    /\ GoodPiggyback(piggyback) /\ GoodPiggyback(payload.piggyback)
    /\ InRound =>
          /\ \A j \in payload.flags_bitmap :
                j = Initiator \/ took_part[j] >= payload.transaction_id
          /\ payload.has_data /\ <<Initiator, payload.transaction_id>> \in voted_no =>
                payload.abort_flag

\* Each decision is reported once, with its start and within its window.
RecordsInv ==
    /\ recorded = {r.tx : r \in records}
    /\ \A r, q \in records : r.tx = q.tx => r = q
    /\ \A r \in records :
          /\ r.tx < tx_counter /\ r.start = r.tx /\ r.end <= r.tx + N
          /\ r.outcome = "Committed" => r.end = r.tx + N

\* The inductive invariant of pipelined 2PC.
TwoPcInv ==
    /\ TypeOK /\ LoopInv /\ PaceInv /\ ProposerInv /\ PacketInv /\ RecordsInv /\ StopSound
    /\ \A i \in Node : took_part[i] < tx_counter
    /\ \A i \in Node, t \in Tx : NodeInv(i, states[i], t)

-----------------------------------------------------------------------------
\* The transactions are integers from 0 on, None is not one of them, and a decision is one of two.
LEMMA TxFacts ==
    /\ NumTxs \in Nat /\ N \in Nat /\ N >= 2
    /\ \A t : t \in Tx <=> t \in Int /\ 0 <= t /\ t < NumTxs
    /\ Undecided \notin Decision /\ "Committed" \in Decision /\ "Aborted" \in Decision
    /\ None = -1
BY NumTxsAssumption, NAssumption DEF Tx, Undecided, Decision, None

\* The fields of a node's state have their types.
LEMMA StateFacts ==
    ASSUME NEW s \in NodeTwoPcState
    PROVE  /\ s.log \in Verdict /\ s.pending \in [Tx -> BOOLEAN] /\ s.bitmap \in [Tx -> SUBSET Node]
           /\ s.abort \in [Tx -> BOOLEAN] /\ s.start \in [Tx -> Nat]
BY DEF NodeTwoPcState

\* r is s after the verdicts on what its log does not say yet.
Finalizes(s, verdict, r) ==
    /\ r \in NodeTwoPcState
    /\ \A t \in Tx :
          /\ r.log[t] = IF Finalized(s, t) THEN s.log[t] ELSE verdict[t]
          /\ r.pending[t] <=> s.pending[t] /\ (Finalized(s, t) \/ verdict[t] = Undecided)
          /\ r.bitmap[t] \subseteq s.bitmap[t]
          /\ r.pending[t] => (r.abort[t] <=> s.abort[t]) /\ r.start[t] = s.start[t]

\* finalize_tx writes a log entry that is still empty, and drops the copy it decided.
LEMMA FinalizeFacts ==
    ASSUME NEW s \in NodeTwoPcState, NEW verdict \in Verdict
    PROVE  Finalizes(s, verdict, FinalizeTx(s, verdict))
<1> DEFINE r == FinalizeTx(s, verdict)
           now == {t \in Tx : verdict[t] # Undecided /\ ~Finalized(s, t)}
<1>1. /\ s.log \in Verdict /\ s.pending \in [Tx -> BOOLEAN] /\ s.bitmap \in [Tx -> SUBSET Node]
      /\ s.abort \in [Tx -> BOOLEAN] /\ s.start \in [Tx -> Nat]
  BY StateFacts
<1>2. \A t \in Tx : t \in now <=> verdict[t] # Undecided /\ s.log[t] = Undecided
  BY DEF Finalized
<1>3. /\ r.log = [t \in Tx |-> IF t \in now THEN verdict[t] ELSE s.log[t]]
      /\ r.pending = [t \in Tx |-> s.pending[t] /\ t \notin now]
      /\ r.bitmap = [t \in Tx |-> IF t \in now THEN {} ELSE s.bitmap[t]]
      /\ r.abort = [t \in Tx |-> s.abort[t] /\ t \notin now]
      /\ r.start = [t \in Tx |-> IF t \in now THEN 0 ELSE s.start[t]]
      /\ r = [log |-> r.log, pending |-> r.pending, bitmap |-> r.bitmap, abort |-> r.abort,
              start |-> r.start]
  BY DEF FinalizeTx
<1> HIDE DEF r, now
<1>4. r \in NodeTwoPcState
  <2>1. r.log \in Verdict
    BY <1>1, <1>3 DEF Verdict
  <2>2. /\ r.pending \in [Tx -> BOOLEAN] /\ r.bitmap \in [Tx -> SUBSET Node]
        /\ r.abort \in [Tx -> BOOLEAN] /\ r.start \in [Tx -> Nat]
    BY <1>1, <1>3
  <2> QED
    BY <1>3, <2>1, <2>2 DEF NodeTwoPcState
<1>5. ASSUME NEW t \in Tx
      PROVE  /\ r.log[t] = IF Finalized(s, t) THEN s.log[t] ELSE verdict[t]
             /\ r.pending[t] <=> s.pending[t] /\ (Finalized(s, t) \/ verdict[t] = Undecided)
             /\ r.bitmap[t] \subseteq s.bitmap[t]
             /\ r.pending[t] => (r.abort[t] <=> s.abort[t]) /\ r.start[t] = s.start[t]
  <2>1. /\ r.log[t] = IF t \in now THEN verdict[t] ELSE s.log[t]
        /\ r.pending[t] <=> s.pending[t] /\ t \notin now
        /\ r.bitmap[t] = IF t \in now THEN {} ELSE s.bitmap[t]
        /\ r.abort[t] <=> s.abort[t] /\ t \notin now
        /\ r.start[t] = IF t \in now THEN 0 ELSE s.start[t]
    <3>1. /\ r.log[t] = IF t \in now THEN verdict[t] ELSE s.log[t]
          /\ r.bitmap[t] = IF t \in now THEN {} ELSE s.bitmap[t]
          /\ r.start[t] = IF t \in now THEN 0 ELSE s.start[t]
      BY <1>3
    <3>2. r.pending[t] <=> s.pending[t] /\ t \notin now
      BY <1>3
    <3>3. r.abort[t] <=> s.abort[t] /\ t \notin now
      BY <1>3
    <3> QED
      BY <3>1, <3>2, <3>3
  <2>2. t \in now <=> verdict[t] # Undecided /\ ~Finalized(s, t)
    BY <1>2 DEF Finalized
  <2>3. r.log[t] = IF Finalized(s, t) THEN s.log[t] ELSE verdict[t]
    BY <2>1, <2>2 DEF Finalized
  <2> QED
    BY <2>1, <2>2, <2>3
<1> QED
  BY <1>4, <1>5 DEF r, Finalizes

\* r is s after a merge of bits and of an abort flag.
Merges(s, upTo, bits, abort, r) ==
    /\ r \in NodeTwoPcState
    /\ \A t \in Tx :
          /\ r.log[t] = s.log[t] /\ (r.pending[t] <=> s.pending[t]) /\ r.start[t] = s.start[t]
          /\ r.bitmap[t] \subseteq s.bitmap[t] \cup (IF t <= upTo THEN bits ELSE {})
          /\ r.abort[t] <=> s.abort[t] \/ (abort /\ t = upTo /\ s.pending[t])

\* merge_votes_up_to changes bits and flags of pending copies only.
LEMMA MergeFacts ==
    ASSUME NEW s \in NodeTwoPcState, NEW upTo \in Tx, NEW bits \in SUBSET Node, NEW abort \in BOOLEAN
    PROVE  Merges(s, upTo, bits, abort, MergeVotesUpTo(s, upTo, bits, abort))
<1> DEFINE r == MergeVotesUpTo(s, upTo, bits, abort)
           B == [t \in Tx |-> IF t <= upTo /\ s.pending[t] THEN s.bitmap[t] \cup bits ELSE s.bitmap[t]]
           A == [t \in Tx |-> s.abort[t] \/ (abort /\ t = upTo /\ s.pending[t])]
<1>1. /\ s.log \in Verdict /\ s.pending \in [Tx -> BOOLEAN] /\ s.bitmap \in [Tx -> SUBSET Node]
      /\ s.abort \in [Tx -> BOOLEAN] /\ s.start \in [Tx -> Nat]
  BY StateFacts
<1>2. B \in [Tx -> SUBSET Node] /\ A \in [Tx -> BOOLEAN]
  BY <1>1
<1>3. r = [s EXCEPT !.bitmap = B, !.abort = A]
  BY DEF MergeVotesUpTo
<1>4. \A t \in Tx : /\ B[t] \subseteq s.bitmap[t] \cup (IF t <= upTo THEN bits ELSE {})
                    /\ A[t] <=> s.abort[t] \/ (abort /\ t = upTo /\ s.pending[t])
  BY <1>1
<1> HIDE DEF A, B, r
<1>5. /\ r \in NodeTwoPcState /\ r.log = s.log /\ r.pending = s.pending /\ r.start = s.start
      /\ r.bitmap = B /\ r.abort = A
  BY <1>2, <1>3 DEF NodeTwoPcState
<1>6. \A t \in Tx : r.log[t] = s.log[t] /\ (r.pending[t] <=> s.pending[t]) /\ r.start[t] = s.start[t]
  BY <1>5
<1> QED
  BY <1>4, <1>5, <1>6 DEF r, Merges

\* r is s with one more pending transaction.
Pushes(s, x, bits, abort, round, r) ==
    /\ r \in NodeTwoPcState
    /\ \A t \in Tx :
          /\ r.log[t] = s.log[t]
          /\ r.pending[t] <=> s.pending[t] \/ t = x
          /\ r.bitmap[t] = IF t = x THEN bits ELSE s.bitmap[t]
          /\ r.abort[t] <=> IF t = x THEN abort ELSE s.abort[t]
          /\ r.start[t] = IF t = x THEN round ELSE s.start[t]

\* A transaction pushed is pending with the bits, the flag and the round it is given.
LEMMA PushFacts ==
    ASSUME NEW s \in NodeTwoPcState, NEW x \in Tx, NEW bits \in SUBSET Node, NEW abort \in BOOLEAN,
           NEW round \in Nat
    PROVE  Pushes(s, x, bits, abort, round, PushPending(s, x, bits, abort, round))
<1> DEFINE r == PushPending(s, x, bits, abort, round)
           P == [s.pending EXCEPT ![x] = TRUE]
           B == [s.bitmap EXCEPT ![x] = bits]
           A == [s.abort EXCEPT ![x] = abort]
           T == [s.start EXCEPT ![x] = round]
<1>1. /\ s.log \in Verdict /\ s.pending \in [Tx -> BOOLEAN] /\ s.bitmap \in [Tx -> SUBSET Node]
      /\ s.abort \in [Tx -> BOOLEAN] /\ s.start \in [Tx -> Nat]
  BY StateFacts
<1>2. /\ P \in [Tx -> BOOLEAN] /\ B \in [Tx -> SUBSET Node] /\ A \in [Tx -> BOOLEAN]
      /\ T \in [Tx -> Nat]
  BY <1>1
<1>3. r = [s EXCEPT !.pending = P, !.bitmap = B, !.abort = A, !.start = T]
  BY DEF PushPending, NodeTwoPcState
<1>4. \A t \in Tx : /\ P[t] <=> s.pending[t] \/ t = x
                    /\ B[t] = IF t = x THEN bits ELSE s.bitmap[t]
                    /\ A[t] <=> IF t = x THEN abort ELSE s.abort[t]
                    /\ T[t] = IF t = x THEN round ELSE s.start[t]
  BY <1>1
<1> HIDE DEF P, B, A, T, r
<1>5. /\ r \in NodeTwoPcState /\ r.log = s.log /\ r.pending = P /\ r.bitmap = B /\ r.abort = A
      /\ r.start = T
  BY <1>2, <1>3 DEF NodeTwoPcState
<1> QED
  BY <1>4, <1>5 DEF r, Pushes

\* What the fields of a packet are.
LEMMA PacketFacts ==
    ASSUME NEW pkt \in Packet
    PROVE  /\ pkt.transaction_id \in Tx /\ pkt.has_data \in BOOLEAN /\ pkt.flags_bitmap \in SUBSET Node
           /\ pkt.abort_flag \in BOOLEAN /\ pkt.nack_tx_id \in Tx /\ pkt.piggyback \in Piggyback
BY DEF Packet

\* v is s after node i voted with the packet pkt.
Votes(i, s, pkt, no, v) ==
    LET new(t) == FirstSight(s, pkt) /\ t = pkt.transaction_id
    IN  /\ v \in NodeTwoPcState
        /\ \A t \in Tx :
              /\ v.log[t] = s.log[t]
              /\ v.pending[t] <=> s.pending[t] \/ new(t)
              /\ v.start[t] = IF new(t) THEN round_num ELSE s.start[t]
              /\ \A j \in v.bitmap[t] :
                    \/ j \in s.bitmap[t]
                    \/ t <= pkt.transaction_id /\ (j \in pkt.flags_bitmap \/ j = i)
              /\ s.pending[t] /\ s.abort[t] => v.abort[t]
              /\ new(t) /\ (pkt.abort_flag \/ no) => v.abort[t]

(***************************************************************************)
(* Voting adds one copy at most, for a transaction seen for the first      *)
(* time, with this round as the start of its window; bits come from the    *)
(* packet or are the voter's own, and no abort flag is lost.               *)
(***************************************************************************)
LEMMA VotedFacts ==
    ASSUME round_num \in Nat, NEW i \in Node, NEW s \in NodeTwoPcState, NEW pkt \in Packet,
           NEW no \in BOOLEAN
    PROVE  Votes(i, s, pkt, no, Voted(i, s, pkt, no))
<1> DEFINE v == Voted(i, s, pkt, no)
           tx == pkt.transaction_id
           first == FirstSight(s, pkt)
           flags == pkt.flags_bitmap
           seen == Seen(i, s, pkt, no)
           merged == MergeVotesUpTo(seen, tx, flags, pkt.abort_flag)
<1>1. /\ tx \in Tx /\ tx \in Int /\ flags \in SUBSET Node /\ flags \cup {i} \in SUBSET Node
      /\ flags \cup (IF no THEN {} ELSE {i}) \in SUBSET Node
      /\ pkt.abort_flag \in BOOLEAN /\ (pkt.abort_flag \/ no) \in BOOLEAN
  BY PacketFacts, TxFacts
<1>2. first => ~s.pending[tx]
  BY DEF FirstSight, Known
<1>3. /\ seen \in NodeTwoPcState
      /\ \A t \in Tx :
            /\ seen.log[t] = s.log[t]
            /\ seen.pending[t] <=> s.pending[t] \/ (first /\ t = tx)
            /\ seen.start[t] = IF first /\ t = tx THEN round_num ELSE s.start[t]
            /\ \A j \in seen.bitmap[t] : j \in s.bitmap[t] \/ (t <= tx /\ (j \in flags \/ j = i))
            /\ s.pending[t] /\ s.abort[t] => seen.abort[t]
            /\ first /\ t = tx /\ (pkt.abort_flag \/ no) => seen.abort[t]
  <2> DEFINE bits == flags \cup (IF no THEN {} ELSE {i})
             ab == pkt.abort_flag \/ no
  <2>1. CASE first
    <3>1. seen = PushPending(s, tx, bits, ab, round_num)
      BY <2>1 DEF Seen
    <3>2. bits \in SUBSET Node /\ \A j \in bits : j \in flags \/ j = i
      BY <1>1
    <3>3. ab \in BOOLEAN
      OBVIOUS
    <3> HIDE DEF seen, bits, ab, first, tx
    <3>4. Pushes(s, tx, bits, ab, round_num, seen)
      BY <1>1, <3>1, <3>2, <3>3, PushFacts
    <3>5. ab <=> pkt.abort_flag \/ no
      BY DEF ab
    <3>6. seen \in NodeTwoPcState
      BY <3>4 DEF Pushes
    <3>7. ASSUME NEW t \in Tx
          PROVE  /\ seen.log[t] = s.log[t]
                 /\ seen.pending[t] <=> s.pending[t] \/ t = tx
                 /\ seen.start[t] = IF t = tx THEN round_num ELSE s.start[t]
                 /\ seen.bitmap[t] = IF t = tx THEN bits ELSE s.bitmap[t]
                 /\ seen.abort[t] <=> IF t = tx THEN ab ELSE s.abort[t]
      BY <3>4 DEF Pushes
    <3>8. ASSUME NEW t \in Tx
          PROVE  /\ \A j \in seen.bitmap[t] : j \in s.bitmap[t] \/ (t <= tx /\ (j \in flags \/ j = i))
                 /\ s.pending[t] /\ s.abort[t] => seen.abort[t]
                 /\ t = tx /\ (pkt.abort_flag \/ no) => seen.abort[t]
      <4>1. tx <= tx
        BY <1>1, TxFacts
      <4>2. CASE t = tx
        BY <1>2, <2>1, <3>2, <3>5, <3>7, <4>1, <4>2
      <4>3. CASE t # tx
        BY <3>7, <4>3
      <4> QED
        BY <4>2, <4>3
    <3> QED
      BY <2>1, <3>6, <3>7, <3>8
  <2>2. CASE ~first
    <3>1. seen = s
      BY <2>2 DEF Seen
    <3> QED
      BY <2>2, <3>1
  <2> QED
    BY <2>1, <2>2
<1>4. v = IF merged.pending[tx] /\ ~merged.abort[tx] THEN MergeVotesUpTo(merged, tx, {i}, FALSE)
          ELSE merged
  BY DEF Voted
<1>m. merged = MergeVotesUpTo(seen, tx, flags, pkt.abort_flag)
  OBVIOUS
<1> HIDE DEF seen, first, tx, flags, merged
<1>5. /\ merged \in NodeTwoPcState
      /\ \A t \in Tx :
            /\ merged.log[t] = seen.log[t] /\ (merged.pending[t] <=> seen.pending[t])
            /\ merged.start[t] = seen.start[t]
            /\ merged.bitmap[t] \subseteq seen.bitmap[t] \cup (IF t <= tx THEN flags ELSE {})
            /\ seen.abort[t] => merged.abort[t]
  <2>1. Merges(seen, tx, flags, pkt.abort_flag, merged)
    BY <1>1, <1>3, <1>m, MergeFacts
  <2> QED
    BY <2>1 DEF Merges
<1> HIDE DEF v
<1>6. /\ v \in NodeTwoPcState
      /\ \A t \in Tx :
            /\ v.log[t] = merged.log[t] /\ (v.pending[t] <=> merged.pending[t])
            /\ v.start[t] = merged.start[t]
            /\ v.bitmap[t] \subseteq merged.bitmap[t] \cup (IF t <= tx THEN {i} ELSE {})
            /\ merged.abort[t] => v.abort[t]
  <2>1. CASE v = merged
    BY <1>5, <2>1
  <2>2. CASE v = MergeVotesUpTo(merged, tx, {i}, FALSE)
    <3>1. {i} \in SUBSET Node
      OBVIOUS
    <3>2. FALSE \in BOOLEAN
      OBVIOUS
    <3>3. Merges(merged, tx, {i}, FALSE, v)
      BY <1>1, <1>5, <2>2, <3>1, <3>2, MergeFacts
    <3> QED
      BY <3>3 DEF Merges
  <2> QED
    BY <1>4, <2>1, <2>2
<1>7. ASSUME NEW t \in Tx
      PROVE  /\ v.log[t] = s.log[t]
             /\ v.pending[t] <=> s.pending[t] \/ (first /\ t = tx)
             /\ v.start[t] = IF first /\ t = tx THEN round_num ELSE s.start[t]
             /\ \A j \in v.bitmap[t] : j \in s.bitmap[t] \/ (t <= tx /\ (j \in flags \/ j = i))
             /\ s.pending[t] /\ s.abort[t] => v.abort[t]
             /\ first /\ t = tx /\ (pkt.abort_flag \/ no) => v.abort[t]
  <2>1. \A j \in v.bitmap[t] : j \in s.bitmap[t] \/ (t <= tx /\ (j \in flags \/ j = i))
    <3> SUFFICES ASSUME NEW j \in v.bitmap[t], j \notin s.bitmap[t]
                 PROVE  t <= tx /\ (j \in flags \/ j = i)
      OBVIOUS
    <3>1. j \in merged.bitmap[t] \/ (t <= tx /\ j = i)
      BY <1>6
    <3>2. j \in merged.bitmap[t] => j \in seen.bitmap[t] \/ (t <= tx /\ j \in flags)
      BY <1>5
    <3> QED
      BY <1>3, <3>1, <3>2
  <2> QED
    BY <1>3, <1>5, <1>6, <2>1
<1> QED
  BY <1>6, <1>7 DEF v, first, tx, flags, Votes

\* The verdicts finalize_tx is called with are verdicts.
LEMMA VerdictFacts ==
    /\ \A s, r : BoundedVerdict(s, r) \in Verdict
    /\ \A s : FastAborts(s) \in Verdict
    /\ \A p \in Piggyback : PiggybackVerdict(p) \in Verdict
    /\ \A s, r : \A t \in Tx :
          /\ BoundedVerdict(s, r)[t] # Undecided <=> Due(s, t, r)
          /\ BoundedVerdict(s, r)[t] = "Committed" => ~s.abort[t]
    /\ \A s : \A t \in Tx : FastAborts(s)[t] = IF s.pending[t] /\ s.abort[t] THEN "Aborted" ELSE Undecided
    /\ \A p : \A t \in Tx : PiggybackVerdict(p)[t] = IF t = p.tx THEN p.state ELSE Undecided
<1>1. \A s, r : BoundedVerdict(s, r) \in Verdict
  BY TxFacts DEF BoundedVerdict, Verdict
<1>2. \A s : FastAborts(s) \in Verdict
  BY TxFacts DEF FastAborts, Verdict
<1>3. \A p \in Piggyback : PiggybackVerdict(p) \in Verdict
  BY DEF PiggybackVerdict, Verdict, Piggyback
<1>4. \A s, r : \A t \in Tx : /\ BoundedVerdict(s, r)[t] # Undecided <=> Due(s, t, r)
                              /\ BoundedVerdict(s, r)[t] = "Committed" => ~s.abort[t]
  BY DEF BoundedVerdict, CheckUnanimity, Undecided
<1>5. \A s : \A t \in Tx : FastAborts(s)[t] = IF s.pending[t] /\ s.abort[t] THEN "Aborted" ELSE Undecided
  BY DEF FastAborts, CheckExplicitAbort
<1>6. \A p : \A t \in Tx : PiggybackVerdict(p)[t] = IF t = p.tx THEN p.state ELSE Undecided
  BY DEF PiggybackVerdict
<1> QED
  BY <1>1, <1>2, <1>3, <1>4, <1>5, <1>6

\* The copy of t in state v is finalized by the bound in this round.
AtBound(v, t) == v.pending[t] /\ round_num >= v.start[t] + N

\* The piggyback pb brings a decision on t.
Brings(pb, t) == t = pb.tx /\ pb.state # Undecided

(***************************************************************************)
(* From the votes v of a node to its state p after the piggyback, in which *)
(* it answers a NACK, and to its state r at the end of the round.          *)
(***************************************************************************)
Concludes(v, pb, p, r) ==
    /\ p \in NodeTwoPcState /\ r \in NodeTwoPcState
    /\ \A t \in Tx :
          /\ Finalized(v, t) => p.log[t] = v.log[t]
          /\ Finalized(p, t) => r.log[t] = p.log[t]
          /\ Finalized(p, t) => Finalized(v, t) \/ (v.pending[t] /\ v.abort[t]) \/ Brings(pb, t)
          /\ Finalized(r, t) => Finalized(p, t) \/ AtBound(v, t)
          /\ r.log[t] = "Committed" =>
                \/ v.log[t] = "Committed"
                \/ ~(v.pending[t] /\ v.abort[t]) /\ (AtBound(v, t) \/ (t = pb.tx /\ pb.state = "Committed"))
          /\ v.pending[t] /\ v.abort[t] => r.log[t] = "Aborted"
          /\ r.pending[t] => v.pending[t] /\ r.start[t] = v.start[t] /\ ~Finalized(r, t)
          /\ Known(v, t) => Known(r, t)
          /\ r.bitmap[t] \subseteq v.bitmap[t]

\* The three finalizations of a round, each on what the log does not say yet.
LEMMA ConcludedFacts ==
    ASSUME round_num \in Nat, NEW i \in Node, NEW s \in NodeTwoPcState, NEW pkt \in Packet,
           NEW no \in BOOLEAN,
           Voted(i, s, pkt, no) \in NodeTwoPcState,
           \A t \in Tx : Voted(i, s, pkt, no).pending[t] => ~Finalized(Voted(i, s, pkt, no), t)
    PROVE  Concludes(Voted(i, s, pkt, no), pkt.piggyback, AfterPiggyback(i, s, pkt, no),
                     Processed(i, s, pkt, no))
<1> DEFINE v == Voted(i, s, pkt, no)
           a == AfterAborts(i, s, pkt, no)
           p == AfterPiggyback(i, s, pkt, no)
           r == Processed(i, s, pkt, no)
           pb == pkt.piggyback
<1>1. v \in NodeTwoPcState /\ \A t \in Tx : v.pending[t] => ~Finalized(v, t)
  OBVIOUS
<1>2. pb \in Piggyback
  BY PacketFacts
<1>3. a = FinalizeTx(v, FastAborts(v))
  BY DEF AfterAborts
<1>4. p = FinalizeTx(a, PiggybackVerdict(pb))
  BY DEF AfterPiggyback
<1>5. r = FinalizeTx(p, BoundedVerdict(p, round_num))
  BY DEF Processed
<1>q. Concludes(v, pb, p, r) => Concludes(Voted(i, s, pkt, no), pkt.piggyback,
                                          AfterPiggyback(i, s, pkt, no), Processed(i, s, pkt, no))
  OBVIOUS
<1> HIDE DEF v, a, p, r, pb
<1>6. Finalizes(v, FastAborts(v), a)
  BY <1>1, <1>3, FinalizeFacts, VerdictFacts
<1>7. Finalizes(a, PiggybackVerdict(pb), p)
  <2>1. a \in NodeTwoPcState
    BY <1>6 DEF Finalizes
  <2>2. PiggybackVerdict(pb) \in Verdict
    BY <1>2, VerdictFacts
  <2> QED
    BY <1>4, <2>1, <2>2, FinalizeFacts
<1>8. Finalizes(p, BoundedVerdict(p, round_num), r)
  <2>1. p \in NodeTwoPcState
    BY <1>7 DEF Finalizes
  <2>2. BoundedVerdict(p, round_num) \in Verdict
    BY VerdictFacts
  <2> QED
    BY <1>5, <2>1, <2>2, FinalizeFacts
<1>9. ASSUME NEW t \in Tx
      PROVE  /\ Finalized(v, t) => p.log[t] = v.log[t]
             /\ Finalized(p, t) => r.log[t] = p.log[t]
             /\ Finalized(p, t) => Finalized(v, t) \/ (v.pending[t] /\ v.abort[t]) \/ Brings(pb, t)
             /\ Finalized(r, t) => Finalized(p, t) \/ AtBound(v, t)
             /\ r.log[t] = "Committed" =>
                   \/ v.log[t] = "Committed"
                   \/ ~(v.pending[t] /\ v.abort[t]) /\ (AtBound(v, t) \/ (t = pb.tx /\ pb.state = "Committed"))
             /\ v.pending[t] /\ v.abort[t] => r.log[t] = "Aborted"
             /\ r.pending[t] => v.pending[t] /\ r.start[t] = v.start[t] /\ ~Finalized(r, t)
             /\ Known(v, t) => Known(r, t)
             /\ r.bitmap[t] \subseteq v.bitmap[t]
  <2>1. /\ a.log[t] = IF Finalized(v, t) THEN v.log[t]
                      ELSE IF v.pending[t] /\ v.abort[t] THEN "Aborted" ELSE Undecided
        /\ a.pending[t] <=> v.pending[t] /\ (Finalized(v, t) \/ ~(v.pending[t] /\ v.abort[t]))
        /\ a.bitmap[t] \subseteq v.bitmap[t]
        /\ a.pending[t] => (a.abort[t] <=> v.abort[t]) /\ a.start[t] = v.start[t]
    BY <1>6, VerdictFacts DEF Finalizes, Undecided
  <2>2. /\ p.log[t] = IF Finalized(a, t) THEN a.log[t] ELSE IF t = pb.tx THEN pb.state ELSE Undecided
        /\ p.pending[t] <=> a.pending[t] /\ (Finalized(a, t) \/ ~Brings(pb, t))
        /\ p.bitmap[t] \subseteq a.bitmap[t]
        /\ p.pending[t] => (p.abort[t] <=> a.abort[t]) /\ p.start[t] = a.start[t]
    BY <1>7, VerdictFacts DEF Finalizes, Brings
  <2>3. /\ Finalized(p, t) => r.log[t] = p.log[t]
        /\ ~Finalized(p, t) /\ Finalized(r, t) => Due(p, t, round_num)
        /\ ~Finalized(p, t) /\ r.log[t] = "Committed" => ~p.abort[t]
        /\ ~Finalized(p, t) /\ Due(p, t, round_num) => Finalized(r, t)
        /\ r.pending[t] <=> p.pending[t] /\ (Finalized(p, t) \/ ~Due(p, t, round_num))
        /\ r.bitmap[t] \subseteq p.bitmap[t]
        /\ r.pending[t] => r.start[t] = p.start[t]
    <3>1. /\ BoundedVerdict(p, round_num)[t] # Undecided <=> Due(p, t, round_num)
          /\ BoundedVerdict(p, round_num)[t] = "Committed" => ~p.abort[t]
      BY VerdictFacts
    <3>2. /\ r.log[t] = IF Finalized(p, t) THEN p.log[t] ELSE BoundedVerdict(p, round_num)[t]
          /\ r.pending[t] <=> p.pending[t] /\ (Finalized(p, t) \/ BoundedVerdict(p, round_num)[t] = Undecided)
          /\ r.bitmap[t] \subseteq p.bitmap[t]
          /\ r.pending[t] => r.start[t] = p.start[t]
      BY <1>8 DEF Finalizes
    <3> QED
      BY <3>1, <3>2 DEF Finalized
  <2>4. v.pending[t] => ~Finalized(v, t)
    BY <1>1
  <2>5. "Committed" # Undecided /\ "Aborted" # Undecided /\ "Aborted" # "Committed"
    BY DEF Undecided
  <2>6. a.pending[t] => ~Finalized(a, t)
    BY <2>1, <2>4 DEF Finalized
  <2>7. p.pending[t] => ~Finalized(p, t)
    BY <2>2, <2>6 DEF Finalized, Brings
  <2>8. p.pending[t] => v.pending[t] /\ p.start[t] = v.start[t] /\ (p.abort[t] <=> v.abort[t])
    BY <2>1, <2>2
  <2>9. Due(p, t, round_num) => AtBound(v, t)
    BY <2>8 DEF Due, AtBound
  <2>10. Finalized(v, t) => p.log[t] = v.log[t]
    BY <2>1, <2>2 DEF Finalized
  <2>11. Finalized(p, t) => Finalized(v, t) \/ (v.pending[t] /\ v.abort[t]) \/ Brings(pb, t)
    BY <2>1, <2>2 DEF Finalized, Brings
  <2>12. v.pending[t] /\ v.abort[t] => r.log[t] = "Aborted"
    BY <2>1, <2>2, <2>3, <2>4, <2>5 DEF Finalized
  <2>13. r.log[t] = "Committed" =>
            \/ v.log[t] = "Committed"
            \/ ~(v.pending[t] /\ v.abort[t]) /\ (AtBound(v, t) \/ (t = pb.tx /\ pb.state = "Committed"))
    <3>1. CASE Finalized(p, t)
      BY <2>1, <2>2, <2>3, <2>5, <2>12, <3>1 DEF Finalized
    <3>2. CASE ~Finalized(p, t)
      BY <2>3, <2>5, <2>9, <2>12, <3>2 DEF Finalized
    <3> QED
      BY <3>1, <3>2
  <2>14. r.pending[t] => v.pending[t] /\ r.start[t] = v.start[t] /\ ~Finalized(r, t)
    BY <2>3, <2>7, <2>8
  <2>15. Known(v, t) => Known(r, t)
    <3>1. v.pending[t] => a.pending[t] \/ Finalized(a, t)
      BY <2>1, <2>5 DEF Finalized
    <3>2. a.pending[t] => p.pending[t] \/ Finalized(p, t)
      BY <2>2, <2>6 DEF Finalized, Brings
    <3>3. p.pending[t] => r.pending[t] \/ Finalized(r, t)
      BY <2>3, <2>7
    <3>4. Finalized(a, t) => Finalized(p, t)
      BY <2>2 DEF Finalized
    <3>5. Finalized(p, t) => Finalized(r, t)
      BY <2>3 DEF Finalized
    <3>6. Finalized(v, t) => Finalized(p, t)
      BY <2>10 DEF Finalized
    <3> QED
      BY <3>1, <3>2, <3>3, <3>4, <3>5, <3>6 DEF Known
  <2>16. r.bitmap[t] \subseteq v.bitmap[t]
    BY <2>1, <2>2, <2>3
  <2> QED
    BY <2>3, <2>9, <2>10, <2>11, <2>12, <2>13, <2>14, <2>15, <2>16
<1>10. Concludes(v, pb, p, r)
  BY <1>7, <1>8, <1>9 DEF Concludes, Finalizes
<1> QED
  BY <1>10, <1>q

-----------------------------------------------------------------------------
\* The state of the pipeline, in the form in which the steps use it.
LEMMA PaceFacts ==
    ASSUME TwoPcInv
    PROVE  /\ round_num \in Nat /\ tx_counter \in Nat /\ tx_counter <= NumTxs /\ Initiator \in Node
           /\ payload \in Packet /\ \A i \in Node : states[i] \in NodeTwoPcState /\ took_part[i] \in Int
           /\ \A t \in Tx : Proposer(t) \in Node /\ t \in Nat
           /\ \A t \in Tx : t < tx_counter /\ (round_num > t + N \/ (round_num = t + N /\ InRound)) =>
                 Finalized(states[Proposer(t)], t) /\ t \in recorded
<1>1. round_num \in Nat /\ tx_counter \in Nat /\ tx_counter <= NumTxs
  BY TxFacts DEF TwoPcInv, TypeOK, LoopTypeOK
<1>2. payload \in Packet /\ \A i \in Node : states[i] \in NodeTwoPcState /\ took_part[i] \in Int
  BY TxFacts DEF TwoPcInv, TypeOK
<1>3. \A t \in Tx : t \in Nat
  BY TxFacts
<1>4. Initiator \in Node /\ \A t \in Tx : Proposer(t) \in Node
  BY <1>1, <1>3, InitiatorIsNode DEF Initiator, Proposer
<1>5. ASSUME NEW t \in Tx, t < tx_counter, round_num > t + N \/ (round_num = t + N /\ InRound)
      PROVE  Finalized(states[Proposer(t)], t) /\ t \in recorded
  <2>1. Finalized(states[Proposer(t)], t)
    BY <1>5 DEF TwoPcInv, ProposerInv
  <2>2. NodeInv(Proposer(t), states[Proposer(t)], t)
    BY <1>4 DEF TwoPcInv
  <2> QED
    BY <2>1, <2>2 DEF NodeInv
<1> QED
  BY <1>1, <1>2, <1>3, <1>4, <1>5

(***************************************************************************)
(* What serving the packet does to node i: v, p and r are its votes, its   *)
(* state when it answers a NACK, and its state at the end of the round.    *)
(***************************************************************************)
Served(i, v, p, r, no) ==
    /\ v \in NodeTwoPcState /\ p \in NodeTwoPcState /\ r \in NodeTwoPcState
    /\ \A t \in Tx :
          /\ Finalized(states[i], t) => r.log[t] = states[i].log[t]
          /\ Finalized(p, t) => r.log[t] = p.log[t]
          /\ Known(states[i], t) => Known(r, t)
          /\ Known(r, t) => t < tx_counter
          /\ Finalized(p, t) => t \in recorded \/ (v.pending[t] /\ v.abort[t])
          /\ Finalized(r, t) => Finalized(p, t) \/ t \in recorded
          /\ v.pending[t] => t < tx_counter /\ (t \in recorded \/ round_num + 1 <= t + N)
          /\ r.log[t] = "Committed" => Finalized(states[Proposer(t)], t)
          /\ r.pending[t] => ~Finalized(r, t) /\ r.start[t] = t
          /\ \A j \in r.bitmap[t] :
                j = i \/ took_part[j] >= t \/ (t <= payload.transaction_id /\ j = Initiator)
          /\ <<i, t>> \in voted_no \/ (no /\ t = payload.transaction_id) => r.log[t] = "Aborted"
          /\ <<Proposer(t), t>> \in voted_no => r.log[t] # "Committed" /\ ~r.pending[t]

\* Serving the packet keeps the bookkeeping of a node consistent with that of the proposers.
LEMMA ServedFacts ==
    ASSUME TwoPcInv, pc = "process", NEW i \in Node, NEW no \in BOOLEAN,
           no => FirstSight(states[i], payload)
    PROVE  Served(i, Voted(i, states[i], payload, no), AfterPiggyback(i, states[i], payload, no),
                  Processed(i, states[i], payload, no), no)
<1> DEFINE s == states[i]
           v == Voted(i, states[i], payload, no)
           p == AfterPiggyback(i, states[i], payload, no)
           r == Processed(i, states[i], payload, no)
           tx == payload.transaction_id
           pb == payload.piggyback
           first == FirstSight(states[i], payload)
<1>1. /\ round_num \in Nat /\ tx_counter \in Nat /\ s \in NodeTwoPcState /\ payload \in Packet
      /\ \A t \in Tx : Proposer(t) \in Node /\ t \in Nat
      /\ N \in Nat /\ N >= 2 /\ tx \in Tx /\ tx \in Int
      /\ \A j \in Node : took_part[j] \in Int
  BY PaceFacts, TxFacts, PacketFacts
<1>2. /\ tx = tx_counter - 1 /\ (first => tx = round_num)
      /\ \A j \in payload.flags_bitmap : j = Initiator \/ took_part[j] >= tx
      /\ first /\ <<Initiator, tx>> \in voted_no => payload.abort_flag
  BY DEF TwoPcInv, PaceInv, PacketInv, InRound, FirstSight
<1>3. \A t \in Tx : NodeInv(i, s, t)
  BY DEF TwoPcInv
<1>4. Votes(i, s, payload, no, v)
  BY <1>1, VotedFacts
<1>5. first => ~Known(s, tx)
  BY DEF FirstSight
<1>6. no => first
  OBVIOUS
<1>f. first <=> FirstSight(s, payload)
  OBVIOUS
<1>7. \A t \in Tx : v.pending[t] => ~Finalized(v, t)
  <2> SUFFICES ASSUME NEW t \in Tx, v.pending[t]
               PROVE  ~Finalized(v, t)
    OBVIOUS
  <2> HIDE DEF s, v, p, r, tx, pb, first
  <2>1. v.log[t] = s.log[t] /\ (s.pending[t] \/ (first /\ t = tx))
    BY <1>4, <1>f DEF Votes, tx
  <2>2. s.pending[t] => ~Finalized(s, t)
    BY <1>3 DEF NodeInv
  <2>3. ~Finalized(s, t)
    BY <1>5, <2>1, <2>2 DEF Known
  <2> QED
    BY <2>1, <2>3 DEF Finalized
<1>8. Concludes(v, pb, p, r)
  <2>1. v \in NodeTwoPcState
    BY <1>4 DEF Votes
  <2> QED
    BY <1>1, <1>7, <2>1, ConcludedFacts
<1>9. GoodPiggyback(pb)
  BY DEF TwoPcInv, PacketInv
<1> SUFFICES Served(i, v, p, r, no)
  OBVIOUS
<1>10. Initiator = InitiatorOf(round_num)
  BY DEF Initiator
<1>11. \A t \in Tx : t < tx_counter /\ round_num >= t + N => Finalized(states[Proposer(t)], t) /\ t \in recorded
  <2> SUFFICES ASSUME NEW t \in Tx, t < tx_counter, round_num >= t + N
               PROVE  Finalized(states[Proposer(t)], t) /\ t \in recorded
    OBVIOUS
  <2>1. round_num > t + N \/ (round_num = t + N /\ InRound)
    BY <1>1 DEF InRound
  <2> QED
    BY <2>1, PaceFacts
<1>s. s = states[i] /\ tx = payload.transaction_id
  OBVIOUS
<1> HIDE DEF s, v, p, r, tx, pb, first
<1>12. ASSUME NEW t \in Tx
       PROVE  /\ Finalized(s, t) => r.log[t] = s.log[t]
              /\ Finalized(p, t) => r.log[t] = p.log[t]
              /\ Known(s, t) => Known(r, t)
              /\ Known(r, t) => t < tx_counter
              /\ Finalized(p, t) => t \in recorded \/ (v.pending[t] /\ v.abort[t])
              /\ Finalized(r, t) => Finalized(p, t) \/ t \in recorded
              /\ v.pending[t] => t < tx_counter /\ (t \in recorded \/ round_num + 1 <= t + N)
              /\ r.log[t] = "Committed" => Finalized(states[Proposer(t)], t)
              /\ r.pending[t] => ~Finalized(r, t) /\ r.start[t] = t
              /\ \A j \in r.bitmap[t] :
                    j = i \/ took_part[j] >= t \/ (t <= tx /\ j = Initiator)
              /\ <<i, t>> \in voted_no \/ (no /\ t = tx) => r.log[t] = "Aborted"
              /\ <<Proposer(t), t>> \in voted_no => r.log[t] # "Committed" /\ ~r.pending[t]
  <2>1. /\ Known(s, t) => t < tx_counter
        /\ s.pending[t] => ~Finalized(s, t) /\ s.start[t] = t
        /\ Finalized(s, t) => t \in recorded
        /\ s.log[t] = "Committed" => Finalized(states[Proposer(t)], t)
        /\ \A j \in s.bitmap[t] : j = i \/ took_part[j] >= t
        /\ <<i, t>> \in voted_no => s.log[t] = "Aborted" \/ (s.pending[t] /\ s.abort[t])
        /\ <<Proposer(t), t>> \in voted_no =>
              s.log[t] # "Committed" /\ (s.pending[t] => s.abort[t])
    BY <1>3 DEF NodeInv
  <2>2. /\ v.log[t] = s.log[t]
        /\ v.pending[t] <=> s.pending[t] \/ (first /\ t = tx)
        /\ v.start[t] = IF first /\ t = tx THEN round_num ELSE s.start[t]
        /\ \A j \in v.bitmap[t] :
              j \in s.bitmap[t] \/ (t <= tx /\ (j \in payload.flags_bitmap \/ j = i))
        /\ s.pending[t] /\ s.abort[t] => v.abort[t]
        /\ first /\ t = tx /\ (payload.abort_flag \/ no) => v.abort[t]
    BY <1>4, <1>f DEF Votes, tx
  <2>3. /\ Finalized(v, t) => p.log[t] = v.log[t]
        /\ Finalized(p, t) => r.log[t] = p.log[t]
        /\ Finalized(p, t) => Finalized(v, t) \/ (v.pending[t] /\ v.abort[t]) \/ Brings(pb, t)
        /\ Finalized(r, t) => Finalized(p, t) \/ AtBound(v, t)
        /\ r.log[t] = "Committed" =>
              \/ v.log[t] = "Committed"
              \/ ~(v.pending[t] /\ v.abort[t]) /\ (AtBound(v, t) \/ (t = pb.tx /\ pb.state = "Committed"))
        /\ v.pending[t] /\ v.abort[t] => r.log[t] = "Aborted"
        /\ r.pending[t] => v.pending[t] /\ r.start[t] = v.start[t] /\ ~Finalized(r, t)
        /\ Known(v, t) => Known(r, t)
        /\ r.bitmap[t] \subseteq v.bitmap[t]
    BY <1>8 DEF Concludes
  <2>4. t \in Nat /\ Proposer(t) \in Node
    BY <1>1
  <2>5. v.pending[t] => v.start[t] = t /\ t < tx_counter
    BY <1>1, <1>2, <2>1, <2>2 DEF Known
  <2>6. v.pending[t] => t \in recorded \/ round_num + 1 <= t + N
    BY <1>1, <1>11, <2>4, <2>5
  <2>7. AtBound(v, t) => t < tx_counter /\ Finalized(states[Proposer(t)], t) /\ t \in recorded
    BY <1>11, <2>5 DEF AtBound
  <2>8. Brings(pb, t) =>
            /\ t < tx_counter /\ t \in recorded
            /\ pb.state = "Committed" =>
                  Finalized(states[Proposer(t)], t) /\ <<Proposer(t), t>> \notin voted_no
    BY <1>9 DEF GoodPiggyback, Brings
  <2>9. Finalized(v, t) <=> Finalized(s, t)
    BY <2>2 DEF Finalized
  <2>10. Finalized(s, t) => r.log[t] = s.log[t]
    BY <2>2, <2>3, <2>9 DEF Finalized
  <2>11. Known(s, t) => Known(r, t)
    BY <2>2, <2>3, <2>9 DEF Known
  <2>12. Finalized(p, t) => t \in recorded \/ (v.pending[t] /\ v.abort[t])
    BY <2>1, <2>3, <2>8, <2>9
  <2>13. Finalized(r, t) => Finalized(p, t) \/ t \in recorded
    BY <2>3, <2>7
  <2>14. Known(r, t) => t < tx_counter
    BY <2>1, <2>3, <2>5, <2>7, <2>8, <2>9 DEF Known
  <2>15. "Committed" # Undecided /\ "Aborted" # Undecided /\ "Aborted" # "Committed"
    BY DEF Undecided
  <2>16. r.log[t] = "Committed" => Finalized(states[Proposer(t)], t)
    BY <2>1, <2>2, <2>3, <2>7, <2>8, <2>15 DEF Brings
  <2>17. r.pending[t] => ~Finalized(r, t) /\ r.start[t] = t
    BY <2>3, <2>5
  <2>18. ASSUME NEW j \in r.bitmap[t]
         PROVE  j = i \/ took_part[j] >= t \/ (t <= tx /\ j = Initiator)
    <3>1. j \in s.bitmap[t] \/ (t <= tx /\ (j \in payload.flags_bitmap \/ j = i))
      BY <2>2, <2>3
    <3>2. CASE j \in s.bitmap[t]
      BY <2>1, <3>2
    <3>3. CASE t <= tx /\ j \in payload.flags_bitmap
      <4>1. j \in Node
        BY <1>1, <3>3, PacketFacts
      <4> QED
        BY <1>1, <1>2, <2>4, <3>3, <4>1
    <3> QED
      BY <3>1, <3>2, <3>3
  <2>19. <<i, t>> \in voted_no \/ (no /\ t = tx) => r.log[t] = "Aborted"
    <3>1. CASE no /\ t = tx
      BY <1>6, <2>2, <2>3, <3>1
    <3>2. CASE <<i, t>> \in voted_no
      BY <2>1, <2>2, <2>3, <2>10, <2>15, <3>2 DEF Finalized
    <3> QED
      BY <3>1, <3>2
  <2>20. <<Proposer(t), t>> \in voted_no => r.log[t] # "Committed" /\ ~r.pending[t]
    <3> SUFFICES ASSUME <<Proposer(t), t>> \in voted_no
                 PROVE  r.log[t] # "Committed" /\ ~r.pending[t]
      OBVIOUS
    <3>1. first /\ t = tx => Proposer(t) = Initiator
      BY <1>2, <1>10 DEF Proposer
    <3>2. v.pending[t] => v.abort[t]
      BY <1>2, <2>1, <2>2, <3>1
    <3>3. ~r.pending[t]
      BY <2>3, <2>15, <3>2 DEF Finalized
    <3>4. AtBound(v, t) => v.pending[t]
      BY DEF AtBound
    <3>5. ~(t = pb.tx /\ pb.state = "Committed")
      BY <2>8, <2>15 DEF Brings
    <3>6. r.log[t] # "Committed"
      BY <2>1, <2>2, <2>3, <3>2, <3>4, <3>5
    <3> QED
      BY <3>3, <3>6
  <2> QED
    BY <2>3, <2>5, <2>6, <2>10, <2>11, <2>12, <2>13, <2>14, <2>16, <2>17, <2>18, <2>19, <2>20
<1>13. v \in NodeTwoPcState /\ p \in NodeTwoPcState /\ r \in NodeTwoPcState
  BY <1>4, <1>8 DEF Votes, Concludes
<1> QED
  BY <1>s, <1>12, <1>13 DEF Served

-----------------------------------------------------------------------------
\* A log with NumTxs entries has an entry for every transaction.
LEMMA LogLenFacts ==
    ASSUME NEW s
    PROVE  LogLen(s) \in Nat /\ (LogLen(s) >= NumTxs => \A t \in Tx : Finalized(s, t))
<1> DEFINE D == {t \in Tx : Finalized(s, t)}
<1>1. IsFiniteSet(Tx) /\ Cardinality(Tx) = NumTxs
  BY NumTxsAssumption, FS_Interval DEF Tx
<1>2. D \in SUBSET Tx
  OBVIOUS
<1>3. IsFiniteSet(D) /\ Cardinality(D) <= Cardinality(Tx) /\ (Cardinality(Tx) = Cardinality(D) => Tx = D)
  <2> HIDE DEF D
  <2> QED
    BY <1>1, <1>2, FS_Subset
<1>4. Cardinality(D) \in Nat
  <2> HIDE DEF D
  <2> QED
    BY <1>3, FS_CardinalityType
<1>5. LogLen(s) = Cardinality(D)
  BY DEF LogLen
<1>6. Cardinality(D) >= NumTxs => Tx = D
  <2> HIDE DEF D
  <2> QED
    BY <1>1, <1>3, <1>4, TxFacts
<1> QED
  BY <1>4, <1>5, <1>6

\* process_round with the draws votes.
ProcessWith(votes) ==
    /\ pc = "process"
    /\ states' = [i \in Node |->
          IF i \in heard THEN Processed(i, states[i], payload, votes[i]) ELSE states[i]]
    /\ RecordDecided(ReportedAborts(votes), tx_starts, round_num + 1)
    /\ piggyback' = AnswerNack(votes)
    /\ voted_no' = voted_no \cup {<<i, payload.transaction_id>> : i \in {j \in Node : votes[j]}}
    /\ goal_reached' = [i \in Node |-> LogComplete(states'[i])]
    /\ progress_count' = Min({LogLen(states'[i]) : i \in Node})
    /\ took_part' = [i \in Node |-> IF i \in heard THEN payload.transaction_id ELSE took_part[i]]
    /\ EndRound(StopReason)
    /\ UNCHANGED <<tx_counter, tx_starts, payload>>

\* The loop at the end of a round, and what it leaves alone.
LEMMA ProcessLoop ==
    ASSUME TwoPcInv, NEW votes \in Draws, ProcessWith(votes)
    PROVE  /\ LoopInv' /\ pc' \in {"prepare", "stopped"} /\ round_num' \in {round_num, round_num + 1}
           /\ pc' = "prepare" => round_num' = round_num + 1
           /\ stopped_by' = "all_done" => AllResolved /\ ~Generating
           /\ UNCHANGED <<tx_counter, tx_starts, payload>>
           /\ pc = "process" /\ InRound
<1>1. StopReason \in StopReasons
  BY DEF StopReason, StopReasons
<1>2. LoopInv /\ EndRound(StopReason)
  BY DEF TwoPcInv, ProcessWith
<1>3. /\ LoopInv' /\ pc' \in {"prepare", "stopped"} /\ round_num' \in {round_num, round_num + 1}
      /\ pc' = "prepare" => round_num' = round_num + 1
      /\ stopped_by' \in {StopReason, "max_rounds"}
  BY <1>1, <1>2, EndRoundStep
<1>4. stopped_by' = "all_done" => AllResolved /\ ~Generating
  BY <1>3 DEF StopReason
<1> QED
  BY <1>3, <1>4 DEF ProcessWith, InRound

\* The votes of participant i and its state when it answers, in a round with these draws.
VotedIn(votes, i) == Voted(i, states[i], payload, votes[i])
AnswersIn(votes, i) == AfterPiggyback(i, states[i], payload, votes[i])

\* Every participant is served, the others are left alone, and no draw is made for them.
LEMMA ProcessServes ==
    ASSUME TwoPcInv, NEW votes \in Draws, ProcessWith(votes)
    PROVE  /\ \A i \in heard : /\ i \in Node
                               /\ Served(i, VotedIn(votes, i), AnswersIn(votes, i), states'[i], votes[i])
           /\ \A i \in Node : i \notin heard => states'[i] = states[i] /\ ~votes[i]
           /\ \A i \in Node : states'[i] \in NodeTwoPcState /\ states[i] \in NodeTwoPcState
           /\ states' \in [Node -> NodeTwoPcState]
           /\ \A i \in Node : votes[i] \in BOOLEAN /\ (votes[i] => FirstSight(states[i], payload))
<1>1. /\ heard \in SUBSET Node /\ \A i \in Node : states[i] \in NodeTwoPcState
      /\ pc = "process"
  BY PaceFacts DEF TwoPcInv, TypeOK, LoopTypeOK, ProcessWith
<1>2. \A i \in Node : /\ votes[i] \in BOOLEAN
                      /\ votes[i] => i \in heard /\ FirstSight(states[i], payload)
  BY DEF Draws
<1>3. states' = [i \in Node |-> IF i \in heard THEN Processed(i, states[i], payload, votes[i]) ELSE states[i]]
  BY DEF ProcessWith
<1>4. ASSUME NEW i \in heard
      PROVE  /\ i \in Node
             /\ Served(i, VotedIn(votes, i), AnswersIn(votes, i), states'[i], votes[i])
  <2>1. i \in Node /\ states'[i] = Processed(i, states[i], payload, votes[i])
    BY <1>1, <1>3
  <2>2. votes[i] \in BOOLEAN /\ (votes[i] => FirstSight(states[i], payload))
    BY <1>2, <2>1
  <2> DEFINE no == votes[i]
  <2>3. Served(i, Voted(i, states[i], payload, no), AfterPiggyback(i, states[i], payload, no),
               Processed(i, states[i], payload, no), no)
    <3> HIDE DEF no
    <3>1. no \in BOOLEAN /\ (no => FirstSight(states[i], payload))
      BY <2>2 DEF no
    <3> QED
      BY <1>1, <2>1, <3>1, ServedFacts
  <2> QED
    BY <2>1, <2>3 DEF VotedIn, AnswersIn
<1>5. \A i \in Node : i \notin heard => states'[i] = states[i] /\ ~votes[i]
  BY <1>2, <1>3
<1>6. \A i \in Node : states'[i] \in NodeTwoPcState
  <2> SUFFICES ASSUME NEW i \in Node
               PROVE  states'[i] \in NodeTwoPcState
    OBVIOUS
  <2>1. CASE i \in heard
    BY <1>4, <2>1 DEF Served
  <2>2. CASE i \notin heard
    BY <1>1, <1>5, <2>2
  <2> QED
    BY <2>1, <2>2
<1>7. states' \in [Node -> NodeTwoPcState]
  <2>1. states' = [i \in Node |-> states'[i]]
    BY <1>3
  <2> QED
    BY <1>6, <2>1
<1> QED
  BY <1>1, <1>2, <1>4, <1>5, <1>6, <1>7

\* What is reported are the abort flags of the participants' copies, and a report stays.
LEMMA ReportedFacts ==
    ASSUME TwoPcInv, NEW votes \in Draws, ProcessWith(votes)
    PROVE  /\ ReportedAborts(votes) \in [Tx -> {"Aborted", Undecided}]
           /\ \A t \in Tx : ReportedAborts(votes)[t] # Undecided <=>
                 \E i \in heard : VotedIn(votes, i).pending[t] /\ VotedIn(votes, i).abort[t]
           /\ recorded' = recorded \cup Decided(ReportedAborts(votes))
           /\ recorded \subseteq recorded' /\ recorded' \subseteq Tx
           /\ \A t \in Tx, i \in heard :
                 VotedIn(votes, i).pending[t] /\ VotedIn(votes, i).abort[t] => t \in recorded'
<1> DEFINE verdict == ReportedAborts(votes)
<1>1. verdict \in [Tx -> {"Aborted", Undecided}]
  BY DEF ReportedAborts
<1>2. ASSUME NEW t \in Tx
      PROVE  verdict[t] # Undecided <=>
                 \E i \in heard : VotedIn(votes, i).pending[t] /\ VotedIn(votes, i).abort[t]
  <2>1. verdict[t] # Undecided <=>
            \E i \in heard : FastAborts(VotedIn(votes, i))[t] # Undecided
    BY DEF ReportedAborts, VotedIn, Undecided
  <2>2. \A i \in heard : FastAborts(VotedIn(votes, i))[t] # Undecided <=>
                             VotedIn(votes, i).pending[t] /\ VotedIn(votes, i).abort[t]
    BY VerdictFacts DEF Undecided
  <2> HIDE DEF verdict
  <2> QED
    BY <2>1, <2>2
<1>3. recorded' = recorded \cup Decided(verdict)
  BY DEF ProcessWith, RecordDecided
<1>4. recorded \subseteq Tx /\ Decided(verdict) \subseteq Tx
  BY DEF TwoPcInv, TypeOK, Decided
<1>5. \A t \in Tx : t \in Decided(verdict) <=> verdict[t] # Undecided
  BY DEF Decided
<1> HIDE DEF verdict
<1>6. ASSUME NEW t \in Tx, NEW i \in heard, VotedIn(votes, i).pending[t], VotedIn(votes, i).abort[t]
      PROVE  t \in recorded'
  BY <1>2, <1>3, <1>5, <1>6
<1> QED
  BY <1>1, <1>2, <1>3, <1>4, <1>6 DEF verdict

\* What a participant knows once it was served was decided by someone or is still open.
LEMMA TookPartFacts ==
    ASSUME TwoPcInv, NEW votes \in Draws, ProcessWith(votes)
    PROVE  /\ took_part' \in [Node -> Tx \cup {None}]
           /\ \A j \in Node : /\ took_part'[j] \in Int /\ took_part[j] <= took_part'[j]
                              /\ took_part'[j] < tx_counter
                              /\ j \in heard => took_part'[j] = payload.transaction_id
           /\ Initiator \in heard
<1>1. /\ took_part \in [Node -> Tx \cup {None}] /\ payload \in Packet /\ tx_counter \in Nat
      /\ payload.transaction_id = tx_counter - 1 /\ payload.transaction_id \in Tx
      /\ \A j \in Node : took_part[j] < tx_counter /\ took_part[j] \in Int
      /\ Initiator \in heard
  BY PaceFacts, PacketFacts DEF TwoPcInv, TypeOK, ProcessWith, InRound, PaceInv, LoopInv
<1>2. took_part' = [i \in Node |-> IF i \in heard THEN payload.transaction_id ELSE took_part[i]]
  BY DEF ProcessWith
<1>3. took_part' \in [Node -> Tx \cup {None}]
  BY <1>1, <1>2
<1>4. ASSUME NEW j \in Node
      PROVE  /\ took_part'[j] \in Int /\ took_part[j] <= took_part'[j]
             /\ took_part'[j] < tx_counter
             /\ j \in heard => took_part'[j] = payload.transaction_id
  <2>1. took_part'[j] = IF j \in heard THEN payload.transaction_id ELSE took_part[j]
    BY <1>2
  <2> QED
    BY <1>1, <2>1
<1> QED
  BY <1>1, <1>3, <1>4

\* Every variable keeps its type at the end of a round.
LEMMA ProcessTypes ==
    ASSUME TwoPcInv, NEW votes \in Draws, ProcessWith(votes)
    PROVE  TypeOK'
<1>1. /\ LoopTypeOK' /\ states' \in [Node -> NodeTwoPcState]
      /\ UNCHANGED <<tx_counter, tx_starts, payload>>
      /\ took_part' \in [Node -> Tx \cup {None}] /\ recorded' \subseteq Tx
  BY ProcessLoop, ProcessServes, TookPartFacts, ReportedFacts DEF LoopInv
<1>2. records' \in SUBSET [tx : Tx, start : Nat, end : Nat, outcome : Decision]
  <2> DEFINE verdict == ReportedAborts(votes)
             R == [tx : Tx, start : Nat, end : Nat, outcome : Decision]
  <2>1. records' = records \cup RecordsOf(Decided(verdict) \ recorded, verdict, tx_starts, round_num + 1)
    BY DEF ProcessWith, RecordDecided
  <2>2. \A t \in Decided(verdict) : t \in Tx /\ verdict[t] = "Aborted"
    BY ReportedFacts DEF Decided
  <2>3. \A t \in Tx : StartOf(tx_starts, t) \in Nat
    BY DEF TwoPcInv, TypeOK, StartOf
  <2>4. round_num + 1 \in Nat /\ "Aborted" \in Decision /\ records \in SUBSET R
    BY PaceFacts, TxFacts DEF TwoPcInv, TypeOK
  <2> HIDE DEF verdict
  <2>5. \A t \in Decided(verdict) :
            [tx |-> t, start |-> StartOf(tx_starts, t), end |-> round_num + 1, outcome |-> verdict[t]] \in R
    BY <2>2, <2>3, <2>4
  <2>6. RecordsOf(Decided(verdict) \ recorded, verdict, tx_starts, round_num + 1) \subseteq R
    <3> HIDE DEF R
    <3> QED
      BY <2>5 DEF RecordsOf
  <2> QED
    BY <2>1, <2>4, <2>6
<1>3. piggyback' \in Piggyback
  <2> DEFINE n == payload.nack_tx_id
             holders == {i \in heard : Finalized(AnswersIn(votes, i), n)}
  <2>1. piggyback' = IF n > 0 /\ holders # {}
                     THEN [tx |-> n, state |-> AnswersIn(votes, Max(holders)).log[n]]
                     ELSE NoPiggyback
    BY DEF ProcessWith, AnswerNack, AnswersIn
  <2>2. NoPiggyback \in Piggyback
    BY DEF NoPiggyback, Piggyback
  <2>3. CASE n > 0 /\ holders # {}
    <3>1. Max(holders) \in heard
      <4>1. holders \in SUBSET Node /\ IsFiniteSet(holders) /\ holders \in SUBSET Int
        <5>1. holders \in SUBSET Node
          BY ProcessServes
        <5> HIDE DEF holders
        <5> QED
          BY <5>1, NodesAreFinite, FS_Subset
      <4>2. Max(holders) \in holders
        <5> HIDE DEF holders
        <5> QED
          BY <2>3, <4>1, MaxOfFinite
      <4> QED
        BY <4>2
    <3>2. n \in Tx
      BY PaceFacts, PacketFacts
    <3>3. AnswersIn(votes, Max(holders)) \in NodeTwoPcState
      BY <3>1, ProcessServes DEF Served
    <3>4. AnswersIn(votes, Max(holders)).log[n] \in Decision \cup {Undecided}
      BY <3>2, <3>3, StateFacts DEF Verdict
    <3> HIDE DEF holders, n
    <3> QED
      BY <2>1, <2>3, <3>2, <3>4 DEF Piggyback
  <2> QED
    BY <2>1, <2>2, <2>3
<1>4. goal_reached' \in [Node -> BOOLEAN]
  BY DEF ProcessWith, LogComplete
<1>5. progress_count' \in Nat
  <2> DEFINE f == [i \in Node |-> LogLen(states'[i])]
  <2>1. f \in [Node -> Int] /\ \A i \in Node : f[i] \in Nat
    BY LogLenFacts
  <2>2. progress_count' = Min({f[i] : i \in Node})
    BY DEF ProcessWith
  <2> HIDE DEF f
  <2>9. Min({f[i] : i \in Node}) \in {f[i] : i \in Node}
    <3>1. IsFiniteSet(Node) /\ Node # {}
      BY NodesAreFinite
    <3> QED
      BY <2>1, <3>1, LeastOver
  <2> QED
    BY <2>1, <2>2, <2>9
<1>6. voted_no' \in SUBSET (Node \X Tx)
  <2>1. payload.transaction_id \in Tx /\ voted_no \in SUBSET (Node \X Tx)
    BY PaceFacts, PacketFacts DEF TwoPcInv, TypeOK
  <2> QED
    BY <2>1 DEF ProcessWith
<1> QED
  BY <1>1, <1>2, <1>3, <1>4, <1>5, <1>6 DEF TypeOK, TwoPcInv

\* What a node knew and what it decided, it still knows and decided; no proposer turns to NO.
LEMMA ProcessKeepsKnown ==
    ASSUME TwoPcInv, NEW votes \in Draws, ProcessWith(votes)
    PROVE  /\ \A i \in Node, t \in Tx :
                 /\ Finalized(states[i], t) =>
                       states'[i].log[t] = states[i].log[t] /\ Finalized(states'[i], t)
                 /\ Known(states[i], t) => Known(states'[i], t)
           /\ \A i, t : <<i, t>> \in voted_no' <=>
                 <<i, t>> \in voted_no \/ (i \in Node /\ votes[i] /\ t = payload.transaction_id)
           /\ \A t \in Tx : <<Proposer(t), t>> \in voted_no' => <<Proposer(t), t>> \in voted_no
<1>1. ASSUME NEW i \in Node, NEW t \in Tx
      PROVE  /\ Finalized(states[i], t) =>
                   states'[i].log[t] = states[i].log[t] /\ Finalized(states'[i], t)
             /\ Known(states[i], t) => Known(states'[i], t)
  <2>1. CASE i \in heard
    <3>1. Served(i, VotedIn(votes, i), AnswersIn(votes, i), states'[i], votes[i])
      BY <2>1, ProcessServes
    <3>2. /\ Finalized(states[i], t) => states'[i].log[t] = states[i].log[t]
          /\ Known(states[i], t) => Known(states'[i], t)
      BY <3>1 DEF Served
    <3> QED
      BY <3>2 DEF Finalized
  <2>2. CASE i \notin heard
    BY <2>2, ProcessServes
  <2> QED
    BY <2>1, <2>2
<1>2. \A i, t : <<i, t>> \in voted_no' <=>
          <<i, t>> \in voted_no \/ (i \in Node /\ votes[i] /\ t = payload.transaction_id)
  BY DEF ProcessWith
<1>3. ASSUME NEW t \in Tx, <<Proposer(t), t>> \in voted_no'
      PROVE  <<Proposer(t), t>> \in voted_no
  <2> SUFFICES ASSUME votes[Proposer(t)], t = payload.transaction_id
               PROVE  FALSE
    BY <1>2, <1>3
  <2>1. /\ Proposer(t) \in Node /\ payload.transaction_id = tx_counter - 1 /\ tx_counter \in Nat
    BY PaceFacts, ProcessLoop DEF TwoPcInv, PaceInv
  <2>2. ~Known(states[Proposer(t)], t)
    BY <2>1, ProcessServes DEF FirstSight
  <2>3. t < tx_counter
    BY <2>1
  <2> QED
    BY <2>2, <2>3 DEF TwoPcInv, ProposerInv
<1> QED
  BY <1>1, <1>2, <1>3

\* What each node says of each transaction stays sound.
LEMMA ProcessKeepsNodes ==
    ASSUME TwoPcInv, NEW votes \in Draws, ProcessWith(votes), NEW i \in Node, NEW t \in Tx
    PROVE  NodeInv(i, states[i], t)'
<1> DEFINE r == states'[i]
           tx == payload.transaction_id
<1>1. /\ tx_counter' = tx_counter /\ recorded \subseteq recorded'
      /\ Proposer(t) \in Node /\ t \in Int /\ tx \in Int
      /\ Finalized(states[Proposer(t)], t) => Finalized(states'[Proposer(t)], t)
  BY ProcessLoop, ReportedFacts, ProcessKeepsKnown, PaceFacts, PacketFacts, TxFacts
<1>2. /\ <<i, t>> \in voted_no' => <<i, t>> \in voted_no \/ (votes[i] /\ t = tx)
      /\ <<Proposer(t), t>> \in voted_no' => <<Proposer(t), t>> \in voted_no
  BY ProcessKeepsKnown
<1>3. /\ \A j \in Node : took_part[j] \in Int /\ took_part'[j] \in Int /\ took_part[j] <= took_part'[j]
      /\ Initiator \in Node /\ took_part'[Initiator] = tx
  BY TookPartFacts, PaceFacts
<1>4. states[i] \in NodeTwoPcState /\ r \in NodeTwoPcState
  BY ProcessServes
<1>5. states[i].bitmap[t] \in SUBSET Node /\ r.bitmap[t] \in SUBSET Node
  BY <1>4, StateFacts
<1>q. Proposer(t)' = Proposer(t)
  BY DEF Proposer, InitiatorOf
<1> SUFFICES /\ Known(r, t) => t < tx_counter
             /\ r.pending[t] => ~Finalized(r, t) /\ r.start[t] = t
             /\ Finalized(r, t) => t \in recorded'
             /\ r.log[t] = "Committed" => Finalized(states'[Proposer(t)], t)
             /\ \A j \in r.bitmap[t] : j = i \/ took_part'[j] >= t
             /\ <<i, t>> \in voted_no' => r.log[t] = "Aborted" \/ (r.pending[t] /\ r.abort[t])
             /\ <<Proposer(t), t>> \in voted_no' =>
                   r.log[t] # "Committed" /\ (r.pending[t] => r.abort[t])
  BY <1>1, <1>q DEF NodeInv, Known, Finalized
<1>6. CASE i \in heard
  <2> DEFINE v == VotedIn(votes, i)
             p == AnswersIn(votes, i)
  <2>1. Served(i, v, p, r, votes[i])
    BY <1>6, ProcessServes
  <2>r. v.pending[t] /\ v.abort[t] => t \in recorded'
    BY <1>6, ReportedFacts
  <2> HIDE DEF r, v, p, tx
  <2>2. /\ Known(r, t) => t < tx_counter
        /\ Finalized(p, t) => t \in recorded \/ (v.pending[t] /\ v.abort[t])
        /\ Finalized(r, t) => Finalized(p, t) \/ t \in recorded
        /\ r.log[t] = "Committed" => Finalized(states[Proposer(t)], t)
        /\ r.pending[t] => ~Finalized(r, t) /\ r.start[t] = t
        /\ \A j \in r.bitmap[t] :
              j = i \/ took_part[j] >= t \/ (t <= tx /\ j = Initiator)
        /\ <<i, t>> \in voted_no \/ (votes[i] /\ t = tx) => r.log[t] = "Aborted"
        /\ <<Proposer(t), t>> \in voted_no => r.log[t] # "Committed" /\ ~r.pending[t]
    BY <2>1 DEF Served, tx
  <2>3. \A j \in r.bitmap[t] : j = i \/ took_part'[j] >= t
    BY <1>1, <1>3, <1>5, <2>2
  <2>4. Finalized(r, t) => t \in recorded'
    BY <1>1, <2>2, <2>r
  <2> QED
    BY <1>1, <1>2, <2>2, <2>3, <2>4
<1>7. CASE i \notin heard
  <2>1. r = states[i] /\ ~votes[i]
    BY <1>7, ProcessServes
  <2>2. NodeInv(i, r, t)
    BY <2>1 DEF TwoPcInv
  <2> HIDE DEF r, tx
  <2>3. \A j \in r.bitmap[t] : j = i \/ took_part'[j] >= t
    BY <1>1, <1>3, <1>5, <2>2 DEF NodeInv
  <2> QED
    BY <1>1, <1>2, <2>1, <2>2, <2>3 DEF NodeInv
<1> QED
  BY <1>6, <1>7

\* The decision prepared for a NACK is reported, and so is the one in the packet.
LEMMA ProcessKeepsPackets ==
    ASSUME TwoPcInv, NEW votes \in Draws, ProcessWith(votes)
    PROVE  PacketInv'
<1>1. pc' \in {"prepare", "stopped"} /\ UNCHANGED <<payload, tx_counter>> /\ recorded \subseteq recorded'
  BY ProcessLoop, ReportedFacts
<1>2. GoodPiggyback(payload.piggyback)'
  <2> DEFINE pb == payload.piggyback
  <2>1. GoodPiggyback(pb) /\ pb' = pb
    BY <1>1 DEF TwoPcInv, PacketInv
  <2> HIDE DEF pb
  <2>2. \A t \in Tx : /\ Proposer(t) \in Node
                      /\ Finalized(states[Proposer(t)], t) => Finalized(states'[Proposer(t)], t)
                      /\ <<Proposer(t), t>> \in voted_no' => <<Proposer(t), t>> \in voted_no
    BY PaceFacts, ProcessKeepsKnown
  <2>3. \A t : Proposer(t)' = Proposer(t)
    BY DEF Proposer, InitiatorOf
  <2> SUFFICES GoodPiggyback(pb)'
    BY DEF pb
  <2>4. pb.state # Undecided =>
            /\ pb.tx \in Tx /\ pb.tx < tx_counter' /\ pb.tx \in recorded'
            /\ pb.state = "Committed" =>
                  Finalized(states'[Proposer(pb.tx)], pb.tx) /\ <<Proposer(pb.tx), pb.tx>> \notin voted_no'
    BY <1>1, <2>1, <2>2 DEF GoodPiggyback
  <2> QED
    BY <2>1, <2>3, <2>4 DEF GoodPiggyback, Finalized
<1>3. GoodPiggyback(piggyback)'
  <2> DEFINE n == payload.nack_tx_id
             holders == {i \in heard : Finalized(AnswersIn(votes, i), n)}
             m == Max(holders)
             p == AnswersIn(votes, m)
  <2>1. piggyback' = IF n > 0 /\ holders # {} THEN [tx |-> n, state |-> p.log[n]] ELSE NoPiggyback
    BY DEF ProcessWith, AnswerNack, AnswersIn
  <2>2. CASE n > 0 /\ holders # {}
    <3>1. m \in heard /\ Finalized(p, n) /\ m \in Node
      <4>1. holders \in SUBSET Node
        BY ProcessServes
      <4>2. holders \in SUBSET Node /\ IsFiniteSet(holders) /\ holders \in SUBSET Int
        <5> HIDE DEF holders
        <5> QED
          BY <4>1, NodesAreFinite, FS_Subset
      <4>3. m \in holders
        <5> HIDE DEF holders
        <5> QED
          BY <2>2, <4>2, MaxOfFinite
      <4> QED
        BY <4>1, <4>3
    <3>2. n \in Tx
      BY PaceFacts, PacketFacts
    <3> DEFINE r == states'[m]
    <3>3. Served(m, VotedIn(votes, m), p, r, votes[m])
      BY <3>1, ProcessServes
    <3>4. ASSUME NEW i \in Node, NEW t \in Tx
          PROVE  /\ Known(states'[i], t) => t < tx_counter'
                 /\ Finalized(states'[i], t) => t \in recorded'
                 /\ states'[i].log[t] = "Committed" => Finalized(states'[Proposer(t)], t)
                 /\ <<Proposer(t), t>> \in voted_no' => states'[i].log[t] # "Committed"
      <4>1. NodeInv(i, states[i], t)'
        BY ProcessKeepsNodes
      <4>2. Proposer(t)' = Proposer(t)
        BY DEF Proposer, InitiatorOf
      <4> QED
        BY <4>1, <4>2 DEF NodeInv, Known, Finalized
    <3>5. /\ Known(r, n) => n < tx_counter'
          /\ Finalized(r, n) => n \in recorded'
          /\ r.log[n] = "Committed" => Finalized(states'[Proposer(n)], n)
          /\ <<Proposer(n), n>> \in voted_no' => r.log[n] # "Committed"
      BY <3>1, <3>2, <3>4
    <3>6. r.log[n] = p.log[n]
      BY <3>1, <3>2, <3>3 DEF Served
    <3>7. piggyback'.tx = n /\ piggyback'.state = p.log[n]
      BY <2>1, <2>2
    <3>8. Finalized(r, n)
      BY <3>1, <3>6 DEF Finalized
    <3> HIDE DEF n, holders, m, p, r
    <3>9. \A t : Proposer(t)' = Proposer(t)
      BY DEF Proposer, InitiatorOf
    <3> QED
      BY <3>2, <3>5, <3>6, <3>7, <3>8, <3>9 DEF GoodPiggyback, Finalized, Known
  <2>3. CASE ~(n > 0 /\ holders # {})
    <3>1. piggyback'.state = Undecided
      BY <2>1, <2>3 DEF NoPiggyback
    <3> QED
      BY <3>1 DEF GoodPiggyback
  <2> QED
    BY <2>2, <2>3
<1> QED
  BY <1>1, <1>2, <1>3 DEF PacketInv, InRound

\* A fast abort is reported once, within the window of its transaction.
LEMMA ProcessKeepsRecords ==
    ASSUME TwoPcInv, NEW votes \in Draws, ProcessWith(votes)
    PROVE  RecordsInv'
<1> DEFINE verdict == ReportedAborts(votes)
           fresh == Decided(verdict) \ recorded
           new(t) == [tx |-> t, start |-> StartOf(tx_starts, t), end |-> round_num + 1,
                      outcome |-> verdict[t]]
<1>1. /\ recorded' = recorded \cup Decided(verdict)
      /\ records' = records \cup {new(t) : t \in fresh}
      /\ UNCHANGED <<tx_counter, tx_starts>>
  BY ProcessLoop DEF ProcessWith, RecordDecided, RecordsOf
<1>2. RecordsInv /\ tx_counter \in Nat /\ round_num \in Nat /\ N \in Nat
  BY PaceFacts, TxFacts DEF TwoPcInv
<1>3. ASSUME NEW t \in fresh
      PROVE  /\ t \in Tx /\ t \in Int /\ t < tx_counter /\ t \notin recorded
             /\ StartOf(tx_starts, t) = t /\ round_num + 1 <= t + N /\ verdict[t] = "Aborted"
  <2>1. t \in Tx /\ verdict[t] # Undecided /\ t \notin recorded
    BY DEF Decided
  <2>2. PICK i \in heard : VotedIn(votes, i).pending[t] /\ VotedIn(votes, i).abort[t]
    BY <2>1, ReportedFacts
  <2>3. Served(i, VotedIn(votes, i), AnswersIn(votes, i), states'[i], votes[i])
    BY ProcessServes
  <2>4. t < tx_counter /\ round_num + 1 <= t + N
    BY <2>1, <2>2, <2>3 DEF Served
  <2>5. t \in Int /\ 0 <= t /\ StartOf(tx_starts, t) = t
    BY <2>1, <2>4, TxFacts DEF TwoPcInv, PaceInv, StartOf
  <2>6. verdict[t] = "Aborted"
    BY <2>1, ReportedFacts
  <2> QED
    BY <2>1, <2>4, <2>5, <2>6
<1>4. fresh = Decided(verdict) \ recorded
  OBVIOUS
<1> HIDE DEF verdict, fresh
<1>5. recorded' = {r.tx : r \in records'}
  <2>1. \A t \in fresh : new(t).tx = t
    OBVIOUS
  <2>2. recorded' = recorded \cup fresh
    BY <1>1, <1>4
  <2>3. recorded = {r.tx : r \in records}
    BY <1>2 DEF RecordsInv
  <2> HIDE DEF new
  <2> QED
    BY <1>1, <2>1, <2>2, <2>3
<1>6. \A r, q \in records' : r.tx = q.tx => r = q
  <2>1. \A t \in fresh : new(t).tx = t /\ t \notin recorded
    BY <1>4
  <2>2. recorded = {r.tx : r \in records} /\ \A r, q \in records : r.tx = q.tx => r = q
    BY <1>2 DEF RecordsInv
  <2> HIDE DEF new
  <2> QED
    BY <1>1, <2>1, <2>2
<1>7. ASSUME NEW r \in records'
      PROVE  /\ r.tx < tx_counter /\ r.start = r.tx /\ r.end <= r.tx + N
             /\ r.outcome = "Committed" => r.end = r.tx + N
  <2>1. CASE r \in records
    BY <1>2, <2>1 DEF RecordsInv
  <2>2. CASE \E t \in fresh : r = new(t)
    <3>1. PICK t \in fresh : r = new(t)
      BY <2>2
    <3>2. r.tx = t /\ r.start = StartOf(tx_starts, t) /\ r.end = round_num + 1 /\ r.outcome = verdict[t]
      BY <3>1
    <3> QED
      BY <1>3, <3>2
  <2> QED
    BY <1>1, <2>1, <2>2
<1> QED
  BY <1>1, <1>5, <1>6, <1>7 DEF RecordsInv

\* The next round is one later, and no proposer is late in it.
LEMMA ProcessKeepsPace ==
    ASSUME TwoPcInv, NEW votes \in Draws, ProcessWith(votes)
    PROVE  PaceInv' /\ ProposerInv' /\ StopSound'
<1>1. /\ pc' \in {"prepare", "stopped"} /\ round_num' \in {round_num, round_num + 1}
      /\ pc' = "prepare" => round_num' = round_num + 1
      /\ stopped_by' = "all_done" => AllResolved /\ ~Generating
      /\ UNCHANGED <<tx_counter, tx_starts, payload>> /\ InRound
  BY ProcessLoop
<1>2. round_num \in Nat /\ NumTxs \in Nat /\ N \in Nat
  BY PaceFacts, TxFacts
<1>3. PaceInv'
  <2>1. tx_counter = IF round_num < NumTxs THEN round_num + 1 ELSE NumTxs
    BY <1>1 DEF TwoPcInv, PaceInv
  <2>2. pc' = "prepare" => tx_counter' = IF round_num' < NumTxs THEN round_num' ELSE NumTxs
    BY <1>1, <1>2, <2>1
  <2> QED
    BY <1>1, <2>2 DEF TwoPcInv, PaceInv, InRound
<1>4. ProposerInv'
  <2> SUFFICES ASSUME NEW t \in Tx, t < tx_counter
               PROVE  /\ Known(states'[Proposer(t)], t)
                      /\ round_num' > t + N \/ (round_num' = t + N /\ InRound') =>
                            Finalized(states'[Proposer(t)], t)
    <3>1. \A t : Proposer(t)' = Proposer(t)
      BY DEF Proposer, InitiatorOf
    <3> QED
      BY <1>1, <3>1 DEF ProposerInv, Known, Finalized
  <2>1. Proposer(t) \in Node /\ t \in Int
    BY PaceFacts, TxFacts
  <2>2. Known(states[Proposer(t)], t)
    BY DEF TwoPcInv, ProposerInv
  <2>3. round_num' > t + N => round_num > t + N \/ (round_num = t + N /\ InRound)
    BY <1>1, <1>2, <2>1
  <2>4. ~InRound'
    BY <1>1 DEF InRound
  <2>5. round_num' > t + N => Finalized(states[Proposer(t)], t)
    BY <2>3 DEF TwoPcInv, ProposerInv
  <2> QED
    BY <2>1, <2>2, <2>4, <2>5, ProcessKeepsKnown
<1>5. StopSound'
  <2> SUFFICES ASSUME stopped_by' = "all_done"
               PROVE  /\ recorded' = Tx
                      /\ \A i \in Node : goal_reached'[i] /\ \A t \in Tx : Finalized(states'[i], t)
    BY DEF StopSound, Finalized
  <2>1. \A i \in Node : LogComplete(states'[i])
    BY <1>1 DEF AllResolved
  <2>2. goal_reached' = [i \in Node |-> LogComplete(states'[i])]
    BY DEF ProcessWith
  <2>3. \A i \in Node : goal_reached'[i]
    <3> HIDE DEF LogComplete
    <3> QED
      BY <2>1, <2>2
  <2>4. \A i \in Node, t \in Tx : Finalized(states'[i], t)
    BY <2>1, LogLenFacts DEF LogComplete
  <2>5. \A t \in Tx : t \in recorded'
    <3> SUFFICES ASSUME NEW t \in Tx PROVE t \in recorded'
      OBVIOUS
    <3>1. Initiator \in Node
      BY PaceFacts
    <3>2. PICK i \in Node : Finalized(states'[i], t)
      BY <2>4, <3>1
    <3>3. NodeInv(i, states[i], t)'
      BY ProcessKeepsNodes
    <3>4. Finalized(states'[i], t) => t \in recorded'
      BY <3>3 DEF NodeInv, Finalized
    <3> QED
      BY <3>2, <3>4
  <2>6. recorded' = Tx
    BY <2>5, ReportedFacts
  <2> QED
    BY <2>3, <2>4, <2>6
<1> QED
  BY <1>3, <1>4, <1>5

\* process_round preserves the invariant.
LEMMA ProcessStep ==
    ASSUME TwoPcInv, ProcessRound
    PROVE  TwoPcInv'
<1>1. PICK votes \in Draws : ProcessWith(votes)
  BY DEF ProcessRound, ProcessWith
<1>2. \A i \in Node : took_part'[i] < tx_counter'
  BY <1>1, TookPartFacts, ProcessLoop
<1>3. \A i \in Node, t \in Tx : NodeInv(i, states[i], t)'
  BY <1>1, ProcessKeepsNodes
<1>4. LoopInv' /\ TypeOK'
  BY <1>1, ProcessLoop, ProcessTypes
<1> QED
  BY <1>1, <1>2, <1>3, <1>4, ProcessKeepsPackets, ProcessKeepsRecords, ProcessKeepsPace DEF TwoPcInv

-----------------------------------------------------------------------------
\* The transaction of the round, and the states of the initiator while it prepares it.
Current == IF Generating THEN tx_counter ELSE tx_counter - 1
OpenedIn(no) == Opened(Initiator, no)
VerdictIn(no) == BoundedVerdict(OpenedIn(no), round_num)
FinalizedIn(no) == FinalizeTx(OpenedIn(no), VerdictIn(no))
AbortIn(no) == FinalizedIn(no).pending[Current] /\ FinalizedIn(no).abort[Current]

\* prepare_round with the draw no.
PrepareWith(no) ==
    /\ pc = "prepare"
    /\ no => Generating
    /\ states' = [states EXCEPT ![Initiator] = FinalizedIn(no)]
    /\ tx_starts' = IF Generating THEN [tx_starts EXCEPT ![Current] = round_num] ELSE tx_starts
    /\ RecordDecided(VerdictIn(no), tx_starts', round_num)
    /\ payload' =
          [transaction_id |-> Current, has_data |-> Generating,
           flags_bitmap |-> FinalizedIn(no).bitmap[Current] \cup (IF AbortIn(no) THEN {} ELSE {Initiator}),
           abort_flag |-> AbortIn(no),
           nack_tx_id |-> NackFor(states[Initiator], tx_counter),
           sender |-> Initiator, piggyback |-> piggyback]
    /\ voted_no' = voted_no \cup (IF no THEN {<<Initiator, Current>>} ELSE {})
    /\ tx_counter' = IF Generating THEN tx_counter + 1 ELSE tx_counter
    /\ pc' = "flood"
    /\ UNCHANGED <<round_num, heard, stopped_by, piggyback, goal_reached, progress_count, took_part>>

\* The pace of the loop at the head of a round.
LEMMA PreparePace ==
    ASSUME TwoPcInv, NEW no \in BOOLEAN, PrepareWith(no)
    PROVE  /\ round_num \in Nat /\ tx_counter \in Nat /\ Initiator \in Node /\ Current \in Tx
           /\ Generating => tx_counter = round_num /\ Current = tx_counter
           /\ ~Generating => tx_counter = NumTxs
           /\ Current = tx_counter' - 1 /\ tx_counter' \in Nat /\ tx_counter <= tx_counter'
           /\ tx_counter' <= NumTxs
           /\ states[Initiator] \in NodeTwoPcState
           /\ \A i \in Node : Generating => ~Known(states[i], Current)
           /\ \A t \in Tx : t < tx_counter' <=> t < tx_counter \/ (Generating /\ t = Current)
<1>1. /\ round_num \in Nat /\ tx_counter \in Nat /\ Initiator \in Node
      /\ tx_counter = (IF round_num < NumTxs THEN round_num ELSE NumTxs) /\ NumTxs \in Nat /\ NumTxs >= 1
      /\ tx_counter' = IF Generating THEN tx_counter + 1 ELSE tx_counter
      /\ \A i \in Node : states[i] \in NodeTwoPcState
      /\ \A t : t \in Tx <=> t \in Int /\ 0 <= t /\ t < NumTxs
  BY PaceFacts, TxFacts, NumTxsAssumption DEF TwoPcInv, PaceInv, PrepareWith
<1>2. Generating <=> tx_counter < NumTxs
  BY DEF Generating
<1>3. Current = IF Generating THEN tx_counter ELSE tx_counter - 1
  BY DEF Current
<1>4. Current \in Tx /\ (Generating => Current = tx_counter)
  BY <1>1, <1>2, <1>3
<1>5. ASSUME NEW i \in Node, Generating
      PROVE  ~Known(states[i], Current)
  <2>1. Known(states[i], Current) => Current < tx_counter
    BY <1>4 DEF TwoPcInv, NodeInv
  <2> QED
    BY <1>1, <1>4, <1>5, <2>1
<1>6. \A t \in Tx : t < tx_counter' <=> t < tx_counter \/ (Generating /\ t = Current)
  BY <1>1, <1>2, <1>3
<1> QED
  BY <1>1, <1>2, <1>3, <1>4, <1>5, <1>6

(***************************************************************************)
(* The initiator's state s once it opened its transaction and finalized    *)
(* what has reached the bound, with that verdict.                          *)
(***************************************************************************)
Prepares(no, verdict, s) ==
    LET q == states[Initiator]
    IN  /\ s \in NodeTwoPcState /\ verdict \in Verdict
        /\ \A t \in Tx :
              /\ Finalized(q, t) => s.log[t] = q.log[t]
              /\ Known(q, t) => Known(s, t)
              /\ Known(s, t) => t < tx_counter'
              /\ verdict[t] # Undecided =>
                    t < tx_counter /\ q.pending[t] /\ round_num >= t + N /\ s.log[t] = verdict[t]
              /\ verdict[t] = "Committed" => ~q.abort[t]
              /\ Finalized(s, t) => Finalized(q, t) \/ verdict[t] # Undecided
              /\ s.pending[t] => ~Finalized(s, t) /\ s.start[t] = t
              /\ Known(q, t) /\ round_num >= t + N => Finalized(s, t)
              /\ s.bitmap[t] \subseteq q.bitmap[t] \cup {Initiator}
              /\ s.pending[t] /\ q.pending[t] => (s.abort[t] <=> q.abort[t])
              /\ Generating /\ t = Current => s.pending[t] /\ (s.abort[t] <=> no)
              /\ s.pending[t] => q.pending[t] \/ (Generating /\ t = Current)

\* Preparing a round opens its transaction and finalizes what has reached the bound.
LEMMA PreparedFacts ==
    ASSUME TwoPcInv, NEW no \in BOOLEAN, PrepareWith(no)
    PROVE  Prepares(no, VerdictIn(no), FinalizedIn(no))
<1> DEFINE q == states[Initiator]
           o == OpenedIn(no)
           verdict == VerdictIn(no)
           s == FinalizedIn(no)
           x == Current
<1>1. /\ round_num \in Nat /\ tx_counter \in Nat /\ x \in Tx /\ q \in NodeTwoPcState
      /\ Generating => tx_counter = round_num /\ x = tx_counter /\ ~Known(q, x)
      /\ \A t \in Tx : t < tx_counter' <=> t < tx_counter \/ (Generating /\ t = x)
      /\ N \in Nat /\ N >= 2 /\ Initiator \in Node /\ \A t \in Tx : t \in Int
  BY PreparePace, TxFacts
<1>2. \A t \in Tx : NodeInv(Initiator, q, t)
  BY <1>1 DEF TwoPcInv
<1>3. /\ verdict = BoundedVerdict(o, round_num)
      /\ s = FinalizeTx(o, verdict)
  BY DEF FinalizedIn, VerdictIn
<1>4. o = IF Generating THEN PushPending(q, x, IF no THEN {} ELSE {Initiator}, no, round_num) ELSE q
  BY DEF OpenedIn, Opened, Current
<1> HIDE DEF o, s, x, verdict
<1>5. /\ o \in NodeTwoPcState
      /\ \A t \in Tx :
            /\ o.log[t] = q.log[t]
            /\ o.pending[t] <=> q.pending[t] \/ (Generating /\ t = x)
            /\ o.bitmap[t] \subseteq q.bitmap[t] \cup {Initiator}
            /\ o.abort[t] <=> IF Generating /\ t = x THEN no ELSE q.abort[t]
            /\ o.start[t] = IF Generating /\ t = x THEN round_num ELSE q.start[t]
  <2>1. CASE Generating
    <3> DEFINE bits == IF no THEN {} ELSE {Initiator}
    <3>1. bits \in SUBSET Node /\ bits \subseteq {Initiator}
      BY <1>1
    <3>2. o = PushPending(q, x, bits, no, round_num)
      BY <1>4, <2>1
    <3> HIDE DEF bits, q
    <3>3. Pushes(q, x, bits, no, round_num, o)
      BY <1>1, <3>1, <3>2, PushFacts
    <3> QED
      BY <2>1, <3>1, <3>3 DEF Pushes
  <2>2. CASE ~Generating
    BY <1>1, <1>4, <2>2
  <2> QED
    BY <2>1, <2>2
<1>6. verdict \in Verdict /\ Finalizes(o, verdict, s)
  BY <1>3, <1>5, FinalizeFacts, VerdictFacts
<1>q. q = states[Initiator] /\ x = Current /\ s = FinalizedIn(no) /\ verdict = VerdictIn(no)
  BY DEF x, s, verdict
<1> HIDE DEF q
<1>7. ASSUME NEW t \in Tx
      PROVE  /\ Finalized(q, t) => s.log[t] = q.log[t]
             /\ Known(q, t) => Known(s, t)
             /\ Known(s, t) => t < tx_counter'
             /\ verdict[t] # Undecided =>
                   t < tx_counter /\ q.pending[t] /\ round_num >= t + N /\ s.log[t] = verdict[t]
             /\ verdict[t] = "Committed" => ~q.abort[t]
             /\ Finalized(s, t) => Finalized(q, t) \/ verdict[t] # Undecided
             /\ s.pending[t] => ~Finalized(s, t) /\ s.start[t] = t
             /\ Known(q, t) /\ round_num >= t + N => Finalized(s, t)
             /\ s.bitmap[t] \subseteq q.bitmap[t] \cup {Initiator}
             /\ s.pending[t] /\ q.pending[t] => (s.abort[t] <=> q.abort[t])
             /\ Generating /\ t = x => s.pending[t] /\ (s.abort[t] <=> no)
             /\ s.pending[t] => q.pending[t] \/ (Generating /\ t = x)
  <2>1. /\ o.log[t] = q.log[t]
        /\ o.pending[t] <=> q.pending[t] \/ (Generating /\ t = x)
        /\ o.bitmap[t] \subseteq q.bitmap[t] \cup {Initiator}
        /\ o.abort[t] <=> IF Generating /\ t = x THEN no ELSE q.abort[t]
        /\ o.start[t] = IF Generating /\ t = x THEN round_num ELSE q.start[t]
    BY <1>5
  <2>2. /\ Known(q, t) => t < tx_counter
        /\ q.pending[t] => ~Finalized(q, t) /\ q.start[t] = t
    BY <1>2 DEF NodeInv
  <2>3. /\ s.log[t] = IF Finalized(o, t) THEN o.log[t] ELSE verdict[t]
        /\ s.pending[t] <=> o.pending[t] /\ (Finalized(o, t) \/ verdict[t] = Undecided)
        /\ s.bitmap[t] \subseteq o.bitmap[t]
        /\ s.pending[t] => (s.abort[t] <=> o.abort[t]) /\ s.start[t] = o.start[t]
    BY <1>6 DEF Finalizes
  <2>4. /\ verdict[t] # Undecided <=> Due(o, t, round_num)
        /\ verdict[t] = "Committed" => ~o.abort[t]
    BY <1>3, VerdictFacts
  <2>5. Generating /\ t = x => ~Known(q, t) /\ t = round_num /\ t = tx_counter
    BY <1>1
  <2>6. Finalized(o, t) <=> Finalized(q, t)
    BY <2>1 DEF Finalized
  <2>7. o.pending[t] => ~Finalized(o, t) /\ o.start[t] = t
    BY <2>1, <2>2, <2>5, <2>6 DEF Known
  <2>8. Due(o, t, round_num) <=> q.pending[t] /\ round_num >= t + N
    <3>1. Due(o, t, round_num) <=> o.pending[t] /\ round_num >= t + N
      BY <2>7 DEF Due
    <3>2. Generating /\ t = x => ~(round_num >= t + N) /\ ~q.pending[t]
      BY <1>1, <2>5 DEF Known
    <3> QED
      BY <2>1, <3>1, <3>2
  <2>9. verdict[t] # Undecided =>
            t < tx_counter /\ q.pending[t] /\ round_num >= t + N /\ s.log[t] = verdict[t]
    BY <2>2, <2>3, <2>4, <2>6, <2>8 DEF Known
  <2>10. "Committed" # Undecided
    BY DEF Undecided
  <2>11. verdict[t] = "Committed" => ~q.abort[t]
    BY <2>1, <2>4, <2>5, <2>9, <2>10 DEF Known
  <2>12. Finalized(s, t) => Finalized(q, t) \/ verdict[t] # Undecided
    BY <2>3, <2>6 DEF Finalized
  <2>13. Finalized(q, t) => s.log[t] = q.log[t]
    BY <2>1, <2>3, <2>6
  <2>14. s.pending[t] => ~Finalized(s, t) /\ s.start[t] = t
    BY <2>3, <2>7 DEF Finalized
  <2>15. q.pending[t] => s.pending[t] \/ Finalized(s, t)
    BY <2>1, <2>3, <2>9 DEF Finalized
  <2>16. Known(q, t) => Known(s, t)
    BY <2>13, <2>15 DEF Known, Finalized
  <2>17. Known(s, t) => t < tx_counter'
    BY <1>1, <2>1, <2>2, <2>3, <2>9, <2>12 DEF Known
  <2>18. Known(q, t) /\ round_num >= t + N => Finalized(s, t)
    BY <2>4, <2>8, <2>9, <2>13 DEF Known, Finalized
  <2>19. Generating /\ t = x => s.pending[t] /\ (s.abort[t] <=> no)
    BY <2>1, <2>3, <2>5, <2>9 DEF Known
  <2>20. s.pending[t] /\ q.pending[t] => (s.abort[t] <=> q.abort[t])
    BY <2>1, <2>3, <2>5 DEF Known
  <2>21. s.pending[t] => q.pending[t] \/ (Generating /\ t = x)
    BY <2>1, <2>3
  <2>22. s.bitmap[t] \subseteq q.bitmap[t] \cup {Initiator}
    BY <2>1, <2>3
  <2> QED
    BY <2>9, <2>11, <2>12, <2>13, <2>14, <2>16, <2>17, <2>18, <2>19, <2>20, <2>21, <2>22
<1>8. s \in NodeTwoPcState
  BY <1>6 DEF Finalizes
<1>9. Prepares(no, verdict, s)
  BY <1>6, <1>7, <1>8, <1>q DEF Prepares
<1> QED
  BY <1>9, <1>q

\* What a node knew and decided stays; the only NO drawn is the initiator's, on its new transaction.
LEMMA PrepareKeepsKnown ==
    ASSUME TwoPcInv, NEW no \in BOOLEAN, PrepareWith(no)
    PROVE  /\ Prepares(no, VerdictIn(no), states'[Initiator])
           /\ \A i \in Node : i # Initiator => states'[i] = states[i]
           /\ \A i \in Node, t \in Tx :
                 /\ Finalized(states[i], t) =>
                       states'[i].log[t] = states[i].log[t] /\ Finalized(states'[i], t)
                 /\ Known(states[i], t) => Known(states'[i], t)
           /\ recorded' = recorded \cup Decided(VerdictIn(no))
           /\ states' \in [Node -> NodeTwoPcState]
           /\ \A i, t : <<i, t>> \in voted_no' <=>
                 <<i, t>> \in voted_no \/ (no /\ i = Initiator /\ t = Current)
           /\ UNCHANGED <<round_num, piggyback, took_part>> /\ pc' = "flood"
<1>1. Initiator \in Node /\ states \in [Node -> NodeTwoPcState] /\ FinalizedIn(no) \in NodeTwoPcState
  BY PreparePace, PreparedFacts DEF Prepares, TwoPcInv, TypeOK
<1>2. states' = [states EXCEPT ![Initiator] = FinalizedIn(no)]
  BY DEF PrepareWith
<1>3. states'[Initiator] = FinalizedIn(no) /\ \A i \in Node : i # Initiator => states'[i] = states[i]
  BY <1>1, <1>2
<1>4. Prepares(no, VerdictIn(no), states'[Initiator])
  BY <1>3, PreparedFacts
<1>5. ASSUME NEW i \in Node, NEW t \in Tx
      PROVE  /\ Finalized(states[i], t) =>
                   states'[i].log[t] = states[i].log[t] /\ Finalized(states'[i], t)
             /\ Known(states[i], t) => Known(states'[i], t)
  <2>1. CASE i = Initiator
    BY <1>4, <2>1 DEF Prepares, Finalized
  <2>2. CASE i # Initiator
    BY <1>3, <2>2
  <2> QED
    BY <2>1, <2>2
<1>6. states' \in [Node -> NodeTwoPcState]
  BY <1>1, <1>2
<1>7. recorded' = recorded \cup Decided(VerdictIn(no))
  BY DEF PrepareWith, RecordDecided
<1>8. \A i, t : <<i, t>> \in voted_no' <=> <<i, t>> \in voted_no \/ (no /\ i = Initiator /\ t = Current)
  BY DEF PrepareWith
<1>9. UNCHANGED <<round_num, piggyback, took_part>> /\ pc' = "flood"
  BY DEF PrepareWith
<1> QED
  BY <1>3, <1>4, <1>5, <1>6, <1>7, <1>8, <1>9

\* Every variable keeps its type while a round is prepared.
LEMMA PrepareTypes ==
    ASSUME TwoPcInv, NEW no \in BOOLEAN, PrepareWith(no)
    PROVE  TypeOK' /\ LoopInv'
<1> DEFINE verdict == VerdictIn(no)
           s == FinalizedIn(no)
<1>1. /\ round_num \in Nat /\ tx_counter \in Nat /\ tx_counter' \in Nat /\ tx_counter' <= NumTxs
      /\ Initiator \in Node /\ Current \in Tx
      /\ TypeOK /\ LoopInv /\ s \in NodeTwoPcState /\ verdict \in Verdict
      /\ states' \in [Node -> NodeTwoPcState] /\ recorded' = recorded \cup Decided(verdict)
  BY PreparePace, PreparedFacts, PrepareKeepsKnown DEF TwoPcInv, Prepares
<1>2. LoopInv'
  BY <1>1 DEF LoopInv, LoopTypeOK, PrepareWith
<1>3. tx_starts' \in [Tx -> Nat \cup {None}]
  BY <1>1 DEF PrepareWith, TypeOK
<1>4. \A t \in Decided(verdict) : t \in Tx /\ verdict[t] \in Decision
  BY <1>1 DEF Decided, Verdict
<1>5. records' \in SUBSET [tx : Tx, start : Nat, end : Nat, outcome : Decision]
  <2> DEFINE R == [tx : Tx, start : Nat, end : Nat, outcome : Decision]
  <2>1. records' = records \cup RecordsOf(Decided(verdict) \ recorded, verdict, tx_starts', round_num)
    BY DEF PrepareWith, RecordDecided
  <2>2. \A t \in Tx : StartOf(tx_starts', t) \in Nat
    BY <1>3 DEF StartOf
  <2>3. records \in SUBSET R
    BY <1>1 DEF TypeOK
  <2> HIDE DEF verdict
  <2>4. \A t \in Decided(verdict) :
            [tx |-> t, start |-> StartOf(tx_starts', t), end |-> round_num, outcome |-> verdict[t]] \in R
    BY <1>1, <1>4, <2>2
  <2>5. RecordsOf(Decided(verdict) \ recorded, verdict, tx_starts', round_num) \subseteq R
    <3> HIDE DEF R
    <3> QED
      BY <2>4 DEF RecordsOf
  <2> QED
    BY <2>1, <2>3, <2>5
<1>6. recorded' \in SUBSET Tx
  <2> HIDE DEF verdict
  <2> QED
    BY <1>1, <1>4 DEF TypeOK
<1>7. payload' \in Packet
  <2> DEFINE bits == s.bitmap[Current] \cup (IF AbortIn(no) THEN {} ELSE {Initiator})
             ab == AbortIn(no)
             nack == NackFor(states[Initiator], tx_counter)
             gen == Generating
  <2>1. payload' = [transaction_id |-> Current, has_data |-> gen, flags_bitmap |-> bits,
                    abort_flag |-> ab, nack_tx_id |-> nack, sender |-> Initiator,
                    piggyback |-> piggyback]
    BY DEF PrepareWith
  <2>2. bits \in SUBSET Node
    <3> HIDE DEF s
    <3> QED
      BY <1>1, StateFacts
  <2>3. ab \in BOOLEAN /\ gen \in BOOLEAN
    <3>1. s \in NodeTwoPcState
      BY <1>1
    <3>2. s.pending[Current] \in BOOLEAN /\ s.abort[Current] \in BOOLEAN
      <4> HIDE DEF s
      <4> QED
        BY <1>1, <3>1, StateFacts
    <3> QED
      BY <3>2 DEF AbortIn, Generating
  <2>4. nack \in Tx
    <3> DEFINE G == Gaps(states[Initiator], tx_counter)
    <3>1. G \in SUBSET Tx /\ G \in SUBSET Int
      BY TxFacts DEF Gaps
    <3>2. IsFiniteSet(G)
      <4>1. IsFiniteSet(Tx)
        BY NumTxsAssumption, FS_Interval DEF Tx
      <4> HIDE DEF G
      <4> QED
        BY <3>1, <4>1, FS_Subset
    <3>3. nack = IF G = {} THEN 0 ELSE Min(G)
      BY DEF NackFor
    <3>4. 0 \in Tx
      BY NumTxsAssumption DEF Tx
    <3> HIDE DEF G, nack
    <3>5. G # {} => Min(G) \in Tx
      BY <3>1, <3>2, MinOfFinite
    <3> QED
      BY <3>3, <3>4, <3>5
  <2>5. piggyback \in Piggyback
    BY <1>1 DEF TypeOK
  <2> HIDE DEF bits, ab, nack, gen
  <2> QED
    BY <1>1, <2>1, <2>2, <2>3, <2>4, <2>5 DEF Packet
<1>8. voted_no' \in SUBSET (Node \X Tx)
  BY <1>1 DEF PrepareWith, TypeOK
<1>9. UNCHANGED <<piggyback, goal_reached, progress_count, took_part>> /\ tx_counter' \in 0 .. NumTxs
  BY <1>1, TxFacts DEF PrepareWith
<1> QED
  BY <1>1, <1>2, <1>3, <1>5, <1>6, <1>7, <1>8, <1>9 DEF TypeOK, LoopInv

\* What each node says of each transaction stays sound: the proposer is the first at the bound.
LEMMA PrepareKeepsNodes ==
    ASSUME TwoPcInv, NEW no \in BOOLEAN, PrepareWith(no), NEW i \in Node, NEW t \in Tx
    PROVE  NodeInv(i, states[i], t)'
<1> DEFINE r == states'[i]
           q == states[i]
           verdict == VerdictIn(no)
<1>1. /\ Proposer(t) \in Node /\ Proposer(t)' = Proposer(t) /\ t \in Nat
      /\ Finalized(states[Proposer(t)], t) => Finalized(states'[Proposer(t)], t)
      /\ recorded' = recorded \cup Decided(verdict)
      /\ took_part' = took_part /\ N \in Nat /\ round_num \in Nat
  BY PaceFacts, PrepareKeepsKnown, TxFacts DEF Proposer, InitiatorOf
<1>2. /\ Generating => ~Known(q, Current)
      /\ t < tx_counter' <=> t < tx_counter \/ (Generating /\ t = Current)
      /\ Generating => Current = round_num /\ tx_counter = round_num
      /\ no => Generating
  BY PreparePace DEF PrepareWith
<1>3. \A j, u : <<j, u>> \in voted_no' <=> <<j, u>> \in voted_no \/ (no /\ j = Initiator /\ u = Current)
  BY PrepareKeepsKnown
<1>4. NodeInv(i, q, t)
  BY DEF TwoPcInv
<1>5. q.bitmap[t] \in SUBSET Node
  <2>1. q \in NodeTwoPcState
    BY PaceFacts
  <2> HIDE DEF q
  <2> QED
    BY <2>1, StateFacts
<1>6. Initiator = InitiatorOf(round_num)
  BY DEF Initiator
<1>7. "Committed" # Undecided /\ "Aborted" # Undecided /\ "Aborted" # "Committed"
  BY DEF Undecided
<1> SUFFICES /\ Known(r, t) => t < tx_counter'
             /\ r.pending[t] => ~Finalized(r, t) /\ r.start[t] = t
             /\ Finalized(r, t) => t \in recorded'
             /\ r.log[t] = "Committed" => Finalized(states'[Proposer(t)], t)
             /\ \A j \in r.bitmap[t] : j = i \/ took_part[j] >= t
             /\ <<i, t>> \in voted_no' => r.log[t] = "Aborted" \/ (r.pending[t] /\ r.abort[t])
             /\ <<Proposer(t), t>> \in voted_no' =>
                   r.log[t] # "Committed" /\ (r.pending[t] => r.abort[t])
  BY <1>1 DEF NodeInv, Known, Finalized
<1>8. CASE i = Initiator
  <2>1. Prepares(no, verdict, r)
    BY <1>8, PrepareKeepsKnown
  <2>2. /\ Finalized(q, t) => r.log[t] = q.log[t]
        /\ Known(r, t) => t < tx_counter'
        /\ verdict[t] # Undecided =>
              t < tx_counter /\ q.pending[t] /\ round_num >= t + N /\ r.log[t] = verdict[t]
        /\ verdict[t] = "Committed" => ~q.abort[t]
        /\ verdict[t] \in Decision \cup {Undecided}
        /\ Finalized(r, t) => Finalized(q, t) \/ verdict[t] # Undecided
        /\ r.pending[t] => ~Finalized(r, t) /\ r.start[t] = t
        /\ r.bitmap[t] \subseteq q.bitmap[t] \cup {Initiator}
        /\ r.pending[t] /\ q.pending[t] => (r.abort[t] <=> q.abort[t])
        /\ Generating /\ t = Current => r.pending[t] /\ (r.abort[t] <=> no)
        /\ r.pending[t] => q.pending[t] \/ (Generating /\ t = Current)
        /\ Known(q, t) => Known(r, t)
    BY <1>8, <2>1 DEF Prepares, Verdict
  <2>3. /\ q.pending[t] => ~Finalized(q, t)
        /\ Finalized(q, t) => t \in recorded
        /\ q.log[t] = "Committed" => Finalized(states[Proposer(t)], t)
        /\ \A j \in q.bitmap[t] : j = i \/ took_part[j] >= t
        /\ <<i, t>> \in voted_no => q.log[t] = "Aborted" \/ (q.pending[t] /\ q.abort[t])
        /\ <<Proposer(t), t>> \in voted_no => q.log[t] # "Committed" /\ (q.pending[t] => q.abort[t])
    BY <1>4 DEF NodeInv
  <2>4. verdict[t] # Undecided => t \in Decided(verdict)
    BY DEF Decided
  <2>5. t < tx_counter /\ round_num > t + N => Finalized(states[Proposer(t)], t)
    BY PaceFacts
  <2>6. round_num = t + N => Proposer(t) = Initiator
    BY <1>1, <1>6, NextTurn DEF Proposer
  <2> HIDE DEF r, q, verdict
  <2>7. Finalized(r, t) => t \in recorded'
    BY <1>1, <2>2, <2>3, <2>4
  <2>8. r.log[t] = "Committed" => Finalized(states'[Proposer(t)], t)
    <3> SUFFICES ASSUME r.log[t] = "Committed"
                 PROVE  Finalized(states'[Proposer(t)], t)
      OBVIOUS
    <3>1. CASE Finalized(q, t)
      BY <1>1, <2>2, <2>3, <3>1
    <3>2. CASE verdict[t] # Undecided
      <4>1. CASE round_num > t + N
        BY <1>1, <2>2, <2>5, <3>2, <4>1
      <4>2. CASE round_num = t + N
        BY <1>7, <1>8, <2>6, <4>2 DEF r, Finalized
      <4> QED
        BY <1>1, <2>2, <3>2, <4>1, <4>2
    <3> QED
      BY <1>7, <2>2, <3>1, <3>2 DEF Finalized
  <2>9. \A j \in r.bitmap[t] : j = i \/ took_part[j] >= t
    BY <1>8, <2>2, <2>3
  <2>10. <<i, t>> \in voted_no' => r.log[t] = "Aborted" \/ (r.pending[t] /\ r.abort[t])
    <3>1. CASE <<i, t>> \in voted_no
      <4>1. CASE q.log[t] = "Aborted"
        BY <1>7, <2>2, <4>1 DEF Finalized
      <4>2. CASE q.pending[t] /\ q.abort[t] /\ verdict[t] # Undecided
        BY <2>2, <4>2 DEF Decision
      <4>3. CASE q.pending[t] /\ q.abort[t] /\ verdict[t] = Undecided
        BY <2>2, <2>3, <4>3 DEF Known
      <4> QED
        BY <2>3, <3>1, <4>1, <4>2, <4>3
    <3>2. CASE no /\ t = Current
      BY <1>2, <2>2, <3>2
    <3> QED
      BY <1>3, <3>1, <3>2
  <2>11. <<Proposer(t), t>> \in voted_no' => r.log[t] # "Committed" /\ (r.pending[t] => r.abort[t])
    <3>1. CASE no /\ t = Current
      BY <1>2, <1>7, <2>2, <3>1 DEF Finalized
    <3>2. CASE <<Proposer(t), t>> \in voted_no /\ ~(no /\ t = Current)
      <4>1. r.log[t] # "Committed"
        BY <1>7, <2>2, <2>3, <3>2 DEF Finalized
      <4>2. ASSUME Generating, t = Current
            PROVE  FALSE
        <5>1. Proposer(t) = Initiator
          BY <1>2, <1>6, <4>2 DEF Proposer
        <5>2. q.log[t] = "Aborted" \/ q.pending[t]
          BY <1>8, <2>3, <3>2, <5>1
        <5> QED
          BY <1>2, <1>7, <4>2, <5>2 DEF Known, Finalized
      <4>3. r.pending[t] => r.abort[t]
        BY <2>2, <2>3, <3>2, <4>2
      <4> QED
        BY <4>1, <4>3
    <3> QED
      BY <1>3, <3>1, <3>2
  <2> QED
    BY <2>2, <2>7, <2>8, <2>9, <2>10, <2>11
<1>9. CASE i # Initiator
  <2>1. r = q
    BY <1>9, PrepareKeepsKnown
  <2>2. <<i, t>> \in voted_no' => <<i, t>> \in voted_no
    BY <1>3, <1>9
  <2>3. <<Proposer(t), t>> \in voted_no' =>
            <<Proposer(t), t>> \in voted_no \/ ~Known(q, t)
    BY <1>2, <1>3
  <2> HIDE DEF r, q, verdict
  <2>4. ~Known(q, t) => q.log[t] # "Committed" /\ ~q.pending[t]
    BY <1>7 DEF Known, Finalized
  <2> QED
    BY <1>1, <1>2, <1>4, <2>1, <2>2, <2>3, <2>4 DEF NodeInv
<1> QED
  BY <1>8, <1>9

\* The packet of the round carries votes with evidence, the proposer's NO and a reported decision.
LEMMA PrepareKeepsPackets ==
    ASSUME TwoPcInv, NEW no \in BOOLEAN, PrepareWith(no)
    PROVE  PacketInv'
<1> DEFINE s == FinalizedIn(no)
<1>1. /\ payload'.transaction_id = Current /\ payload'.has_data = Generating
      /\ payload'.flags_bitmap = s.bitmap[Current] \cup (IF AbortIn(no) THEN {} ELSE {Initiator})
      /\ payload'.abort_flag = AbortIn(no) /\ payload'.piggyback = piggyback
      /\ piggyback' = piggyback /\ took_part' = took_part
  BY DEF PrepareWith
<1>2. /\ Initiator \in Node /\ Current \in Tx /\ tx_counter \in Nat
      /\ Generating => ~Known(states[Initiator], Current) /\ Current = tx_counter
      /\ no => Generating
      /\ tx_counter' \in Nat /\ tx_counter <= tx_counter'
      /\ Prepares(no, VerdictIn(no), s) /\ \A t \in Tx : t \in Int
  BY PreparePace, PreparedFacts, TxFacts DEF PrepareWith
<1>3. Initiator' = Initiator
  BY PrepareKeepsKnown DEF Initiator, InitiatorOf
<1>4. \A j \in payload'.flags_bitmap : j = Initiator \/ took_part[j] >= Current
  <2>1. NodeInv(Initiator, states[Initiator], Current)
    BY <1>2 DEF TwoPcInv
  <2>2. \A j \in states[Initiator].bitmap[Current] : j = Initiator \/ took_part[j] >= Current
    BY <2>1 DEF NodeInv
  <2>3. s.bitmap[Current] \subseteq states[Initiator].bitmap[Current] \cup {Initiator}
    BY <1>2 DEF Prepares
  <2> QED
    BY <1>1, <2>2, <2>3
<1>5. Generating /\ <<Initiator, Current>> \in voted_no' => AbortIn(no)
  <2> SUFFICES ASSUME Generating, <<Initiator, Current>> \in voted_no'
               PROVE  s.pending[Current] /\ s.abort[Current]
    BY DEF AbortIn
  <2>1. <<Initiator, Current>> \notin voted_no
    <3>1. NodeInv(Initiator, states[Initiator], Current)
      BY <1>2 DEF TwoPcInv
    <3>2. "Aborted" # Undecided
      BY DEF Undecided
    <3> QED
      BY <1>2, <3>1, <3>2 DEF NodeInv, Known, Finalized
  <2>2. no
    BY <2>1, PrepareKeepsKnown
  <2> HIDE DEF s
  <2> QED
    BY <1>2, <2>2 DEF Prepares
<1>6. GoodPiggyback(piggyback)'
  <2>1. GoodPiggyback(piggyback)
    BY DEF TwoPcInv, PacketInv
  <2>2. \A t \in Tx : /\ Proposer(t) \in Node
                      /\ Finalized(states[Proposer(t)], t) => Finalized(states'[Proposer(t)], t)
                      /\ t < tx_counter /\ <<Proposer(t), t>> \in voted_no' => <<Proposer(t), t>> \in voted_no
    <3> SUFFICES ASSUME NEW t \in Tx
                 PROVE  /\ Proposer(t) \in Node
                        /\ Finalized(states[Proposer(t)], t) => Finalized(states'[Proposer(t)], t)
                        /\ t < tx_counter /\ <<Proposer(t), t>> \in voted_no' =>
                              <<Proposer(t), t>> \in voted_no
      OBVIOUS
    <3>1. Proposer(t) \in Node
      BY PaceFacts
    <3>2. t < tx_counter => ~(no /\ t = Current)
      BY <1>2
    <3> QED
      BY <3>1, <3>2, PrepareKeepsKnown
  <2>3. \A t : Proposer(t)' = Proposer(t)
    BY DEF Proposer, InitiatorOf
  <2>4. recorded \subseteq recorded' /\ \A t \in Tx : t < tx_counter => t < tx_counter'
    BY <1>2, PrepareKeepsKnown
  <2> DEFINE p == piggyback
  <2>5. p' = p
    BY <1>1
  <2>6. p.state # Undecided =>
            /\ p.tx \in Tx /\ p.tx < tx_counter' /\ p.tx \in recorded'
            /\ p.state = "Committed" =>
                  Finalized(states'[Proposer(p.tx)], p.tx) /\ <<Proposer(p.tx), p.tx>> \notin voted_no'
    BY <2>1, <2>2, <2>4 DEF GoodPiggyback
  <2> SUFFICES GoodPiggyback(p)'
    OBVIOUS
  <2> HIDE DEF p
  <2> QED
    BY <2>3, <2>5, <2>6 DEF GoodPiggyback, Finalized
<1>7. GoodPiggyback(payload.piggyback)'
  <2>1. payload'.piggyback = piggyback'
    BY <1>1
  <2> QED
    BY <1>6, <2>1 DEF GoodPiggyback
<1> QED
  BY <1>1, <1>3, <1>4, <1>5, <1>6, <1>7 DEF PacketInv

\* What the initiator finalizes at the bound is reported once, N rounds after its start.
LEMMA PrepareKeepsRecords ==
    ASSUME TwoPcInv, NEW no \in BOOLEAN, PrepareWith(no)
    PROVE  RecordsInv'
<1> DEFINE verdict == VerdictIn(no)
           fresh == Decided(verdict) \ recorded
           new(t) == [tx |-> t, start |-> StartOf(tx_starts', t), end |-> round_num,
                      outcome |-> verdict[t]]
<1>1. /\ recorded' = recorded \cup Decided(verdict)
      /\ records' = records \cup {new(t) : t \in fresh}
  BY DEF PrepareWith, RecordDecided, RecordsOf
<1>2. /\ RecordsInv /\ tx_counter \in Nat /\ round_num \in Nat /\ N \in Nat
      /\ tx_counter' \in Nat /\ tx_counter <= tx_counter'
      /\ Prepares(no, verdict, FinalizedIn(no))
      /\ Generating => Current = tx_counter
      /\ recorded \in SUBSET Tx
  BY PreparePace, PreparedFacts, TxFacts DEF TwoPcInv, TypeOK
<1>3. ASSUME NEW t \in fresh
      PROVE  /\ t \in Int /\ t < tx_counter' /\ t \notin recorded
             /\ StartOf(tx_starts', t) = t /\ round_num = t + N
  <2>1. t \in Tx /\ verdict[t] # Undecided /\ t \notin recorded
    BY DEF Decided
  <2>2. t < tx_counter /\ round_num >= t + N
    BY <1>2, <2>1 DEF Prepares
  <2>3. t \in Int /\ 0 <= t
    BY <2>1, TxFacts
  <2>4. ~(round_num > t + N)
    BY <2>1, <2>2, PaceFacts
  <2>5. tx_starts'[t] = tx_starts[t]
    <3>1. tx_starts \in [Tx -> Nat \cup {None}]
      BY DEF TwoPcInv, TypeOK
    <3>2. Generating => t # Current
      BY <1>2, <2>2, <2>3
    <3> QED
      BY <2>1, <3>1, <3>2 DEF PrepareWith
  <2>6. StartOf(tx_starts', t) = t
    BY <2>1, <2>2, <2>3, <2>5, TxFacts DEF TwoPcInv, PaceInv, StartOf
  <2> QED
    BY <1>2, <2>1, <2>2, <2>3, <2>4, <2>6
<1>4. fresh = Decided(verdict) \ recorded
  OBVIOUS
<1> HIDE DEF verdict, fresh
<1>5. recorded' = {r.tx : r \in records'}
  <2>1. \A t \in fresh : new(t).tx = t
    OBVIOUS
  <2>2. recorded' = recorded \cup fresh
    BY <1>1, <1>4
  <2>3. recorded = {r.tx : r \in records}
    BY <1>2 DEF RecordsInv
  <2> HIDE DEF new
  <2> QED
    BY <1>1, <2>1, <2>2, <2>3
<1>6. \A r, q \in records' : r.tx = q.tx => r = q
  <2>1. \A t \in fresh : new(t).tx = t /\ t \notin recorded
    BY <1>4
  <2>2. recorded = {r.tx : r \in records} /\ \A r, q \in records : r.tx = q.tx => r = q
    BY <1>2 DEF RecordsInv
  <2> HIDE DEF new
  <2> QED
    BY <1>1, <2>1, <2>2
<1>7. ASSUME NEW r \in records'
      PROVE  /\ r.tx < tx_counter' /\ r.start = r.tx /\ r.end <= r.tx + N
             /\ r.outcome = "Committed" => r.end = r.tx + N
  <2>1. CASE r \in records
    <3>1. /\ r.tx < tx_counter /\ r.start = r.tx /\ r.end <= r.tx + N
          /\ r.outcome = "Committed" => r.end = r.tx + N
      BY <1>2, <2>1 DEF RecordsInv
    <3>2. r.tx \in Int
      <4>1. r.tx \in recorded
        BY <1>2, <2>1 DEF RecordsInv
      <4> QED
        BY <1>2, <4>1, TxFacts
    <3> QED
      BY <1>2, <3>1, <3>2
  <2>2. CASE \E t \in fresh : r = new(t)
    <3>1. PICK t \in fresh : r = new(t)
      BY <2>2
    <3>2. r.tx = t /\ r.start = StartOf(tx_starts', t) /\ r.end = round_num
      BY <3>1
    <3> QED
      BY <1>2, <1>3, <3>2
  <2> QED
    BY <1>1, <2>1, <2>2
<1> QED
  BY <1>5, <1>6, <1>7 DEF RecordsInv

\* Transaction t is opened in round t, and the proposer whose turn it is decides what is due.
LEMMA PrepareKeepsPace ==
    ASSUME TwoPcInv, NEW no \in BOOLEAN, PrepareWith(no)
    PROVE  PaceInv' /\ ProposerInv' /\ StopSound'
<1>1. /\ round_num' = round_num /\ round_num \in Nat /\ tx_counter \in Nat /\ pc' = "flood"
      /\ Current \in Tx /\ tx_counter' \in Nat /\ Current = tx_counter' - 1
      /\ Generating => tx_counter = round_num /\ Current = tx_counter
      /\ ~Generating => tx_counter = NumTxs
      /\ \A t \in Tx : t < tx_counter' <=> t < tx_counter \/ (Generating /\ t = Current)
      /\ NumTxs \in Nat /\ N \in Nat /\ Initiator \in Node
  BY PreparePace, PrepareKeepsKnown, TxFacts
<1>2. /\ tx_starts' = IF Generating THEN [tx_starts EXCEPT ![Current] = round_num] ELSE tx_starts
      /\ payload'.transaction_id = Current /\ payload'.has_data = Generating
      /\ tx_counter' = IF Generating THEN tx_counter + 1 ELSE tx_counter
      /\ stopped_by' = stopped_by /\ pc = "prepare"
  BY DEF PrepareWith
<1>3. tx_counter = IF round_num < NumTxs THEN round_num ELSE NumTxs
  BY <1>2 DEF TwoPcInv, PaceInv
<1>4. PaceInv'
  <2>1. \A t \in Tx : tx_starts'[t] = IF t < tx_counter' THEN t ELSE None
    <3> SUFFICES ASSUME NEW t \in Tx
                 PROVE  tx_starts'[t] = IF t < tx_counter' THEN t ELSE None
      OBVIOUS
    <3>1. tx_starts \in [Tx -> Nat \cup {None}] /\ tx_starts[t] = IF t < tx_counter THEN t ELSE None
      BY DEF TwoPcInv, TypeOK, PaceInv
    <3> QED
      BY <1>1, <1>2, <3>1
  <2>2. tx_counter' = IF round_num < NumTxs THEN round_num + 1 ELSE NumTxs
    BY <1>1, <1>2, <1>3 DEF Generating
  <2>3. Generating => Current = round_num
    BY <1>1
  <2> QED
    BY <1>1, <1>2, <2>1, <2>2, <2>3 DEF PaceInv
<1>5. ProposerInv'
  <2> SUFFICES ASSUME NEW t \in Tx, t < tx_counter'
               PROVE  /\ Known(states'[Proposer(t)], t)
                      /\ round_num >= t + N => Finalized(states'[Proposer(t)], t)
    <3>1. \A u : Proposer(u)' = Proposer(u)
      BY DEF Proposer, InitiatorOf
    <3>2. \A u \in Tx : round_num > u + N \/ round_num = u + N => round_num >= u + N
      BY <1>1, TxFacts
    <3> QED
      BY <1>1, <3>1, <3>2 DEF ProposerInv, Known, Finalized
  <2>1. Proposer(t) \in Node /\ t \in Nat
    BY PaceFacts
  <2>2. Prepares(no, VerdictIn(no), states'[Initiator])
    BY PrepareKeepsKnown
  <2>3. CASE t < tx_counter
    <3>1. Known(states[Proposer(t)], t)
      BY <2>3 DEF TwoPcInv, ProposerInv
    <3>2. CASE round_num > t + N
      BY <2>1, <2>3, <3>1, <3>2, PrepareKeepsKnown, PaceFacts
    <3>3. CASE round_num = t + N
      <4>1. Proposer(t) = Initiator
        BY <2>1, <3>3, NextTurn DEF Proposer, Initiator
      <4>2. round_num >= t + N
        BY <1>1, <3>3
      <4>3. Finalized(states'[Initiator], t)
        BY <2>2, <3>1, <4>1, <4>2 DEF Prepares
      <4> QED
        BY <2>1, <3>1, <4>1, <4>3, PrepareKeepsKnown
    <3>4. CASE ~(round_num >= t + N)
      BY <2>1, <3>1, <3>4, PrepareKeepsKnown
    <3> QED
      BY <1>1, <2>1, <3>2, <3>3, <3>4
  <2>4. CASE Generating /\ t = Current
    <3>1. Proposer(t) = Initiator /\ t = round_num
      BY <1>1, <2>4 DEF Proposer, Initiator
    <3>2. states'[Initiator].pending[t]
      BY <2>2, <2>4 DEF Prepares
    <3>3. ~(round_num >= t + N)
      BY <1>1, <3>1, NAssumption
    <3> QED
      BY <3>1, <3>2, <3>3 DEF Known
  <2> QED
    BY <1>1, <2>3, <2>4
<1>6. StopSound'
  BY <1>2 DEF TwoPcInv, LoopInv, StopSound
<1> QED
  BY <1>4, <1>5, <1>6

\* prepare_round preserves the invariant.
LEMMA PrepareStep ==
    ASSUME TwoPcInv, PrepareRound
    PROVE  TwoPcInv'
<1>1. PICK no \in BOOLEAN : PrepareWith(no)
  BY DEF PrepareRound, PrepareWith, FinalizedIn, VerdictIn, OpenedIn, AbortIn, Current
<1>2. \A i \in Node : took_part'[i] < tx_counter'
  <2>1. took_part' = took_part /\ tx_counter \in Nat /\ tx_counter' \in Nat /\ tx_counter <= tx_counter'
        /\ \A i \in Node : took_part[i] \in Int /\ took_part[i] < tx_counter
    BY <1>1, PreparePace, PrepareKeepsKnown, PaceFacts DEF TwoPcInv
  <2> QED
    BY <2>1
<1>3. \A i \in Node, t \in Tx : NodeInv(i, states[i], t)'
  BY <1>1, PrepareKeepsNodes
<1> QED
  BY <1>1, <1>2, <1>3, PrepareTypes, PrepareKeepsPackets, PrepareKeepsRecords, PrepareKeepsPace DEF TwoPcInv

\* The other steps of the loop leave the protocol's variables alone.
LEMMA LoopStep ==
    ASSUME TwoPcInv, \/ FloodIdentical /\ UNCHANGED two_pc_vars
                     \/ OutOfSlots /\ UNCHANGED two_pc_vars
                     \/ UNCHANGED vars
    PROVE  TwoPcInv'
<1>1. /\ UNCHANGED two_pc_vars /\ LoopInv' /\ Initiator' = Initiator /\ round_num' = round_num
      /\ \/ pc' = "stopped" /\ pc = "prepare"
         \/ pc = "flood" /\ pc' = "process"
         \/ pc' = pc
      /\ stopped_by' = stopped_by \/ stopped_by' = "max_slots"
  <2>1. CASE FloodIdentical /\ UNCHANGED two_pc_vars
    BY <2>1, FloodStep DEF TwoPcInv, FloodIdentical
  <2>2. CASE OutOfSlots /\ UNCHANGED two_pc_vars
    BY <2>2, SlotsStep DEF TwoPcInv, OutOfSlots
  <2>3. CASE UNCHANGED vars
    BY <2>3 DEF TwoPcInv, vars, loop_vars, LoopInv, LoopTypeOK, Initiator
  <2> QED
    BY <2>1, <2>2, <2>3
<1>2. /\ states' = states /\ tx_counter' = tx_counter /\ tx_starts' = tx_starts /\ recorded' = recorded
      /\ records' = records /\ piggyback' = piggyback /\ payload' = payload
      /\ goal_reached' = goal_reached /\ progress_count' = progress_count
      /\ voted_no' = voted_no /\ took_part' = took_part
  BY <1>1 DEF two_pc_vars
<1>3. InRound' <=> InRound
  BY <1>1 DEF InRound
<1>4. pc' = "prepare" => pc = "prepare"
  BY <1>1
<1>5. \A t : Proposer(t)' = Proposer(t)
  BY DEF Proposer, InitiatorOf
<1>6. TypeOK'
  BY <1>1, <1>2 DEF TwoPcInv, TypeOK, LoopInv
<1>7. PaceInv'
  BY <1>1, <1>2, <1>3, <1>4 DEF TwoPcInv, PaceInv
<1>8. ProposerInv'
  BY <1>1, <1>2, <1>3, <1>5 DEF TwoPcInv, ProposerInv, Known, Finalized
<1>9. PacketInv'
  <2>1. GoodPiggyback(piggyback)' /\ GoodPiggyback(payload.piggyback)'
    BY <1>2, <1>5 DEF TwoPcInv, PacketInv, GoodPiggyback, Finalized
  <2> QED
    BY <1>1, <1>2, <1>3, <2>1 DEF TwoPcInv, PacketInv
<1>10. RecordsInv'
  BY <1>2 DEF TwoPcInv, RecordsInv
<1>11. StopSound'
  BY <1>1, <1>2 DEF TwoPcInv, StopSound, Finalized
<1>12. \A i \in Node, t \in Tx : NodeInv(i, states[i], t)'
  <2> SUFFICES ASSUME NEW i \in Node, NEW t \in Tx
               PROVE  NodeInv(i, states[i], t)'
    OBVIOUS
  <2>1. NodeInv(i, states[i], t)
    BY DEF TwoPcInv
  <2>2. Proposer(t)' = Proposer(t)
    BY <1>5
  <2> QED
    BY <1>2, <2>1, <2>2 DEF NodeInv, Known, Finalized
<1> QED
  BY <1>1, <1>2, <1>6, <1>7, <1>8, <1>9, <1>10, <1>11, <1>12 DEF TwoPcInv

-----------------------------------------------------------------------------
(***************************************************************************)
(* The inductive invariant: the windows are those of the rounds, every     *)
(* copy, packet and log agrees with what its proposer did, and every       *)
(* decision in some log, or on its way to one, is reported.                *)
(***************************************************************************)
THEOREM Invariance == Spec => []TwoPcInv
<1>1. Init => TwoPcInv
  <2> SUFFICES ASSUME Init
               PROVE  TwoPcInv
    OBVIOUS
  <2>1. LoopInv /\ pc = "prepare" /\ round_num = 0 /\ stopped_by = "none"
    BY InitLoop DEF Init, LoopInit
  <2>2. NewTwoPcState \in NodeTwoPcState
    <3> DEFINE s == NewTwoPcState
    <3>1. /\ s.log \in Verdict /\ s.pending \in [Tx -> BOOLEAN] /\ s.bitmap \in [Tx -> SUBSET Node]
          /\ s.abort \in [Tx -> BOOLEAN] /\ s.start \in [Tx -> Nat]
      BY DEF NewTwoPcState, Verdict
    <3> QED
      BY <3>1 DEF NewTwoPcState, NodeTwoPcState
  <2>3. \A i \in Node : states[i] = NewTwoPcState
    BY DEF Init
  <2>4. \A i \in Node, t \in Tx : /\ ~Finalized(states[i], t) /\ ~Known(states[i], t)
                                  /\ ~states[i].pending[t] /\ states[i].bitmap[t] = {}
                                  /\ states[i].log[t] = Undecided
    BY <2>3 DEF NewTwoPcState, Finalized, Known
  <2>5. NoPacket \in Packet /\ NoPiggyback \in Piggyback /\ 0 \in Node /\ 0 \in Tx
    BY NAssumption, NumTxsAssumption DEF NoPacket, Packet, NoPiggyback, Piggyback, Node, Tx
  <2>6. TypeOK
    <3> HIDE DEF NewTwoPcState, NoPacket, NoPiggyback
    <3> QED
      BY <2>1, <2>2, <2>5, TxFacts DEF Init, TypeOK, LoopInv
  <2>7. PaceInv
    BY <2>1, TxFacts, NumTxsAssumption DEF Init, PaceInv, InRound
  <2>8. ProposerInv
    BY TxFacts DEF Init, ProposerInv
  <2>9. PacketInv
    BY <2>1 DEF Init, PacketInv, GoodPiggyback, NoPacket, NoPiggyback, InRound
  <2>10. RecordsInv /\ StopSound
    BY <2>1 DEF Init, RecordsInv, StopSound
  <2>11. \A i \in Node : took_part[i] < tx_counter
    BY DEF Init, None
  <2>12. \A i \in Node, t \in Tx : NodeInv(i, states[i], t)
    BY <2>4 DEF Init, NodeInv, Undecided
  <2> QED
    BY <2>1, <2>6, <2>7, <2>8, <2>9, <2>10, <2>11, <2>12 DEF TwoPcInv
<1>2. TwoPcInv /\ [Next]_vars => TwoPcInv'
  BY PrepareStep, ProcessStep, LoopStep DEF Next
<1> QED
  BY <1>1, <1>2, PTL DEF Spec

\* The states, packets and records the loop computes always have their types.
THEOREM TypeCorrect == Spec => []TypeOK
<1>1. TwoPcInv => TypeOK
  BY DEF TwoPcInv
<1> QED
  BY <1>1, Invariance, PTL

(***************************************************************************)
(* Every pending copy of a transaction counts its window from the round    *)
(* that opened it, and nobody commits before its proposer has decided.     *)
(***************************************************************************)
THEOREM WindowTheorem == Spec => []OneWindow
<1>1. TwoPcInv => OneWindow
  <2> SUFFICES ASSUME TwoPcInv, NEW i \in Node, NEW t \in Tx
               PROVE  /\ states[i].pending[t] => states[i].start[t] = tx_starts[t]
                      /\ states[i].log[t] = "Committed" =>
                            Finalized(states[InitiatorOf(tx_starts[t])], t)
    BY DEF OneWindow, SharedWindow, ProposerCommitsFirst
  <2>1. NodeInv(i, states[i], t)
    BY DEF TwoPcInv
  <2>2. Known(states[i], t) => tx_starts[t] = t
    BY <2>1 DEF NodeInv, TwoPcInv, PaceInv
  <2>3. "Committed" # Undecided
    BY DEF Undecided
  <2> QED
    BY <2>1, <2>2, <2>3 DEF NodeInv, Known, Finalized, Proposer
<1> QED
  BY <1>1, Invariance, PTL

(***************************************************************************)
(* The bit of another node is evidence that it was in that flood or in a   *)
(* later one; nobody commits what itself or the proposer voted against.    *)
(***************************************************************************)
THEOREM VotesTheorem == Spec => []VotesAreSound
<1>1. TwoPcInv => VotesAreOverheard
  <2> SUFFICES ASSUME TwoPcInv, NEW i \in Node, NEW j \in Node, NEW t \in Tx,
                      j # i, j \in states[i].bitmap[t]
               PROVE  took_part[j] >= t
    BY DEF VotesAreOverheard
  <2>1. NodeInv(i, states[i], t)
    BY DEF TwoPcInv
  <2> QED
    BY <2>1 DEF NodeInv
<1>2. TwoPcInv => NoIsRespected
  <2> SUFFICES ASSUME TwoPcInv, NEW v \in voted_no, NEW i \in Node,
                      i = v[1] \/ v[1] = InitiatorOf(tx_starts[v[2]])
               PROVE  states[i].log[v[2]] # "Committed"
    BY DEF NoIsRespected
  <2>1. PICK j \in Node, t \in Tx : v = <<j, t>>
    BY DEF TwoPcInv, TypeOK
  <2>2. NodeInv(i, states[i], t) /\ NodeInv(j, states[j], t)
    BY <2>1 DEF TwoPcInv
  <2>3. "Committed" # Undecided /\ "Aborted" # "Committed" /\ "Aborted" # Undecided
    BY DEF Undecided
  <2>4. tx_starts[t] = t
    <3>1. Known(states[j], t)
      BY <2>1, <2>2, <2>3 DEF NodeInv, Known, Finalized
    <3> QED
      BY <2>1, <2>2, <3>1 DEF NodeInv, TwoPcInv, PaceInv
  <2>5. CASE i = j
    BY <2>1, <2>2, <2>3, <2>5 DEF NodeInv, Finalized
  <2>6. CASE j = InitiatorOf(t)
    BY <2>1, <2>2, <2>6 DEF NodeInv, Proposer
  <2> QED
    BY <2>1, <2>4, <2>5, <2>6
<1> QED
  BY <1>1, <1>2, Invariance, PTL DEF VotesAreSound

(***************************************************************************)
(* Every decision in some log is reported, once, with its start and within *)
(* its window; a run that ends as all done has decided everything.         *)
(***************************************************************************)
THEOREM ReportTheorem == Spec => []ReportSound
<1>1. TwoPcInv => RecordedOnce
  <2> SUFFICES ASSUME TwoPcInv
               PROVE  RecordedOnce
    OBVIOUS
  <2>1. \A i \in Node, t \in Tx : Finalized(states[i], t) => t \in recorded
    BY DEF TwoPcInv, NodeInv
  <2>2. RecordsInv
    BY DEF TwoPcInv
  <2>3. ASSUME NEW r \in records
        PROVE  r.start = tx_starts[r.tx] /\ r.end <= r.start + N
               /\ (r.outcome = "Committed" => r.end = r.start + N)
    <3>1. /\ r.tx < tx_counter /\ r.start = r.tx /\ r.end <= r.tx + N
          /\ r.outcome = "Committed" => r.end = r.tx + N
      BY <2>2 DEF RecordsInv
    <3>2. r.tx \in Tx
      BY DEF TwoPcInv, TypeOK
    <3>3. tx_starts[r.tx] = r.tx
      BY <3>1, <3>2 DEF TwoPcInv, PaceInv
    <3> QED
      BY <3>1, <3>3
  <2> QED
    BY <2>1, <2>2, <2>3 DEF RecordedOnce, RecordsInv
<1>2. TwoPcInv => StopSound
  BY DEF TwoPcInv
<1> QED
  BY <1>1, <1>2, Invariance, PTL DEF ReportSound

\* No step rewrites an entry of a log: neither a late vote, nor the bound, nor a recovery.
THEOREM DecisionsTheorem == Spec => DecisionsAreFinal
<1> DEFINE Final == \A i \in Node, t \in Tx :
                        Finalized(states[i], t) => states'[i].log[t] = states[i].log[t]
<1>1. TwoPcInv /\ [Next]_vars => [Final]_vars
  <2> SUFFICES ASSUME TwoPcInv, Next
               PROVE  Final
    OBVIOUS
  <2>1. CASE PrepareRound
    <3>1. PICK no \in BOOLEAN : PrepareWith(no)
      BY <2>1 DEF PrepareRound, PrepareWith, FinalizedIn, VerdictIn, OpenedIn, AbortIn, Current
    <3> QED
      BY <3>1, PrepareKeepsKnown
  <2>2. CASE ProcessRound
    <3>1. PICK votes \in Draws : ProcessWith(votes)
      BY <2>2 DEF ProcessRound, ProcessWith
    <3> QED
      BY <3>1, ProcessKeepsKnown
  <2>3. CASE UNCHANGED two_pc_vars \/ UNCHANGED vars
    BY <2>3 DEF two_pc_vars, vars
  <2> QED
    BY <2>1, <2>2, <2>3 DEF Next
<1> QED
  BY <1>1, Invariance, PTL DEF Spec, DecisionsAreFinal

=============================================================================
