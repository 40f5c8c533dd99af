-------------------------- MODULE CeSimulatorProofs --------------------------
(***************************************************************************)
(* Theorems about CeSimulator for every number of nodes, every graph, any  *)
(* number of proposals and any limits.  They rest on two facts: a merge    *)
(* only copies bits next to the verdict they were set under (MergeFacts),  *)
(* and a verdict, once held, stays.                                        *)
(***************************************************************************)
EXTENDS CeSimulator, FiniteSetTheorems, TLAPS

\* A packet that carries some term, with any phase and any bits.
RawPacket == [term : Nat \ {0}, phase : Phase, bits : SUBSET Node]

\* What a packet of term t may say when the nodes in no are against.
Truthful(p, no, t, pkt) ==
    /\ pkt \in RawPacket /\ pkt.term = t
    /\ p # "2pc_ce" => pkt.phase = "Prepare"
    /\ pkt.phase = "Prepare" => pkt.bits \cap no = {}
    /\ pkt.phase = "Committed" => no = {}
    /\ pkt.phase = "Aborted" => no # {}

\* r is pkt as node i leaves it: its own bit is set, and the others are copied with their phase.
Follows(i, pkt, r) ==
    /\ i \in r.bits
    /\ \A j \in r.bits : j = i \/ (j \in pkt.bits /\ r.phase = pkt.phase)
    /\ Final(pkt) => r.phase = pkt.phase

\* r is what node i makes of the packet rec on top of loc: each bit is one of theirs with its
\* phase, or its own, a verdict stays, and only a packet makes a difference.
Combines(i, loc, rec, r) ==
    /\ \A j \in r.bits : \/ j = i
                         \/ j \in loc.bits /\ r.phase = loc.phase
                         \/ j \in rec.bits /\ r.phase = rec.phase
    /\ Final(loc) => r.phase = loc.phase
    /\ loc # NoPacket => r # NoPacket
    /\ rec = NoPacket => r = loc

-----------------------------------------------------------------------------
\* The own vote, YES or NO, leaves a truthful packet truthful.
LEMMA LocalVoteFacts ==
    ASSUME NEW no \in SUBSET Node, NEW i \in Node, NEW t, NEW pkt, Truthful("2pc_ce", no, t, pkt)
    PROVE  /\ Truthful("2pc_ce", no, t, LocalVote(pkt, i, no))
           /\ Follows(i, pkt, LocalVote(pkt, i, no))
BY DEF Truthful, Follows, RawPacket, LocalVote, Escalate, Phase, Verdict, Final

\* A bitmap is full only when nobody is against, so the commit it turns into is right.
LEMMA CommitIfUnanimousFacts ==
    ASSUME NEW no \in SUBSET Node, NEW i \in Node, NEW t, NEW pkt, Truthful("2pc_ce", no, t, pkt),
           i \in pkt.bits
    PROVE  /\ Truthful("2pc_ce", no, t, CommitIfUnanimous(pkt, i))
           /\ Follows(i, pkt, CommitIfUnanimous(pkt, i))
BY DEF Truthful, Follows, RawPacket, CommitIfUnanimous, Escalate, Phase, Verdict, Final

\* Both together: what a node makes of a packet it takes over.
LEMMA AdoptFacts ==
    ASSUME NEW no \in SUBSET Node, NEW i \in Node, NEW t, NEW pkt, Truthful("2pc_ce", no, t, pkt)
    PROVE  /\ Truthful("2pc_ce", no, t, AdoptWithLocalVote(pkt, i, no))
           /\ Follows(i, pkt, AdoptWithLocalVote(pkt, i, no))
<1> DEFINE v == LocalVote(pkt, i, no)
<1>1. Truthful("2pc_ce", no, t, v) /\ Follows(i, pkt, v)
  BY LocalVoteFacts
<1> HIDE DEF v
<1>2. Truthful("2pc_ce", no, t, CommitIfUnanimous(v, i)) /\ Follows(i, v, CommitIfUnanimous(v, i))
  BY <1>1, CommitIfUnanimousFacts DEF Follows
<1>3. Follows(i, pkt, CommitIfUnanimous(v, i))
  BY <1>1, <1>2 DEF Follows, Final
<1> QED
  BY <1>2, <1>3 DEF AdoptWithLocalVote, v

(***************************************************************************)
(* merge of two_pc_ce.rs on a packet of the same proposal: what comes out  *)
(* is truthful, a verdict once held stays (two truthful packets never      *)
(* disagree), and each bit comes from one of the two with its phase.       *)
(***************************************************************************)
LEMMA TwoPcMergeFacts ==
    ASSUME NEW no \in SUBSET Node, NEW i \in Node, NEW t,
           NEW loc, Truthful("2pc_ce", no, t, loc), i \in loc.bits,
           NEW rec, Truthful("2pc_ce", no, t, rec)
    PROVE  LET r == TwoPcMerge(loc, rec, i, no)
           IN  /\ Truthful("2pc_ce", no, t, r)
               /\ i \in r.bits
               /\ \A j \in r.bits : \/ j = i
                                    \/ j \in loc.bits /\ r.phase = loc.phase
                                    \/ j \in rec.bits /\ r.phase = rec.phase
               /\ Final(loc) => r.phase = loc.phase
<1> DEFINE r == TwoPcMerge(loc, rec, i, no)
           took == TakeOver(loc, rec)
           ored == OrBits(took, rec)
           v == IF i \in ored.bits THEN ored ELSE LocalVote(ored, i, no)
<1>1. r = CommitIfUnanimous(v, i)
  BY DEF TwoPcMerge, NoPacket, Truthful, RawPacket
<1> HIDE DEF r
<1>2. /\ Truthful("2pc_ce", no, t, took)
      /\ took = loc \/ (took.bits = rec.bits /\ took.phase = rec.phase /\ ~Final(loc))
  BY DEF Truthful, RawPacket, TakeOver, Phase, Verdict, Final
<1> HIDE DEF took
<1>3. /\ Truthful("2pc_ce", no, t, ored)
      /\ ored.phase = took.phase
      /\ \A j \in ored.bits : j \in took.bits \/ (j \in rec.bits /\ ored.phase = rec.phase)
  BY <1>2 DEF Truthful, RawPacket, OrBits, Phase, Verdict, Final
<1> HIDE DEF ored
<1>4. Truthful("2pc_ce", no, t, v) /\ Follows(i, ored, v)
  BY <1>3, LocalVoteFacts DEF Follows
<1> HIDE DEF v
<1>5. Truthful("2pc_ce", no, t, r) /\ Follows(i, v, r)
  BY <1>1, <1>4, CommitIfUnanimousFacts DEF Follows
<1>6. Final(loc) => r.phase = loc.phase
  BY <1>2, <1>3, <1>4, <1>5 DEF Follows, Final
<1>7. ASSUME NEW j \in r.bits, j # i
      PROVE  \/ j \in loc.bits /\ r.phase = loc.phase
             \/ j \in rec.bits /\ r.phase = rec.phase
  <2>1. j \in ored.bits /\ r.phase = ored.phase
    BY <1>4, <1>5, <1>7 DEF Follows
  <2> QED
    BY <1>2, <1>3, <2>1
<1> QED
  BY <1>5, <1>6, <1>7 DEF Follows, r

(***************************************************************************)
(* merge, for the three protocols: node i holds loc and receives rec, each *)
(* truthful if it is a packet at all, and loc with the bit of i.           *)
(***************************************************************************)
LEMMA MergeFacts ==
    ASSUME NEW p \in Protocols, NEW no \in SUBSET Node, p # "2pc_ce" => no = {},
           NEW i \in Node, NEW t,
           NEW loc, loc = NoPacket \/ (Truthful(p, no, t, loc) /\ i \in loc.bits),
           NEW rec, rec = NoPacket \/ Truthful(p, no, t, rec)
    PROVE  LET r == Merge(p, loc, rec, i, no)
           IN  /\ r = NoPacket \/ (Truthful(p, no, t, r) /\ i \in r.bits)
               /\ Combines(i, loc, rec, r)
<1> DEFINE r == Merge(p, loc, rec, i, no)
<1>r. r = Merge(p, loc, rec, i, no)
  OBVIOUS
<1> HIDE DEF r
<1> SUFFICES /\ r = NoPacket \/ (Truthful(p, no, t, r) /\ i \in r.bits)
             /\ Combines(i, loc, rec, r)
  BY DEF r
<1>0. NoPacket \notin RawPacket /\ ~Final(NoPacket) /\ NoPacket.bits = {}
  BY DEF NoPacket, RawPacket, Final, Verdict
<1>1. CASE rec = NoPacket
  BY <1>0, <1>r, <1>1 DEF Merge, Combines
<1>2. CASE rec # NoPacket
  <2>0. Truthful(p, no, t, rec)
    BY <1>2
  <2>1. CASE p = "2pc_ce"
    <3>1. r = TwoPcMerge(loc, rec, i, no)
      BY <1>r, <1>2, <2>1 DEF Merge
    <3>2. CASE loc = NoPacket
      <4>1. r = AdoptWithLocalVote(rec, i, no)
        BY <3>1, <3>2 DEF TwoPcMerge
      <4>2. Truthful(p, no, t, r) /\ Follows(i, rec, r)
        BY <2>0, <2>1, <4>1, AdoptFacts
      <4> QED
        BY <1>0, <1>2, <3>2, <4>2 DEF Follows, Truthful, Combines
    <3>3. CASE loc # NoPacket
      <4>0. Truthful("2pc_ce", no, t, loc) /\ i \in loc.bits /\ Truthful("2pc_ce", no, t, rec)
        BY <2>0, <2>1, <3>3
      <4>1. /\ Truthful("2pc_ce", no, t, r) /\ i \in r.bits
            /\ \A j \in r.bits : \/ j = i
                                 \/ j \in loc.bits /\ r.phase = loc.phase
                                 \/ j \in rec.bits /\ r.phase = rec.phase
            /\ Final(loc) => r.phase = loc.phase
        BY <3>1, <4>0, TwoPcMergeFacts
      <4> QED
        BY <1>0, <1>2, <2>1, <4>1 DEF Truthful, Combines
    <3> QED
      BY <3>2, <3>3
  <2>2. CASE p # "2pc_ce"
    <3>1. /\ rec \in RawPacket /\ rec.phase = "Prepare" /\ rec.term = t /\ no = {}
          /\ loc # NoPacket => loc \in RawPacket /\ loc.phase = "Prepare" /\ loc.term = t
      BY <2>0, <2>2 DEF Truthful
    <3>2. /\ r \in RawPacket /\ r.phase = "Prepare" /\ r.term = t /\ i \in r.bits
          /\ \A j \in r.bits : j = i \/ j \in loc.bits \/ j \in rec.bits
      <4>1. r = (IF loc = NoPacket THEN [rec EXCEPT !.bits = @ \cup {i}]
                 ELSE [loc EXCEPT !.bits = @ \cup rec.bits \cup {i}])
        BY <1>r, <1>2, <2>2, <3>1 DEF Merge, Protocols, PaxosMerge, TomMerge, RawPacket
      <4> QED
        BY <1>0, <3>1, <4>1 DEF RawPacket
    <3>3. loc.phase = "Prepare"
      BY <3>1 DEF NoPacket
    <3> QED
      BY <1>0, <1>2, <2>2, <3>1, <3>2, <3>3 DEF Truthful, Final, Verdict, Combines
  <2> QED
    BY <2>1, <2>2
<1> QED
  BY <1>1, <1>2

\* init_proposal: the initiator's packet is truthful and has its bit.
LEMMA InitProposalFacts ==
    ASSUME NEW p \in Protocols, NEW no \in SUBSET Node, p # "2pc_ce" => no = {},
           NEW i \in Node, NEW t \in Nat \ {0}
    PROVE  LET r == InitProposal(p, i, t, no)
           IN  Truthful(p, no, t, r) /\ r.bits = {i} /\ (Final(r) => r.phase = "Aborted" /\ i \in no)
<1> DEFINE r == InitProposal(p, i, t, no)
<1>r. r = InitProposal(p, i, t, no)
  OBVIOUS
<1> HIDE DEF r
<1> SUFFICES Truthful(p, no, t, r) /\ r.bits = {i} /\ (Final(r) => r.phase = "Aborted" /\ i \in no)
  BY DEF r
<1> DEFINE fresh == [term |-> t, phase |-> "Prepare", bits |-> {}]
<1>1. Truthful(p, no, t, fresh)
  BY DEF Truthful, RawPacket, Phase
<1>2. CASE p = "2pc_ce"
  <2>1. r = AdoptWithLocalVote(fresh, i, no)
    BY <1>r, <1>2 DEF InitProposal
  <2>2. Truthful(p, no, t, r) /\ Follows(i, fresh, r)
    BY <1>1, <1>2, <2>1, AdoptFacts
  <2>3. r.bits = {i}
    BY <2>2 DEF Follows
  <2>4. Final(r) => r.phase = "Aborted" /\ i \in no
    <3>1. Node # {i}
      BY NAssumption DEF Node
    <3> QED
      BY <2>1, <3>1 DEF AdoptWithLocalVote, LocalVote, CommitIfUnanimous, Escalate, Final, Verdict
  <2> QED
    BY <2>2, <2>3, <2>4
<1>3. CASE p # "2pc_ce"
  <2>1. r = [fresh EXCEPT !.bits = {i}]
    BY <1>r, <1>3 DEF InitProposal
  <2> QED
    BY <1>1, <1>3, <2>1 DEF Truthful, RawPacket, Final, Verdict, Phase
<1> QED
  BY <1>2, <1>3

-----------------------------------------------------------------------------
\* The end of the round before the one at hand.
LastEnd == IF ProposalId = 0 THEN 0 ELSE proposals[ProposalId].end

\* Terms and slots follow the loop, and a round is recorded at its goal or at its deadline.
LoopInv ==
    /\ pc = "propose" => current_term = ProposalId /\ current_slot = LastEnd
    /\ pc \in {"slots", "record"} =>
          /\ current_term = ProposalId + 1 /\ round_start = LastEnd
          /\ round_start <= current_slot /\ current_slot <= Deadline
    /\ pc = "record" => NetworkGoalReached(protocol, payload) \/ current_slot = Deadline

\* The snapshots are the multiples of the interval below current_slot.
ClockInv ==
    /\ ticked = current_slot
    /\ next_snapshot = rows * SnapshotInterval
    /\ current_slot <= next_snapshot /\ next_snapshot < current_slot + SnapshotInterval

\* Each round recorded starts where the one before ended, and none is longer than its deadline.
RoundsAreChained ==
    \A k \in DOMAIN proposals :
        /\ proposals[k].start = IF k = 1 THEN 0 ELSE proposals[k-1].end
        /\ proposals[k].end - proposals[k].start <= MaxRoundSlots

\* What node i holds is nothing or a truthful packet with its own bit.
HoldsTruth(pkt, i) ==
    pkt = NoPacket \/ (Truthful(protocol, against, current_term, pkt) /\ i \in pkt.bits)

\* Only 2PC has votes; every packet held is truthful, and so is every bit in it.
PacketsInv ==
    /\ protocol # "2pc_ce" => against = {}
    /\ \A i \in Node : HoldsTruth(payload[i], i)
    /\ BitsAreEvidence

\* The inductive invariant of the slot loop and of the loop over proposals.
CeInv ==
    /\ TypeOK /\ LoopInv /\ ClockInv /\ RoundsAreChained /\ PacketsInv
    /\ \A i \in Node : state[i] # "Sleep"
    /\ OutcomesAreEarned

-----------------------------------------------------------------------------
\* The nodes are a finite set of N.
LEMMA NodesAreFinite == IsFiniteSet(Node) /\ Cardinality(Node) = N
BY NAssumption, FS_Interval DEF Node

\* More nodes make a quorum if fewer do, and all of them do.
LEMMA QuorumGrows ==
    ASSUME NEW T \in SUBSET Node, NEW S \in SUBSET T, HasQuorum(S)
    PROVE  HasQuorum(T) /\ S # {}
<1>1. IsFiniteSet(T) /\ IsFiniteSet(S) /\ Cardinality(S) <= Cardinality(T)
  BY NodesAreFinite, FS_Subset
<1>2. Cardinality(S) \in Nat /\ Cardinality(T) \in Nat /\ N \div 2 + 1 \in Nat
  BY <1>1, NAssumption, FS_CardinalityType
<1>3. Cardinality({}) = 0 /\ 0 < N \div 2 + 1
  BY NAssumption, FS_EmptySet
<1>4. Cardinality(S) >= N \div 2 + 1
  BY DEF HasQuorum
<1>5. Cardinality(T) >= N \div 2 + 1
  BY <1>1, <1>2, <1>4
<1>6. S # {}
  <2> SUFFICES ASSUME S = {}
               PROVE  FALSE
    OBVIOUS
  <2>1. Cardinality(S) = 0
    BY <1>3
  <2> QED
    BY <1>2, <1>3, <1>4, <2>1
<1> QED
  BY <1>5, <1>6 DEF HasQuorum

\* The nodes of a finished Paxos round, all of them, are a quorum.
LEMMA AllAreAQuorum == HasQuorum(Node)
BY NodesAreFinite, NAssumption DEF HasQuorum

\* The step 1 of a slot keeps the clock: the slot is sampled if it is the next to sample.
LEMMA MeterStep ==
    ASSUME TypeOK, ClockInv, Meter, current_slot' = current_slot + 1
    PROVE  ClockInv' /\ ticked' \in Nat /\ next_snapshot' \in Nat /\ rows' \in Nat
<1> DEFINE due == SnapshotsDue(current_slot)
<1>0. /\ current_slot \in Nat /\ ticked \in Nat /\ next_snapshot \in Nat /\ rows \in Nat
      /\ SnapshotInterval \in Nat \ {0} /\ current_slot <= next_snapshot
  BY CeAssumption DEF TypeOK, ClockInv
<1>1. CASE next_snapshot = current_slot
  <2>1. due = {current_slot}
    BY <1>0, <1>1 DEF SnapshotsDue
  <2>2. Cardinality(due) = 1
    BY <2>1, FS_Singleton
  <2>3. rows' = rows + 1 /\ next_snapshot' = next_snapshot + SnapshotInterval * 1
    BY <2>2 DEF Meter
  <2>4. (rows + 1) * SnapshotInterval = rows * SnapshotInterval + SnapshotInterval
    BY <1>0
  <2> QED
    BY <1>0, <1>1, <2>3, <2>4 DEF Meter, ClockInv
<1>2. CASE next_snapshot # current_slot
  <2>1. due = {}
    BY <1>0, <1>2 DEF SnapshotsDue
  <2>2. Cardinality(due) = 0
    BY <2>1, FS_EmptySet
  <2>3. rows' = rows + 0 /\ next_snapshot' = next_snapshot + SnapshotInterval * 0
    BY <2>2 DEF Meter
  <2> QED
    BY <1>0, <1>2, <2>3 DEF Meter, ClockInv
<1> QED
  BY <1>1, <1>2

\* A packet a node holds is one of TypeOK.
LEMMA TruthIsTyped ==
    ASSUME NEW i \in Node, NEW t, NEW pkt, Truthful(protocol, against, t, pkt), i \in pkt.bits
    PROVE  pkt \in {q \in Packet : q.term = t} /\ pkt # NoPacket
BY DEF Truthful, RawPacket, Packet, NoPacket

\* A full bitmap next to a verdict means that everyone holds the verdict.
LEMMA SleepIsSafe ==
    ASSUME PacketsInv, NEW i \in Node, NodeCanSleep(protocol, payload[i])
    PROVE  NetworkGoalReached(protocol, payload)
BY DEF PacketsInv, BitsAreEvidence, NodeCanSleep, NetworkGoalReached, AllHold, Final

(***************************************************************************)
(* A slot in which every node i merges what it captured, from[i], keeps    *)
(* the packets truthful and their bits evidence: what a bit was evidence   *)
(* of before the slot is still so after it.                                *)
(***************************************************************************)
LEMMA MergingKeepsPackets ==
    ASSUME TypeOK, PacketsInv, UNCHANGED <<protocol, current_term, against>>,
           NEW from \in [Node -> Node \cup {None}],
           payload' = [i \in Node |->
               Merge(protocol, payload[i],
                     IF from[i] = None THEN NoPacket ELSE payload[from[i]], i, against)]
    PROVE  /\ PacketsInv'
           /\ \A i \in Node : from[i] = None => payload'[i] = payload[i]
           /\ \A i \in Node : Final(payload[i]) => payload'[i].phase = payload[i].phase
<1> DEFINE received(i) == IF from[i] = None THEN NoPacket ELSE payload[from[i]]
           T(pkt) == Truthful(protocol, against, current_term, pkt)
<1>0. /\ protocol \in Protocols /\ against \in SUBSET Node /\ (protocol # "2pc_ce" => against = {})
      /\ \A i \in Node : payload[i] = NoPacket \/ (T(payload[i]) /\ i \in payload[i].bits)
      /\ \A i \in Node : received(i) = NoPacket \/ T(received(i))
  BY DEF TypeOK, PacketsInv, HoldsTruth
<1>1. ASSUME NEW i \in Node
      PROVE  /\ payload'[i] = NoPacket \/ (T(payload'[i]) /\ i \in payload'[i].bits)
             /\ Combines(i, payload[i], received(i), payload'[i])
  <2>1. payload'[i] = Merge(protocol, payload[i], received(i), i, against)
    OBVIOUS
  <2>2. payload[i] = NoPacket \/ (T(payload[i]) /\ i \in payload[i].bits)
    BY <1>0
  <2>3. received(i) = NoPacket \/ T(received(i))
    BY <1>0
  <2> HIDE DEF received
  <2>4. LET r == Merge(protocol, payload[i], received(i), i, against)
        IN  /\ r = NoPacket \/ (T(r) /\ i \in r.bits)
            /\ Combines(i, payload[i], received(i), r)
    BY <1>0, <2>2, <2>3, MergeFacts
  <2> QED
    BY <2>1, <2>4
<1>2. \A i \in Node : HoldsTruth(payload[i], i)'
  BY <1>1 DEF HoldsTruth
<1>3. ASSUME NEW i \in Node, NEW j \in Node, j \in payload'[i].bits
      PROVE  /\ payload'[j].term = payload'[i].term
             /\ Final(payload'[i]) => payload'[j].phase = payload'[i].phase /\ j \in payload'[j].bits
             /\ ~Final(payload'[i]) =>
                   j \notin against /\ (Final(payload'[j]) \/ j \in payload'[j].bits)
  <2>1. payload'[i] # NoPacket /\ T(payload'[i])
    BY <1>1, <1>3 DEF NoPacket
  <2>2. ~Final(payload'[i]) => j \notin against
    BY <1>3, <2>1 DEF Truthful, RawPacket, Phase, Final
  <2>3. CASE j = i
    BY <1>1, <1>3, <2>2, <2>3
  <2>4. CASE j # i
    <3>1. PICK k \in Node : j \in payload[k].bits /\ payload'[i].phase = payload[k].phase
      BY <1>1, <1>3, <2>4 DEF NoPacket, Combines
    <3>2. payload[k] # NoPacket /\ T(payload[k]) /\ payload[j].term = payload[k].term
      BY <1>0, <3>1 DEF NoPacket, PacketsInv, BitsAreEvidence
    <3>3. payload[j] # NoPacket
      BY <3>2 DEF Truthful, RawPacket, NoPacket
    <3>4. T(payload'[j]) /\ j \in payload'[j].bits
      BY <1>1, <3>3 DEF Combines
    <3>5. Final(payload'[i]) => payload'[j].phase = payload'[i].phase
      BY <1>1, <3>1 DEF Combines, Final, PacketsInv, BitsAreEvidence
    <3> QED
      BY <2>1, <2>2, <3>4, <3>5 DEF Truthful
  <2> QED
    BY <2>3, <2>4
<1>4. BitsAreEvidence'
  BY <1>3 DEF BitsAreEvidence
<1> QED
  BY <1>0, <1>1, <1>2, <1>4 DEF PacketsInv, Combines

(***************************************************************************)
(* Propose starts the next round at the slot the last one ended, with the  *)
(* initiator's packet alone.                                               *)
(***************************************************************************)
LEMMA ProposeStep ==
    ASSUME CeInv, Propose
    PROVE  CeInv'
<1> DEFINE i == InitiatorOf(ProposalId)
           pkt == InitProposal(protocol, i, current_term', against')
<1>0. /\ ProposalId \in Nat /\ ProposalId < NumProposals /\ current_term = ProposalId
      /\ NumProposals \in Nat /\ MaxRoundSlots \in Nat
  BY CeAssumption DEF CeInv, TypeOK, LoopInv, Propose, ProposalsLeft, ProposalId
<1>1. i \in Node
  BY <1>0, NAssumption DEF InitiatorOf, Node
<1>2. /\ current_term' = ProposalId + 1 /\ current_term' \in 0 .. NumProposals
      /\ current_term' \in Nat \ {0}
  BY <1>0 DEF Propose
<1>3. against' \in SUBSET Node /\ (protocol # "2pc_ce" => against' = {})
  BY DEF Propose
<1>4. /\ Truthful(protocol, against', current_term', pkt) /\ pkt.bits = {i}
      /\ Final(pkt) => pkt.phase = "Aborted" /\ i \in against'
  <2>1. protocol \in Protocols
    BY DEF CeInv, TypeOK
  <2> QED
    BY <1>1, <1>2, <1>3, <2>1, InitProposalFacts
<1>5. /\ payload' = [[j \in Node |-> NoPacket] EXCEPT ![i] = pkt]
      /\ state' = [[j \in Node |-> "Listen"] EXCEPT ![i] = "Flood"]
  BY DEF Propose
<1> HIDE DEF i, pkt
<1>6. \A j \in Node : payload'[j] = IF j = i THEN pkt ELSE NoPacket
  BY <1>1, <1>5
<1>7. pkt \in {q \in Packet : q.term = current_term'}
  BY <1>1, <1>4 DEF Truthful, RawPacket, Packet
<1>8. TypeOK'
  <2>1. /\ pc' = "slots" /\ round_start' = current_slot /\ goal_reached' = [j \in Node |-> FALSE]
        /\ last_progress_slot' = [j \in Node |-> current_slot]
        /\ UNCHANGED <<protocol, current_slot, progress_count, proposals, meters>>
    BY DEF Propose
  <2>2. progress_count' \in 0 .. current_term'
    BY <1>0, <1>2, <2>1 DEF CeInv, TypeOK
  <2>3. payload' \in [Node -> {NoPacket} \cup {q \in Packet : q.term = current_term'}]
    BY <1>1, <1>5, <1>7
  <2>4. state' \in [Node -> {"Listen", "Flood", "Sleep"}]
    BY <1>1, <1>5
  <2> QED
    BY <1>2, <1>3, <2>1, <2>2, <2>3, <2>4 DEF CeInv, TypeOK, meters
<1>9. LoopInv'
  BY <1>0, <1>2 DEF CeInv, TypeOK, LoopInv, Propose, ProposalId, LastEnd, Deadline
<1>10. ClockInv' /\ RoundsAreChained'
  BY DEF CeInv, ClockInv, RoundsAreChained, Propose, meters
<1>11. PacketsInv'
  <2>1. \A j \in Node : HoldsTruth(payload[j], j)'
    BY <1>1, <1>4, <1>6 DEF HoldsTruth, Propose
  <2>2. BitsAreEvidence'
    <3>1. i \notin against' \/ Final(pkt)
      BY <1>4 DEF Truthful, RawPacket, Phase, Final, Verdict
    <3> QED
      BY <1>1, <1>4, <1>6, <3>1 DEF BitsAreEvidence, NoPacket, Final
  <2> QED
    BY <1>3, <2>1, <2>2 DEF PacketsInv, Propose
<1>12. (\A j \in Node : state[j] # "Sleep")'
  BY <1>1, <1>5
<1>13. OutcomesAreEarned'
  BY DEF Propose, OutcomesAreEarned
<1> QED
  BY <1>8, <1>9, <1>10, <1>11, <1>12, <1>13 DEF CeInv

(***************************************************************************)
(* A slot keeps all of it.  A node that floods captures nothing, so it can *)
(* be sure to sleep only on what it held before, and then the round's goal *)
(* would have been seen at the head of the slot.                           *)
(***************************************************************************)
LEMMA SlotStep ==
    ASSUME CeInv, Slot
    PROVE  /\ CeInv'
           /\ \A i \in Node : Final(payload[i]) => payload'[i].phase = payload[i].phase
<1> DEFINE Flooded(recovering, from) ==
        LET received(i) == IF from[i] = None THEN NoPacket ELSE payload[from[i]]
            progress == recovering \cup {i \in Node : payload'[i] # payload[i]}
        IN  /\ payload' = [i \in Node |-> Merge(protocol, payload[i], received(i), i, against)]
            /\ goal_reached' =
                  [i \in Node |-> IF payload'[i] = payload[i] THEN goal_reached[i]
                                  ELSE NodeGoalReached(protocol, payload'[i])]
            /\ state' = [i \in Node |-> NextState(state[i], payload'[i], i \in progress)]
            /\ last_progress_slot' =
                  [i \in Node |-> IF i \in progress THEN current_slot ELSE last_progress_slot[i]]
<1>0. PICK recovering \in SUBSET Stalled : \E from \in Captures(recovering) : Flooded(recovering, from)
  BY DEF Slot
<1>1. PICK from \in Captures(recovering) : Flooded(recovering, from)
  BY <1>0
<1>2. /\ InRound /\ ~NetworkGoalReached(protocol, payload) /\ Meter
      /\ current_slot' = current_slot + 1
      /\ UNCHANGED <<pc, protocol, proposal, progress_count, proposals>>
  BY DEF Slot
<1>3. from \in [Node -> Node \cup {None}] /\ (\A i \in Node : from[i] # None => state[i] = "Listen")
  BY DEF Captures
<1>4. /\ PacketsInv' /\ (\A i \in Node : from[i] = None => payload'[i] = payload[i])
      /\ \A i \in Node : Final(payload[i]) => payload'[i].phase = payload[i].phase
  BY <1>1, <1>2, <1>3, MergingKeepsPackets DEF CeInv, proposal
<1>5. ClockInv' /\ ticked' \in Nat /\ next_snapshot' \in Nat /\ rows' \in Nat
  BY <1>2, MeterStep DEF CeInv
<1>6. ASSUME NEW i \in Node
      PROVE  state'[i] \in {"Listen", "Flood"}
  <2> DEFINE moved == i \in recovering \cup {j \in Node : payload'[j] # payload[j]}
  <2>1. state'[i] = NextState(state[i], payload'[i], moved)
    BY <1>1
  <2>2. state[i] = "Flood" => ~NodeCanSleep(protocol, payload'[i])
    BY <1>2, <1>3, <1>4, SleepIsSafe DEF CeInv
  <2>3. state[i] \in {"Listen", "Flood"}
    BY DEF CeInv, TypeOK
  <2> QED
    BY <2>1, <2>2, <2>3 DEF NextState
<1>7. TypeOK'
  <2>1. /\ pc' = pc /\ protocol' = protocol /\ round_start' = round_start
        /\ current_term' = current_term /\ against' = against
        /\ progress_count' = progress_count /\ proposals' = proposals
    BY <1>2 DEF proposal
  <2>2. current_slot' \in Nat
    BY <1>2 DEF CeInv, TypeOK
  <2>3. payload' \in [Node -> {NoPacket} \cup {q \in Packet : q.term = current_term'}]
    <3>1. ASSUME NEW i \in Node
          PROVE  payload'[i] \in {NoPacket} \cup {q \in Packet : q.term = current_term}
      <4>1. \/ payload'[i] = NoPacket
            \/ Truthful(protocol, against, current_term, payload'[i]) /\ i \in payload'[i].bits
        BY <1>4, <2>1 DEF PacketsInv, HoldsTruth
      <4> QED
        BY <4>1, TruthIsTyped
    <3> QED
      BY <1>1, <2>1, <3>1
  <2>4. state' \in [Node -> {"Listen", "Flood", "Sleep"}]
    BY <1>1, <1>6
  <2>5. goal_reached' \in [Node -> BOOLEAN]
    <3>1. \A i \in Node : NodeGoalReached(protocol, payload'[i]) \in BOOLEAN
      BY DEF NodeGoalReached
    <3> QED
      BY <1>1, <3>1 DEF CeInv, TypeOK
  <2>6. last_progress_slot' \in [Node -> Nat]
    <3>1. last_progress_slot \in [Node -> Nat] /\ current_slot \in Nat
      BY DEF CeInv, TypeOK
    <3> QED
      BY <1>1, <3>1
  <2> QED
    BY <1>5, <2>1, <2>2, <2>3, <2>4, <2>5, <2>6 DEF CeInv, TypeOK
<1>8. LoopInv'
  BY <1>2, CeAssumption DEF CeInv, TypeOK, LoopInv, InRound, proposal, ProposalId, LastEnd, Deadline
<1>9. RoundsAreChained' /\ OutcomesAreEarned'
  BY <1>2 DEF CeInv, RoundsAreChained, OutcomesAreEarned, InRound, proposal
<1> QED
  BY <1>4, <1>5, <1>6, <1>7, <1>8, <1>9 DEF CeInv

\* The round ends in the slot after the one that saw the goal, which is charged.
LEMMA GoalStep ==
    ASSUME CeInv, GoalReached
    PROVE  CeInv'
<1>0. /\ InRound /\ NetworkGoalReached(protocol, payload) /\ Meter /\ pc' = "record"
      /\ current_slot' = current_slot + 1
      /\ UNCHANGED <<protocol, proposal, radio, progress_count, proposals>>
  BY DEF GoalReached, SlotAfterGoal
<1>1. ClockInv' /\ ticked' \in Nat /\ next_snapshot' \in Nat /\ rows' \in Nat
  BY <1>0, MeterStep DEF CeInv
<1>2. TypeOK'
  BY <1>0, <1>1 DEF CeInv, TypeOK, proposal, radio
<1>3. LoopInv'
  BY <1>0, CeAssumption DEF CeInv, TypeOK, LoopInv, InRound, proposal, radio, ProposalId, LastEnd,
     Deadline, NetworkGoalReached, NodeGoalReached, AllHold
<1>4. PacketsInv'
  BY <1>0 DEF CeInv, PacketsInv, HoldsTruth, BitsAreEvidence, proposal, radio
<1>5. RoundsAreChained' /\ OutcomesAreEarned' /\ (\A i \in Node : state[i] # "Sleep")'
  BY <1>0 DEF CeInv, RoundsAreChained, OutcomesAreEarned, radio
<1> QED
  BY <1>1, <1>2, <1>3, <1>4, <1>5 DEF CeInv

\* So does the deadline, in the slot it is in.
LEMMA DeadlineStep ==
    ASSUME CeInv, DeadlineReached
    PROVE  CeInv'
<1>0. /\ pc = "slots" /\ pc' = "record" /\ current_slot >= Deadline
      /\ UNCHANGED <<protocol, current_slot, proposal, radio, progress_count, proposals, meters>>
  BY DEF DeadlineReached
<1>1. TypeOK' /\ ClockInv'
  BY <1>0 DEF CeInv, TypeOK, ClockInv, proposal, radio, meters
<1>2. LoopInv'
  BY <1>0, CeAssumption DEF CeInv, TypeOK, LoopInv, proposal, ProposalId, LastEnd, Deadline
<1>3. PacketsInv'
  BY <1>0 DEF CeInv, PacketsInv, HoldsTruth, BitsAreEvidence, proposal, radio
<1>4. RoundsAreChained' /\ OutcomesAreEarned' /\ (\A i \in Node : state[i] # "Sleep")'
  BY <1>0 DEF CeInv, RoundsAreChained, OutcomesAreEarned, radio
<1> QED
  BY <1>1, <1>2, <1>3, <1>4 DEF CeInv

(***************************************************************************)
(* What the packets say at the end of a round: a commit is earned, and     *)
(* what is not a commit, with nobody against it, did not reach the goal.   *)
(***************************************************************************)
LEMMA OutcomeIsEarned ==
    ASSUME TypeOK, PacketsInv, current_term # 0
    PROVE  LET outcome == ProposalOutcome(protocol, payload)
               holders == {i \in Node : payload[i].term = current_term}
           IN  /\ outcome \in Outcome
               /\ outcome = "Committed" =>
                     /\ HasQuorum(holders) /\ against = {}
                     /\ protocol = "tom_ce" => holders = Node
                     /\ protocol = "2pc_ce" => AllHold(payload, "Committed")
               /\ \/ outcome = "TimedOut"
                  \/ outcome = "Aborted" /\ against = {}
                  => ~NetworkGoalReached(protocol, payload)
<1> DEFINE outcome == ProposalOutcome(protocol, payload)
           holders == {i \in Node : payload[i].term = current_term}
<1>o. outcome = ProposalOutcome(protocol, payload)
  OBVIOUS
<1> HIDE DEF outcome
<1> SUFFICES /\ outcome \in Outcome
             /\ outcome = "Committed" =>
                   /\ HasQuorum(holders) /\ against = {}
                   /\ protocol = "tom_ce" => holders = Node
                   /\ protocol = "2pc_ce" => AllHold(payload, "Committed")
             /\ \/ outcome = "TimedOut"
                \/ outcome = "Aborted" /\ against = {}
                => ~NetworkGoalReached(protocol, payload)
  BY DEF outcome
<1>1. \A i \in Node : payload[i] # NoPacket => Truthful(protocol, against, current_term, payload[i])
  BY DEF PacketsInv, HoldsTruth
<1>2. \A i \in Node : payload[i] # NoPacket => payload[i].term = current_term
  BY <1>1 DEF Truthful
<1>3. 0 \in Node
  BY NAssumption DEF Node
<1>4. CASE protocol = "2pc_ce"
  <2>1. outcome = TwoPcOutcome(payload)
    BY <1>o, <1>4 DEF ProposalOutcome
  <2>2. CASE AllHold(payload, "Committed")
    <3>1. \A i \in Node : payload[i].phase = "Committed" /\ payload[i] # NoPacket
      BY <2>2 DEF AllHold, NoPacket
    <3>2. holders = Node
      BY <1>2, <3>1
    <3>3. against = {}
      BY <1>1, <1>3, <3>1 DEF Truthful
    <3> QED
      BY <1>4, <2>1, <2>2, <3>2, <3>3, AllAreAQuorum DEF TwoPcOutcome, Outcome, Verdict
  <2>3. CASE ~AllHold(payload, "Committed")
    <3>1. against = {} => ~AllHold(payload, "Aborted")
      BY <1>1, <1>3 DEF AllHold, NoPacket, Truthful
    <3> QED
      BY <1>4, <2>1, <2>3, <3>1 DEF TwoPcOutcome, Outcome, Verdict, NetworkGoalReached
  <2> QED
    BY <2>2, <2>3
<1>5. CASE protocol = "paxos_ce"
  <2> DEFINE reached == {i \in Node : NodeGoalReached("paxos_ce", payload[i])}
  <2>1. outcome = IF HasQuorum(reached) THEN "Committed" ELSE "TimedOut"
    BY <1>o, <1>5 DEF ProposalOutcome, PaxosOutcome
  <2>2. reached \in SUBSET holders
    BY <1>2 DEF NodeGoalReached
  <2>3. HasQuorum(reached) => HasQuorum(holders)
    BY <2>2, QuorumGrows
  <2>4. NetworkGoalReached(protocol, payload) => reached = Node
    BY <1>5 DEF NetworkGoalReached
  <2>5. against = {}
    BY <1>5 DEF PacketsInv
  <2> QED
    BY <1>5, <2>1, <2>3, <2>4, <2>5, AllAreAQuorum DEF Outcome, Verdict
<1>6. CASE protocol = "tom_ce"
  <2>1. outcome = IF NetworkGoalReached("tom_ce", payload) THEN "Committed" ELSE "TimedOut"
    BY <1>o, <1>6 DEF ProposalOutcome, TomOutcome
  <2>2. NetworkGoalReached("tom_ce", payload) => holders = Node
    BY <1>2 DEF NetworkGoalReached, NodeGoalReached
  <2>3. against = {}
    BY <1>6 DEF PacketsInv
  <2> QED
    BY <1>6, <2>1, <2>2, <2>3, AllAreAQuorum DEF Outcome, Verdict
<1> QED
  BY <1>4, <1>5, <1>6 DEF TypeOK, Protocols

\* The record of the round follows the one before and says what the packets do.
LEMMA RecordStep ==
    ASSUME CeInv, RecordProposal
    PROVE  CeInv'
<1> DEFINE outcome == ProposalOutcome(protocol, payload)
           r == [start |-> round_start, end |-> current_slot, outcome |-> outcome]
           holders == {i \in Node : payload[i].term = current_term}
<1>0. /\ pc = "record" /\ pc' = "propose" /\ proposals' = Append(proposals, r)
      /\ progress_count' = IF outcome \in Verdict THEN ProposalId + 1 ELSE progress_count
      /\ UNCHANGED <<protocol, current_slot, proposal, radio, meters>>
  BY DEF RecordProposal
<1>1. /\ current_term = ProposalId + 1 /\ round_start = LastEnd
      /\ round_start <= current_slot /\ current_slot <= Deadline
      /\ NetworkGoalReached(protocol, payload) \/ current_slot = Deadline
      /\ ProposalId \in Nat /\ proposals \in Seq(ProposalRecord)
      /\ round_start \in Nat /\ current_slot \in Nat /\ MaxRoundSlots \in Nat
  BY <1>0, CeAssumption DEF CeInv, TypeOK, LoopInv, ProposalId
<1>2. /\ outcome \in Outcome
      /\ outcome = "Committed" =>
            /\ HasQuorum(holders) /\ against = {}
            /\ protocol = "tom_ce" => holders = Node
            /\ protocol = "2pc_ce" => AllHold(payload, "Committed")
      /\ \/ outcome = "TimedOut"
         \/ outcome = "Aborted" /\ against = {}
         => ~NetworkGoalReached(protocol, payload)
  <2>1. TypeOK /\ PacketsInv /\ current_term # 0
    BY <1>1 DEF CeInv
  <2> QED
    BY <2>1, OutcomeIsEarned
<1> HIDE DEF outcome
<1>3. r \in ProposalRecord
  BY <1>1, <1>2 DEF ProposalRecord
<1>4. /\ proposals' \in Seq(ProposalRecord)
      /\ Len(proposals') = Len(proposals) + 1
      /\ \A k \in 1 .. Len(proposals) : proposals'[k] = proposals[k]
      /\ proposals'[Len(proposals) + 1] = r
  BY <1>0, <1>1, <1>3
<1>5. TypeOK'
  <2>1. progress_count' \in 0 .. current_term
    BY <1>0, <1>1 DEF CeInv, TypeOK
  <2> QED
    BY <1>0, <1>4, <2>1 DEF CeInv, TypeOK, proposal, radio, meters
<1>6. LoopInv' /\ ClockInv'
  <2>1. LastEnd' = current_slot /\ ProposalId' = ProposalId + 1
    BY <1>1, <1>4 DEF LastEnd, ProposalId
  <2> QED
    BY <1>0, <1>1, <2>1 DEF CeInv, LoopInv, ClockInv, proposal, meters
<1>7. RoundsAreChained'
  <2>1. ASSUME NEW k \in DOMAIN proposals'
        PROVE  /\ proposals'[k].start = IF k = 1 THEN 0 ELSE proposals'[k-1].end
               /\ proposals'[k].end - proposals'[k].start <= MaxRoundSlots
    <3>1. k \in 1 .. Len(proposals) + 1 /\ DOMAIN proposals = 1 .. Len(proposals) /\ Len(proposals) \in Nat
      BY <1>1, <1>4, <2>1
    <3>2. CASE k \in 1 .. Len(proposals)
      <4>1. proposals'[k] = proposals[k] /\ (k # 1 => proposals'[k-1] = proposals[k-1])
        BY <1>4, <3>1, <3>2
      <4> QED
        BY <3>1, <3>2, <4>1 DEF CeInv, RoundsAreChained
    <3>3. CASE k = Len(proposals) + 1
      <4>1. proposals'[k] = r /\ (k # 1 => proposals'[k-1] = proposals[Len(proposals)])
        BY <1>4, <3>1, <3>3
      <4>2. r.start = IF k = 1 THEN 0 ELSE proposals[Len(proposals)].end
        BY <1>1, <3>1, <3>3 DEF LastEnd, ProposalId
      <4>3. r.end - r.start <= MaxRoundSlots
        BY <1>1 DEF Deadline
      <4> QED
        BY <4>1, <4>2, <4>3
    <3> QED
      BY <3>1, <3>2, <3>3
  <2> QED
    BY <2>1 DEF RoundsAreChained
<1>8. PacketsInv' /\ (\A i \in Node : state[i] # "Sleep")'
  BY <1>0 DEF CeInv, PacketsInv, HoldsTruth, BitsAreEvidence, proposal, radio
<1>9. OutcomesAreEarned'
  <2>1. proposals'[ProposalId'] = r
    BY <1>4 DEF ProposalId
  <2>2. outcome = "TimedOut" \/ (outcome = "Aborted" /\ against = {}) => r.end = r.start + MaxRoundSlots
    BY <1>1, <1>2 DEF Deadline
  <2>3. payload' = payload /\ current_term' = current_term /\ against' = against /\ protocol' = protocol
    BY <1>0 DEF proposal, radio
  <2> QED
    BY <1>2, <2>1, <2>2, <2>3 DEF OutcomesAreEarned
<1> QED
  BY <1>5, <1>6, <1>7, <1>8, <1>9 DEF CeInv

(***************************************************************************)
(* The proposals given up are recorded with an empty round each, in the    *)
(* slot the last one ended.                                                *)
(***************************************************************************)
LEMMA GiveUpStep ==
    ASSUME CeInv, GiveUp
    PROVE  CeInv'
<1> DEFINE left == NumProposals - ProposalId
           r == [start |-> current_slot, end |-> current_slot, outcome |-> "TimedOut"]
           skipped == [k \in 1 .. left |-> r]
<1>0. /\ pc = "propose" /\ pc' = "stopped" /\ proposals' = proposals \o skipped
      /\ UNCHANGED <<protocol, current_slot, proposal, radio, progress_count, meters>>
  BY DEF GiveUp
<1>1. /\ ProposalId \in Nat /\ left \in Nat /\ proposals \in Seq(ProposalRecord)
      /\ Len(proposals) = ProposalId /\ current_slot = LastEnd
      /\ current_slot \in Nat /\ MaxRoundSlots \in Nat
  BY <1>0, CeAssumption DEF CeInv, TypeOK, LoopInv, ProposalId, GiveUp, ProposalsLeft
<1> HIDE DEF left
<1>2. r \in ProposalRecord
  BY <1>1 DEF ProposalRecord, Outcome, Verdict
<1>3. skipped \in Seq(ProposalRecord) /\ Len(skipped) = left
  BY <1>1, <1>2
<1>4. /\ proposals' \in Seq(ProposalRecord) /\ Len(proposals') = ProposalId + left
      /\ \A k \in 1 .. ProposalId : proposals'[k] = proposals[k]
      /\ \A k \in ProposalId + 1 .. ProposalId + left : proposals'[k] = r
  <2>1. /\ proposals' \in Seq(ProposalRecord) /\ Len(proposals') = ProposalId + left
        /\ \A k \in 1 .. ProposalId : proposals'[k] = proposals[k]
    <3> HIDE DEF skipped
    <3> QED
      BY <1>0, <1>1, <1>3
  <2>2. ASSUME NEW k \in ProposalId + 1 .. ProposalId + left
        PROVE  proposals'[k] = r
    <3>1. proposals'[k] = skipped[k - ProposalId]
      <4> HIDE DEF skipped
      <4> QED
        BY <1>0, <1>1, <1>3, <2>2
    <3> QED
      BY <1>1, <2>2, <3>1
  <2> QED
    BY <2>1, <2>2
<1>5. TypeOK' /\ LoopInv' /\ ClockInv' /\ OutcomesAreEarned'
  BY <1>0, <1>4 DEF CeInv, TypeOK, LoopInv, ClockInv, OutcomesAreEarned, proposal, radio, meters
<1>6. RoundsAreChained'
  <2>1. ASSUME NEW k \in DOMAIN proposals'
        PROVE  /\ proposals'[k].start = IF k = 1 THEN 0 ELSE proposals'[k-1].end
               /\ proposals'[k].end - proposals'[k].start <= MaxRoundSlots
    <3>1. k \in 1 .. ProposalId + left /\ DOMAIN proposals = 1 .. ProposalId
      BY <1>1, <1>4, <2>1
    <3>2. CASE k \in 1 .. ProposalId
      <4>1. proposals'[k] = proposals[k] /\ (k # 1 => proposals'[k-1] = proposals[k-1])
        BY <1>1, <1>4, <3>2
      <4> QED
        BY <3>1, <3>2, <4>1 DEF CeInv, RoundsAreChained
    <3>3. CASE k \in ProposalId + 1 .. ProposalId + left
      <4>1. proposals'[k] = r
        BY <1>4, <3>3
      <4>2. k # 1 => proposals'[k-1].end = current_slot
        <5>1. CASE k = ProposalId + 1
          BY <1>1, <1>4, <5>1 DEF LastEnd
        <5>2. CASE k # ProposalId + 1
          BY <1>1, <1>4, <3>3, <5>2
        <5> QED
          BY <5>1, <5>2
      <4>3. k = 1 => current_slot = 0
        BY <1>1, <3>3 DEF LastEnd
      <4> QED
        BY <1>1, <4>1, <4>2, <4>3
    <3> QED
      BY <1>1, <3>1, <3>2, <3>3
  <2> QED
    BY <2>1 DEF RoundsAreChained
<1>7. PacketsInv' /\ (\A i \in Node : state[i] # "Sleep")'
  BY <1>0 DEF CeInv, PacketsInv, HoldsTruth, BitsAreEvidence, proposal, radio
<1> QED
  BY <1>5, <1>6, <1>7 DEF CeInv

-----------------------------------------------------------------------------
(***************************************************************************)
(* The inductive invariant: terms, slots, snapshots and records follow the *)
(* loop, what a node holds is truthful with its own bit, and bits are      *)
(* evidence of what other nodes hold.                                      *)
(***************************************************************************)
THEOREM Invariance == Spec => []CeInv
<1>1. Init => CeInv
  <2> SUFFICES ASSUME Init
               PROVE  CeInv
    OBVIOUS
  <2>1. TypeOK
    BY CeAssumption DEF Init, TypeOK
  <2>2. LoopInv /\ ClockInv /\ RoundsAreChained
    BY CeAssumption DEF Init, LoopInv, ClockInv, RoundsAreChained, ProposalId, LastEnd
  <2>3. PacketsInv
    BY DEF Init, PacketsInv, HoldsTruth, BitsAreEvidence, NoPacket
  <2>4. OutcomesAreEarned /\ (\A i \in Node : state[i] # "Sleep")
    BY DEF Init, OutcomesAreEarned
  <2> QED
    BY <2>1, <2>2, <2>3, <2>4 DEF CeInv
<1>2. CeInv /\ [Next]_vars => CeInv'
  <2> SUFFICES ASSUME CeInv, [Next]_vars
               PROVE  CeInv'
    OBVIOUS
  <2>1. CASE Propose
    BY <2>1, ProposeStep
  <2>2. CASE Slot
    BY <2>2, SlotStep
  <2>3. CASE GoalReached
    BY <2>3, GoalStep
  <2>4. CASE DeadlineReached
    BY <2>4, DeadlineStep
  <2>5. CASE RecordProposal
    BY <2>5, RecordStep
  <2>6. CASE GiveUp
    BY <2>6, GiveUpStep
  <2>7. CASE Complete \/ Finished \/ UNCHANGED vars
    <3>1. /\ UNCHANGED <<protocol, current_slot, proposal, radio, progress_count, proposals, meters>>
          /\ pc' = pc \/ pc' = "stopped"
      BY <2>7 DEF Complete, Finished, vars
    <3>2. TypeOK' /\ LoopInv' /\ ClockInv' /\ RoundsAreChained' /\ OutcomesAreEarned'
      BY <3>1 DEF CeInv, TypeOK, LoopInv, ClockInv, RoundsAreChained, OutcomesAreEarned, ProposalId,
         LastEnd, Deadline, NetworkGoalReached, NodeGoalReached, AllHold, proposal, radio, meters
    <3>3. PacketsInv' /\ (\A i \in Node : state[i] # "Sleep")'
      BY <3>1 DEF CeInv, PacketsInv, HoldsTruth, BitsAreEvidence, proposal, radio
    <3> QED
      BY <3>2, <3>3 DEF CeInv
  <2> QED
    BY <2>1, <2>2, <2>3, <2>4, <2>5, <2>6, <2>7 DEF Next
<1> QED
  BY <1>1, <1>2, PTL DEF Spec

\* Every variable of the simulator has its type in every round.
THEOREM TypeCorrect == Spec => []TypeOK
<1>1. CeInv => TypeOK
  BY DEF CeInv
<1> QED
  BY <1>1, Invariance, PTL

(***************************************************************************)
(* Whatever is lost, a bit stands for what its node holds, a node that may *)
(* sleep is not needed any more, and a recorded outcome is earned.         *)
(***************************************************************************)
THEOREM EvidenceHolds == Spec => []EvidenceIsSound
<1>1. CeInv => EvidenceIsSound
  BY SleepIsSafe DEF CeInv, PacketsInv, EvidenceIsSound, DoneBeforeSleep
<1> QED
  BY <1>1, Invariance, PTL

\* A quotient is the integer whose multiple is at most one divisor below.
LEMMA QuotientIs ==
    ASSUME NEW a \in Nat, NEW d \in Nat \ {0}, NEW q \in Nat, q * d <= a, a < q * d + d
    PROVE  a \div d = q
<1> DEFINE e == a \div d
<1>1. e \in Int /\ e * d <= a /\ a < e * d + d
  OBVIOUS
<1> HIDE DEF e
<1>2. e <= q
  <2> SUFFICES ASSUME e >= q + 1
               PROVE  FALSE
    BY <1>1
  <2>1. e * d >= (q + 1) * d
    BY <1>1
  <2> QED
    BY <1>1, <2>1
<1>3. q <= e
  <2> SUFFICES ASSUME q >= e + 1
               PROVE  FALSE
    BY <1>1
  <2>1. q * d >= (e + 1) * d
    BY <1>1
  <2> QED
    BY <1>1, <2>1
<1> QED
  BY <1>1, <1>2, <1>3 DEF e

\* Each slot belongs to one round, is charged once, and is sampled when it is due.
THEOREM SlotsAreChargedOnce == Spec => []SlotsChargedOnce
<1>1. CeInv => SlotsChargedOnce
  <2> SUFFICES ASSUME CeInv
               PROVE  rows = (current_slot + SnapshotInterval - 1) \div SnapshotInterval
    BY DEF CeInv, SlotsChargedOnce, ClockInv, RoundsAreChained
  <2>1. /\ current_slot \in Nat /\ rows \in Nat /\ SnapshotInterval \in Nat \ {0}
        /\ current_slot <= rows * SnapshotInterval
        /\ rows * SnapshotInterval < current_slot + SnapshotInterval
    BY CeAssumption DEF CeInv, TypeOK, ClockInv
  <2>2. /\ current_slot + SnapshotInterval - 1 \in Nat
        /\ rows * SnapshotInterval <= current_slot + SnapshotInterval - 1
        /\ current_slot + SnapshotInterval - 1 < rows * SnapshotInterval + SnapshotInterval
    <3>1. rows * SnapshotInterval \in Nat
      BY <2>1
    <3> QED
      BY <2>1, <3>1
  <2> QED
    BY <2>1, <2>2, QuotientIs
<1> QED
  BY <1>1, Invariance, PTL

(***************************************************************************)
(* Two-phase commit over CE implements atomic commitment: a proposal       *)
(* begins a transaction, a slot tells the verdict to nodes that have none, *)
(* the right one, and nothing else touches a verdict.                      *)
(***************************************************************************)
THEOREM AtomicCommitImplemented == Spec => ImplementsAtomicCommit
<1> DEFINE verdict == [i \in Node |-> IF Final(payload[i]) THEN payload[i].phase ELSE "none"]
<1>1. Init => Abstract!Init
  BY DEF Init, Abstract!Init, Final, NoPacket, Verdict
<1>2. CeInv /\ CeInv' /\ [Next]_vars => [Abstract!Begin \/ Abstract!Decide]_<<against, verdict>>
  <2> SUFFICES ASSUME CeInv, CeInv', [Next]_vars
               PROVE  [Abstract!Begin \/ Abstract!Decide]_<<against, verdict>>
    OBVIOUS
  <2>1. CASE Propose
    <3> DEFINE i == InitiatorOf(ProposalId)
               pkt == InitProposal(protocol, i, current_term', against')
    <3>1. /\ i \in Node /\ current_term' \in Nat \ {0}
          /\ protocol \in Protocols /\ against' \in SUBSET Node
          /\ protocol # "2pc_ce" => against' = {}
      BY <2>1, NAssumption DEF CeInv, TypeOK, Propose, InitiatorOf, ProposalId, Node
    <3>2. Final(pkt) => pkt.phase = "Aborted" /\ i \in against'
      BY <3>1, InitProposalFacts
    <3>3. payload' = [[j \in Node |-> NoPacket] EXCEPT ![i] = pkt]
      BY <2>1 DEF Propose
    <3> HIDE DEF i, pkt
    <3> DEFINE decided == IF Final(pkt) THEN {i} ELSE {}
    <3>4. verdict' = [j \in Node |-> IF j \in decided THEN "Aborted" ELSE "none"]
      BY <3>1, <3>2, <3>3 DEF Final, NoPacket, Verdict
    <3>5. decided \in {{}} \cup {{m} : m \in against'}
      BY <3>2
    <3> QED
      BY <3>1, <3>4, <3>5 DEF Abstract!Begin
  <2>2. CASE Slot
    <3>1. against' = against /\ protocol' = protocol
      BY <2>2 DEF Slot, proposal
    <3> DEFINE informed == {i \in Node : ~Final(payload[i]) /\ Final(payload'[i])}
    <3>2. ASSUME NEW i \in Node
          PROVE  /\ Final(payload[i]) => payload'[i].phase = payload[i].phase
                 /\ Final(payload'[i]) => payload'[i].phase = Abstract!RightVerdict
      <4>1. Final(payload[i]) => payload'[i].phase = payload[i].phase
        BY <2>2, SlotStep
      <4>2. Final(payload'[i]) => payload'[i].phase = Abstract!RightVerdict
        BY DEF CeInv, PacketsInv, HoldsTruth, Truthful, NoPacket, Final, Verdict, Abstract!RightVerdict
      <4> QED
        BY <4>1, <4>2
    <3>3. verdict' = [i \in Node |-> IF i \in informed THEN Abstract!RightVerdict ELSE verdict[i]]
      BY <3>2 DEF Final
    <3>4. informed \in SUBSET {m \in Node : verdict[m] = "none"}
      OBVIOUS
    <3> HIDE DEF verdict, informed
    <3> QED
      BY <3>1, <3>3, <3>4 DEF Abstract!Decide, verdict
  <2>3. CASE UNCHANGED <<against, payload>>
    BY <2>3
  <2> QED
    BY <2>1, <2>2, <2>3 DEF Next, GiveUp, Complete, GoalReached, DeadlineReached, RecordProposal,
       Finished, vars, proposal, radio
<1> QED
  BY <1>1, <1>2, Invariance, PTL DEF Spec, ImplementsAtomicCommit, Abstract!Spec

=============================================================================
