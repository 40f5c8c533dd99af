---------------------------- MODULE CeProtocols ----------------------------
(***************************************************************************)
(* The three protocols that run on the CE engine, as the functions of the  *)
(* Protocol trait (src/protocol/mod.rs): Paxos (paxos_ce.rs), two-phase    *)
(* commit (two_pc_ce.rs) and totally ordered multicast (tom_ce.rs).  All   *)
(* their state is in the packets nodes hold, so each operator takes the    *)
(* packets it reads; no is the set of nodes whose should_abort_app holds   *)
(* for the current transaction (always empty but for 2PC).                 *)
(*                                                                         *)
(* A bitmap is the set of its true indices.  Only 2PC packets have a       *)
(* phase; the others keep "Prepare".  The data is a function of the term.  *)
(***************************************************************************)
EXTENDS Network

Protocols == {"paxos_ce", "2pc_ce", "tom_ce"}

Verdict == {"Committed", "Aborted"}
Phase == {"Prepare"} \cup Verdict
Outcome == Verdict \cup {"TimedOut"}

\* A packet carries at least the bit of the node that wrote it.
Packet == [term : Nat \ {0}, phase : Phase, bits : (SUBSET Node) \ {{}}]

\* The empty byte vector of init_node_payload, which does not parse.
NoPacket == [term |-> 0, phase |-> "Prepare", bits |-> {}]

Final(pkt) == pkt.phase \in Verdict

-----------------------------------------------------------------------------
\* escalate_to_commit and escalate_to_abort: the bitmap now says who has the verdict.
Escalate(pkt, verdict, i) == [pkt EXCEPT !.phase = verdict, !.bits = {i}]

\* A plausible slip: the application is asked at the initiator only.
AlwaysYes(pkt, i, no) == [pkt EXCEPT !.bits = @ \cup {i}]

\* The own bit, or a NO: shared by the first reception, later merges and the initiator.
LocalVote(pkt, i, no) ==
    IF pkt.phase = "Prepare" /\ i \in no
    THEN Escalate(pkt, "Aborted", i)
    ELSE [pkt EXCEPT !.bits = @ \cup {i}]

CommitIfUnanimous(pkt, i) ==
    IF pkt.phase = "Prepare" /\ pkt.bits = Node THEN Escalate(pkt, "Committed", i) ELSE pkt

AdoptWithLocalVote(pkt, i, no) == CommitIfUnanimous(LocalVote(pkt, i, no), i)

\* A plausible slip: the initiator does not vote for its own proposal.
InitUnvoted(p, i, term, no) == [term |-> term, phase |-> "Prepare", bits |-> {}]

\* init_proposal
InitProposal(p, i, term, no) ==
    LET fresh == [term |-> term, phase |-> "Prepare", bits |-> {}]
    IN  IF p = "2pc_ce" THEN AdoptWithLocalVote(fresh, i, no) ELSE [fresh EXCEPT !.bits = {i}]

-----------------------------------------------------------------------------
\* Abort > Commit > Prepare: a higher phase is taken over with its bitmap.
TakeOver(loc, rec) ==
    IF \/ rec.phase = "Aborted" /\ loc.phase # "Aborted"
       \/ rec.phase = "Committed" /\ loc.phase = "Prepare"
    THEN [loc EXCEPT !.phase = rec.phase, !.bits = rec.bits] ELSE loc

OrBits(loc, rec) ==
    IF loc.phase = rec.phase THEN [loc EXCEPT !.bits = @ \cup rec.bits] ELSE loc

TwoPcMerge(loc, rec, i, no) ==
    IF loc = NoPacket \/ rec.term > loc.term THEN AdoptWithLocalVote(rec, i, no)
    ELSE IF rec.term < loc.term THEN loc
    ELSE LET ored == OrBits(TakeOver(loc, rec), rec)
         IN  CommitIfUnanimous(IF i \in ored.bits THEN ored ELSE LocalVote(ored, i, no), i)

\* Paxos takes an empty node's own vote on board, but not over an older packet.
PaxosMerge(loc, rec, i) ==
    IF loc = NoPacket THEN [rec EXCEPT !.bits = @ \cup {i}]
    ELSE IF rec.term > loc.term THEN rec
    ELSE IF rec.term < loc.term THEN loc
    ELSE [loc EXCEPT !.bits = @ \cup rec.bits \cup {i}]

TomMerge(loc, rec, i) ==
    IF loc = NoPacket \/ rec.term > loc.term THEN [rec EXCEPT !.bits = @ \cup {i}]
    ELSE IF rec.term < loc.term THEN loc
    ELSE [loc EXCEPT !.bits = @ \cup rec.bits \cup {i}]

(***************************************************************************)
(* merge: the packet node i holds after receiving rec on top of loc.  It   *)
(* returns NewInfo exactly if that is not loc.                             *)
(***************************************************************************)
Merge(p, loc, rec, i, no) ==
    CASE rec = NoPacket -> loc
      [] rec # NoPacket /\ p = "paxos_ce" -> PaxosMerge(loc, rec, i)
      [] rec # NoPacket /\ p = "2pc_ce" -> TwoPcMerge(loc, rec, i, no)
      [] rec # NoPacket /\ p = "tom_ce" -> TomMerge(loc, rec, i)

-----------------------------------------------------------------------------
HasQuorum(S) == Cardinality(S) >= N \div 2 + 1

\* node_goal_reached: a quorum of votes, a verdict, or the message.
NodeGoalReached(p, pkt) ==
    /\ pkt # NoPacket
    /\ p = "paxos_ce" => HasQuorum(pkt.bits)
    /\ p = "2pc_ce" => Final(pkt)

NodeCanSleep(p, pkt) == p = "2pc_ce" /\ Final(pkt) /\ pkt.bits = Node

AllHold(pkts, verdict) == \A i \in Node : pkts[i].phase = verdict

NetworkGoalReached(p, pkts) ==
    IF p = "2pc_ce" THEN \E v \in Verdict : AllHold(pkts, v)
    ELSE \A i \in Node : NodeGoalReached(p, pkts[i])

\* A plausible slip: one node that holds the commit is taken for all.
HastyOutcome(pkts) ==
    IF \E i \in Node : pkts[i].phase = "Committed" THEN "Committed" ELSE "Aborted"

\* What is incomplete at the deadline is an abort.
TwoPcOutcome(pkts) == IF AllHold(pkts, "Committed") THEN "Committed" ELSE "Aborted"

\* A quorum of nodes that know the quorum is enough.
PaxosOutcome(pkts) ==
    IF HasQuorum({i \in Node : NodeGoalReached("paxos_ce", pkts[i])}) THEN "Committed" ELSE "TimedOut"

TomOutcome(pkts) == IF NetworkGoalReached("tom_ce", pkts) THEN "Committed" ELSE "TimedOut"

ProposalOutcome(p, pkts) ==
    CASE p = "paxos_ce" -> PaxosOutcome(pkts)
      [] p = "2pc_ce" -> TwoPcOutcome(pkts)
      [] p = "tom_ce" -> TomOutcome(pkts)
=============================================================================
