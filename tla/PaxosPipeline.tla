---------------------------- MODULE PaxosPipeline ----------------------------
(***************************************************************************)
(* Pipelined Paxos over identical floods: src/sim/paxos_pipeline.rs on the *)
(* node state of src/protocol/paxos.rs.  In every round one initiator      *)
(* publishes the next proposal (or drains), attaches its votes, its        *)
(* highest accepted term, a NACK for the first gap it sees and the data    *)
(* some node prepared for the previous NACK; whoever overhears the flood   *)
(* votes for every pending proposal up to the current term at once.        *)
(***************************************************************************)
EXTENDS CiPipeline, PaxosNode

CONSTANTS
    DrainRounds,    \* 5 * diameter: rounds granted to stragglers
    IdleLimit       \* 1000 in the code: rounds granted to the whole drain

ASSUME PaxosAssumption == DrainRounds \in Nat /\ IdleLimit \in Nat

VARIABLES
    states,              \* PaxosCi.states: one NodePaxosState per node
    term_counter,        \* also proposals_generated, which moves with it
    proposal_starts,     \* term -> time of its first flood, None before
    globally_committed,  \* the terms already reported as committed
    records,             \* what metrics.record_proposal was told
    piggyback,           \* answer to the last NACK, for the next packet
    payload,             \* the packet of the round in progress
    goal_reached,        \* Node.goal_reached
    progress_count       \* Node.progress_count, the same at every node

paxos_vars == <<states, term_counter, proposal_starts, globally_committed,
                records, piggyback, payload, goal_reached, progress_count>>
vars == <<loop_vars, paxos_vars>>

NoPiggyback == [term |-> None, data |-> None]

\* The payload before the first PrepareRound, which nothing reads.
NoPacket ==
    [current_term |-> 0, last_accepted_term |-> None, flags_bitmap |-> {},
     nack_term |-> 0, sender |-> 0, proposal_data |-> None, piggyback |-> NoPiggyback]

Packet ==
    [current_term : Term, last_accepted_term : MaybeData,
     flags_bitmap : SUBSET Node, nack_term : Term, sender : Node,
     proposal_data : MaybeData, piggyback : [term : MaybeData, data : MaybeData]]

(***************************************************************************)
(* Every variable has its type, and what the code leaves to unwrap_or(0)   *)
(* is in range: src/sim/paxos_pipeline.rs keeps term_counter the number of *)
(* proposals generated.                                                    *)
(***************************************************************************)
TypeOK ==
    /\ LoopTypeOK
    /\ states \in [Node -> NodePaxosState]
    /\ term_counter \in 0 .. NumProposals
    /\ proposal_starts \in [Term -> Nat \cup {None}]
    /\ globally_committed \in SUBSET Term
    /\ records \in SUBSET [term : Term, start : Nat, end : Nat]
    /\ piggyback \in [term : MaybeData, data : MaybeData]
    /\ payload \in Packet
    /\ goal_reached \in [Node -> BOOLEAN]
    /\ progress_count \in Nat

Init ==
    /\ LoopInit
    /\ states = [i \in Node |-> NewPaxosState]
    /\ term_counter = 0
    /\ proposal_starts = [t \in Term |-> None]
    /\ globally_committed = {}
    /\ records = {}
    /\ piggyback = NoPiggyback
    /\ payload = NoPacket
    /\ goal_reached = [i \in Node |-> FALSE]
    /\ progress_count = 0

-----------------------------------------------------------------------------
\* metrics.record_proposal for the terms a node has just committed, the first time only.
RecordCommitted(newly, starts, now) ==
    /\ globally_committed' = globally_committed \cup newly
    /\ records' = records \cup
          {[term |-> t, start |-> UnwrapOr0(starts[t]), end |-> now] : t \in newly \ globally_committed}

\* The initiator's state once the next proposal, if one is left, is in its pending list.
Generating == term_counter < NumProposals
Drafted(i) ==
    IF Generating THEN PushPending(states[i], term_counter, Tx(term_counter), {i})
                  ELSE states[i]

QuorumTerms(s) == {t \in Term : CheckQuorum(s, t)}

\* prepare_round
PrepareRound ==
    /\ pc = "prepare"
    /\ LET i == Initiator
           gap == DetectGap(states[i], term_counter)
           term == IF Generating THEN term_counter ELSE term_counter - 1
           draft == Drafted(i)
           quorum == QuorumTerms(draft)
           s == IF quorum = {} THEN draft ELSE CommitUpTo(draft, Max(quorum))
           newly == IF quorum = {} THEN {} ELSE NewlyCommitted(draft, Max(quorum))
       IN  /\ states' = [states EXCEPT ![i] = s]
           /\ proposal_starts' =
                 IF Generating THEN [proposal_starts EXCEPT ![term] = round_num] ELSE proposal_starts
           /\ RecordCommitted(newly, proposal_starts', round_num)
           /\ payload' =
                 [current_term |-> term,
                  last_accepted_term |-> s.last_accepted,
                  flags_bitmap |-> s.bitmap[term] \cup {i},
                  nack_term |-> UnwrapOr0(gap),
                  sender |-> i,
                  proposal_data |-> IF Generating THEN Tx(term) ELSE None,
                  piggyback |-> piggyback]
    /\ term_counter' = IF Generating THEN term_counter + 1 ELSE term_counter
    /\ pc' = "flood"
    /\ UNCHANGED <<round_num, heard, stopped_by, piggyback, goal_reached, progress_count>>

-----------------------------------------------------------------------------
(***************************************************************************)
(* What a participant does with the packet, in the order of the code:      *)
(* adopt the accepted prefix, note the term, store the proposal, merge the *)
(* packet's votes and its own into all pending proposals up to the term    *)
(* (Overhear); then store the piggybacked proposal with its own vote only  *)
(* (Recover).                                                              *)
(***************************************************************************)
AdoptPrefix(s, pkt) ==
    IF pkt.last_accepted_term = None THEN s ELSE CommitUpTo(s, pkt.last_accepted_term)

SeeTerm(s, pkt) ==
    IF UnwrapOr0(s.highest_seen_term) < pkt.current_term
    THEN [s EXCEPT !.highest_seen_term = pkt.current_term]
    ELSE s

StoreProposal(s, pkt) ==
    IF pkt.proposal_data # None /\ ~Held(s, pkt.current_term)
    THEN PushPending(s, pkt.current_term, pkt.proposal_data, pkt.flags_bitmap)
    ELSE s

Overhear(i, s, pkt) ==
    LET stored == StoreProposal(SeeTerm(AdoptPrefix(s, pkt), pkt), pkt)
    IN  MergeVotesUpTo(stored, pkt.current_term, pkt.flags_bitmap \cup {i})

\* Issue 257: the recovered proposal was stored with every vote already cast.
RecoverAllVotes(i, s, pkt) ==
    IF pkt.piggyback.term # None /\ ~Held(s, pkt.piggyback.term)
    THEN PushPending(s, pkt.piggyback.term, pkt.piggyback.data, Node)
    ELSE s

\* A plausible slip: only the pending list is searched for the term.
RecoverUnlessPending(i, s, pkt) ==
    IF pkt.piggyback.term # None /\ ~Pending(s, pkt.piggyback.term)
    THEN PushPending(s, pkt.piggyback.term, pkt.piggyback.data, {i})
    ELSE s

Recover(i, s, pkt) ==
    IF pkt.piggyback.term # None /\ ~Held(s, pkt.piggyback.term)
    THEN PushPending(s, pkt.piggyback.term, pkt.piggyback.data, {i})
    ELSE s

DataOf(s, t) == IF Committed(s, t) THEN s.log[t] ELSE s.pending[t]

\* A plausible slip: the answer carries the data of the sender's newest proposal.
StaleAnswer(pkt) ==
    LET holders == {i \in heard : Held(Overhear(i, states[i], pkt), pkt.nack_term)}
    IN  IF pkt.nack_term > 0 /\ holders # {}
        THEN [term |-> pkt.nack_term,
              data |-> DataOf(Overhear(Max(holders), states[Max(holders)], pkt), pkt.current_term)]
        ELSE NoPiggyback

\* Participants are served in node order, so the last holder of the term prepares the answer.
AnswerNack(pkt) ==
    LET holders == {i \in heard : Held(Overhear(i, states[i], pkt), pkt.nack_term)}
    IN  IF pkt.nack_term > 0 /\ holders # {}
        THEN [term |-> pkt.nack_term,
              data |-> DataOf(Overhear(Max(holders), states[Max(holders)], pkt), pkt.nack_term)]
        ELSE NoPiggyback

LogComplete(s) == \A t \in Term : Committed(s, t)

\* A plausible slip: nodes the flood missed are not asked.
HeardCommitted == \A i \in heard : LogComplete(states'[i])

AllCommitted == \A i \in Node : LogComplete(states'[i])

StopReason ==
    CASE AllCommitted /\ ~Generating -> "all_done"
      [] OTHER ->
         IF globally_committed' = Term /\ round_num > NumProposals + DrainRounds
         THEN "drained"
         ELSE IF round_num > NumProposals + IdleLimit THEN "idle" ELSE "none"

\* process_round, then the tail of the loop
ProcessRound ==
    /\ pc = "process"
    /\ states' = [i \in Node |->
          IF i \in heard THEN Recover(i, Overhear(i, states[i], payload), payload)
                         ELSE states[i]]
    /\ LET newly == IF payload.last_accepted_term = None THEN {}
                    ELSE UNION {NewlyCommitted(states[i], payload.last_accepted_term) : i \in heard}
       IN  RecordCommitted(newly, proposal_starts, round_num + 1)
    /\ piggyback' = AnswerNack(payload)
    /\ goal_reached' = [i \in Node |-> LogLen(states'[i]) = NumProposals]
    /\ progress_count' = Min({LogLen(states'[i]) : i \in Node})
    /\ EndRound(StopReason)
    /\ UNCHANGED <<term_counter, proposal_starts, payload>>

Next ==
    \/ PrepareRound
    \/ FloodIdentical /\ UNCHANGED paxos_vars
    \/ ProcessRound
    \/ OutOfSlots /\ UNCHANGED paxos_vars
    \/ Finished /\ UNCHANGED vars

Spec == Init /\ [][Next]_vars

(***************************************************************************)
(* The loop is one thread and never waits, so it keeps taking steps until  *)
(* it stops.  Running out of slots may stop it at the top of any round.    *)
(***************************************************************************)
FairSpec == Spec /\ WF_vars(Next)

-----------------------------------------------------------------------------
(***************************************************************************)
(* One value per term, the proposer's: whether a proposal came by flood or *)
(* by piggyback from any other node, every copy in a log, a pending list   *)
(* or a prepared answer is the proposal of its term.                       *)
(***************************************************************************)
DataIntegrity ==
    /\ \A i \in Node, t \in Term :
          /\ states[i].log[t] \in {None, Tx(t)}
          /\ states[i].pending[t] \in {None, Tx(t)}
    /\ \A p \in {piggyback, payload.piggyback} :
          p # NoPiggyback => p.data = Tx(p.term)

(***************************************************************************)
(* A term sits in one place: a committed term never returns to pending     *)
(* (the piggyback guards), votes belong to pending terms, the log never    *)
(* runs ahead of last_accepted, and no node holds a term before its round. *)
(***************************************************************************)
OneHome ==
    \A i \in Node, t \in Term :
        /\ ~(Committed(states[i], t) /\ Pending(states[i], t))
        /\ states[i].bitmap[t] # {} => Pending(states[i], t)
        /\ Committed(states[i], t) => t <= states[i].last_accepted
        /\ Held(states[i], t) => t < term_counter

(***************************************************************************)
(* A vote of another node is evidence: a bit for j on term t at node i     *)
(* means j was in the flood of some round of term t or later.  (That is    *)
(* weaker than holding t: see BitMeansVoted.)                              *)
(***************************************************************************)
VotesAreOverheard ==
    \A i, j \in Node, t \in Term :
        j # i /\ j \in states[i].bitmap[t] => UnwrapOr0(states[j].highest_seen_term) >= t

\* Every accepted term was overheard, or followed by a later one, at a majority.
MajorityBehindAccepted ==
    \A i \in Node :
        states[i].last_accepted # None =>
            Cardinality({j \in Node : UnwrapOr0(states[j].highest_seen_term)
                                          >= states[i].last_accepted}) >= Majority

(***************************************************************************)
(* A term needs one round per vote beyond the proposer's and the decider's *)
(* own, so no commit is reported sooner than N div 2 rounds after the      *)
(* proposal, whatever recovery does to the bitmaps (issue 257).            *)
(***************************************************************************)
NoEarlyCommit == \A r \in records : r.end >= r.start + N \div 2

\* What the code counts as votes and as a quorum has nodes, and their rounds, behind it.
QuorumsHaveEvidence == VotesAreOverheard /\ MajorityBehindAccepted /\ NoEarlyCommit

\* The terms reported committed are the prefix up to the highest last_accepted anywhere.
CommittedIsPrefix ==
    globally_committed = {t \in Term : \E i \in Node : t <= states[i].last_accepted}

(***************************************************************************)
(* Each committed term is reported once, with the start it really had: the *)
(* unwrap_or(0) on proposal_starts never stands in for a missing start.    *)
(***************************************************************************)
RecordedOnce ==
    /\ \A r \in records : proposal_starts[r.term] = r.start
    /\ \A r, q \in records : r.term = q.term => r = q
    /\ globally_committed = {r.term : r \in records}

\* Stopping as "all committed" is right, and draining stops only after a full global log.
StopSound ==
    /\ stopped_by = "all_done" =>
          /\ \A i \in Node : LogComplete(states[i]) /\ goal_reached[i]
          /\ globally_committed = Term
    /\ stopped_by = "drained" => globally_committed = Term

(***************************************************************************)
(* What the run reports is what happened, however the commits were found:  *)
(* in prepare_round or process_round, by quorum, commit_up_to or recovery. *)
(***************************************************************************)
ReportSound == CommittedIsPrefix /\ RecordedOnce /\ StopSound

\* No step shortens what a node has: the accepted prefix, the log, or the terms it holds.
NothingForgotten ==
    [][\A i \in Node :
          /\ states'[i].last_accepted >= states[i].last_accepted
          /\ \A t \in Term :
                /\ Committed(states[i], t) => states'[i].log[t] = states[i].log[t]
                /\ Held(states[i], t) => Held(states'[i], t)]_vars

(***************************************************************************)
(* Once losses stop, the drain commits every proposal and tells every node *)
(* before the idle limit, unless the slot budget ends the run.             *)
(***************************************************************************)
EveryoneLearns ==
    <>(\/ \A i \in Node : states[i].last_accepted = NumProposals - 1
       \/ stopped_by = "max_slots")

-----------------------------------------------------------------------------
\* What the documentation says of the protocol and the code does not do.

\* paxos.rs: "bit i = 1 means node i has seen & voted for current_term".
BitMeansVoted ==
    pc = "flood" => \A j \in payload.flags_bitmap : Held(states[j], payload.current_term)

\* paxos_ci.md: proposals are agreed "under majority quorum": a majority has each one.
MajorityHoldsCommitted ==
    \A t \in globally_committed : Cardinality({i \in Node : Held(states[i], t)}) >= Majority

\* paxos.rs: detect_gap finds the "first term missing from both log and pending".
GapIsNacked ==
    pc = "flood" /\ Held(states[Initiator], 0) =>
        \A t \in Term : t < payload.current_term /\ ~Held(states[Initiator], t) =>
            payload.nack_term # 0

\* paxos_ci.md: an "initiator missing term in sequence" sends a gap NACK, term 0 included.
Term0GapIsNacked ==
    pc = "flood" /\ payload.current_term > 0 /\ states[Initiator].last_accepted = None
        => Held(states[Initiator], 0) \/ payload.nack_term # 0

\* simulator.md: a decision counts as progress only when all N nodes hold it.
ProgressMeansHeldByAll ==
    progress_count <= Cardinality({t \in Term : \A i \in Node : Committed(states[i], t)})

\* paxos_ci.md: under loss, NACK and piggyback fill the holes of every log.
HolesAreFilled ==
    <>(\/ \A i \in Node : LogComplete(states[i])
       \/ stopped_by = "max_slots")
=============================================================================
