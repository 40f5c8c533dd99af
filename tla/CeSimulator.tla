---------------------------- MODULE CeSimulator ----------------------------
(***************************************************************************)
(* The CE engine and its orchestrator: run_ce_round of src/phy/ce.rs in    *)
(* the loop of Simulator::run, src/sim.rs.  Each proposal gets one round,  *)
(* in which nodes flood what they hold, merge the one packet they capture  *)
(* per slot, flood again what is new to them, and flood again at random    *)
(* when nothing came for a while, until the protocol's goal or a deadline. *)
(***************************************************************************)
EXTENDS CeProtocols, Sequences

CONSTANTS
    NumProposals,       \* config.num_proposals
    MaxSlots,           \* config.max_slots
    MaxRoundSlots,      \* ce.max_round_slots
    ListenTimeout,      \* ce.listen_timeout
    SnapshotInterval,   \* config.snapshot_interval
    MayAbort            \* abort_probability > 0: any node may be against a transaction

\* With interval 0, which SimConfig::validate accepts, the snapshot loop would not end.
ASSUME CeAssumption ==
    /\ NumProposals \in Nat /\ MaxSlots \in Nat /\ MaxRoundSlots \in Nat
    /\ ListenTimeout \in Nat /\ SnapshotInterval \in Nat \ {0} /\ MayAbort \in BOOLEAN

VARIABLES
    pc,                 \* "propose": the loop's head; "slots": in run_ce_round; "record"; "stopped"
    protocol,           \* config.protocol
    current_slot,       \* Simulator.current_slot; the local slot in run_ce_round
    round_start,
    current_term,       \* of the protocol, one more with each proposal
    against,            \* the nodes whose should_abort_app holds for current_term
    state,              \* Node.state
    last_progress_slot, \* Node.last_progress_slot
    payload,            \* Node.payload
    goal_reached,       \* Node.goal_reached
    progress_count,     \* Node.progress_count, the same at all nodes
    proposals,          \* metrics.proposals
    ticked,             \* slots charged to every node: slots_listen + slots_flood + slots_sleep
    next_snapshot, rows \* the next slot to sample, and how many have been

meters == <<ticked, next_snapshot, rows>>
radio == <<state, last_progress_slot, payload, goal_reached>>
proposal == <<round_start, current_term, against>>
vars == <<pc, protocol, current_slot, proposal, radio, progress_count, proposals, meters>>

ProposalRecord == [start : Nat, end : Nat, outcome : Outcome]

\* Every variable has its type; a packet is of the proposal of the round and never empty.
TypeOK ==
    /\ pc \in {"propose", "slots", "record", "stopped"}
    /\ protocol \in Protocols
    /\ current_slot \in Nat /\ round_start \in Nat
    /\ current_term \in 0 .. NumProposals
    /\ against \in SUBSET Node
    /\ state \in [Node -> {"Listen", "Flood", "Sleep"}]
    /\ last_progress_slot \in [Node -> Nat]
    /\ payload \in [Node -> {NoPacket} \cup {pkt \in Packet : pkt.term = current_term}]
    /\ goal_reached \in [Node -> BOOLEAN]
    /\ progress_count \in 0 .. current_term
    /\ proposals \in Seq(ProposalRecord)
    /\ ticked \in Nat /\ next_snapshot \in Nat /\ rows \in Nat

Init ==
    /\ pc = "propose"
    /\ protocol \in Protocols
    /\ current_slot = 0 /\ round_start = 0
    /\ current_term = 0
    /\ against = {}
    /\ state = [i \in Node |-> "Listen"]
    /\ last_progress_slot = [i \in Node |-> 0]
    /\ payload = [i \in Node |-> NoPacket]
    /\ goal_reached = [i \in Node |-> FALSE]
    /\ progress_count = 0
    /\ proposals = <<>>
    /\ ticked = 0 /\ next_snapshot = 0 /\ rows = 0

-----------------------------------------------------------------------------
ProposalId == Len(proposals)
ProposalsLeft == ProposalId < NumProposals
InitiatorOf(id) == id % N

\* The head of an iteration: a fresh round for the next proposal, up to its first slot.
Propose ==
    /\ pc = "propose" /\ ProposalsLeft /\ current_slot < MaxSlots
    /\ pc' = "slots"
    /\ round_start' = current_slot
    /\ current_term' = current_term + 1
    /\ against' \in IF protocol = "2pc_ce" /\ MayAbort THEN SUBSET Node ELSE {{}}
    /\ LET i == InitiatorOf(ProposalId)
       IN  /\ payload' = [[j \in Node |-> NoPacket] EXCEPT ![i] =
                             InitProposal(protocol, i, current_term', against')]
           /\ state' = [[j \in Node |-> "Listen"] EXCEPT ![i] = "Flood"]
    /\ last_progress_slot' = [i \in Node |-> current_slot]
    /\ goal_reached' = [i \in Node |-> FALSE]
    /\ UNCHANGED <<protocol, current_slot, progress_count, proposals, meters>>

\* The slot budget is used up: every proposal left is recorded as timed out on the spot.
GiveUp ==
    /\ pc = "propose" /\ ProposalsLeft /\ current_slot >= MaxSlots
    /\ pc' = "stopped"
    /\ proposals' = proposals \o
          [k \in 1 .. NumProposals - ProposalId |->
              [start |-> current_slot, end |-> current_slot, outcome |-> "TimedOut"]]
    /\ UNCHANGED <<protocol, current_slot, proposal, radio, progress_count, meters>>

Complete ==
    /\ pc = "propose" /\ ~ProposalsLeft
    /\ pc' = "stopped"
    /\ UNCHANGED <<protocol, current_slot, proposal, radio, progress_count, proposals, meters>>

-----------------------------------------------------------------------------
Deadline == round_start + MaxRoundSlots
InRound == pc = "slots" /\ current_slot < Deadline

\* The snapshot loop takes every multiple of the interval up to slot that is not taken yet.
SnapshotsDue(slot) == {k \in next_snapshot .. slot : (k - next_snapshot) % SnapshotInterval = 0}

\* Steps 1 of a slot: every node is charged, the slot is sampled if it is due.
Meter ==
    /\ ticked' = ticked + 1
    /\ rows' = rows + Cardinality(SnapshotsDue(current_slot))
    /\ next_snapshot' = next_snapshot + SnapshotInterval * Cardinality(SnapshotsDue(current_slot))

\* A plausible slip: the slot in which the goal was seen is handed to the next round too.
SlotAgain == current_slot

\* "Return slot + 1 so the next CE round starts on a fresh slot index."
SlotAfterGoal == current_slot + 1

\* The goal test is made on what earlier slots left, in a slot that is charged.
GoalReached ==
    /\ InRound
    /\ NetworkGoalReached(protocol, payload)
    /\ Meter
    /\ current_slot' = SlotAfterGoal
    /\ pc' = "record"
    /\ UNCHANGED <<protocol, proposal, radio, progress_count, proposals>>

DeadlineReached ==
    /\ pc = "slots" /\ current_slot >= Deadline
    /\ pc' = "record"
    /\ UNCHANGED <<protocol, current_slot, proposal, radio, progress_count, proposals, meters>>

Stalled ==
    {i \in Node : state[i] = "Listen" /\ current_slot - last_progress_slot[i] >= ListenTimeout}

\* The senders a listener may capture: None when every draw was lost or nobody near floods.
Audible(i) == {j \in Neighbors(i) : state[j] = "Flood"}

Captures(recovering) ==
    {from \in [Node -> Node \cup {None}] :
        \A i \in Node :
            from[i] # None => state[i] = "Listen" /\ i \notin recovering /\ from[i] \in Audible(i)}

\* Step 3: the state for the next slot of a node that holds pkt and made progress or not.
NextState(s, pkt, progress) ==
    IF NodeCanSleep(protocol, pkt) THEN (IF s = "Flood" THEN "Sleep" ELSE "Flood")
    ELSE IF progress THEN "Flood"
    ELSE IF s = "Sleep" THEN "Sleep" ELSE "Listen"

\* A slot: some stalled listeners recover by flooding, others capture a packet and merge it.
Slot ==
    /\ InRound
    /\ ~NetworkGoalReached(protocol, payload)
    /\ Meter
    /\ \E recovering \in SUBSET Stalled : \E from \in Captures(recovering) :
          LET received(i) == IF from[i] = None THEN NoPacket ELSE payload[from[i]]
              progress == recovering \cup {i \in Node : payload'[i] # payload[i]}
          IN  /\ payload' = [i \in Node |-> Merge(protocol, payload[i], received(i), i, against)]
              /\ goal_reached' =
                    [i \in Node |-> IF payload'[i] = payload[i] THEN goal_reached[i]
                                    ELSE NodeGoalReached(protocol, payload'[i])]
              /\ state' = [i \in Node |-> NextState(state[i], payload'[i], i \in progress)]
              /\ last_progress_slot' =
                    [i \in Node |-> IF i \in progress THEN current_slot ELSE last_progress_slot[i]]
    /\ current_slot' = current_slot + 1
    /\ UNCHANGED <<pc, protocol, proposal, progress_count, proposals>>

\* The tail of an iteration: what the packets say is recorded.
RecordProposal ==
    /\ pc = "record"
    /\ pc' = "propose"
    /\ LET outcome == ProposalOutcome(protocol, payload)
       IN  /\ proposals' = Append(proposals,
                  [start |-> round_start, end |-> current_slot, outcome |-> outcome])
           /\ progress_count' = IF outcome \in Verdict THEN ProposalId + 1 ELSE progress_count
    /\ UNCHANGED <<protocol, current_slot, proposal, radio, meters>>

Finished == pc = "stopped" /\ UNCHANGED vars

Next ==
    \/ Propose \/ GiveUp \/ Complete
    \/ Slot \/ GoalReached \/ DeadlineReached
    \/ RecordProposal \/ Finished

Spec == Init /\ [][Next]_vars

-----------------------------------------------------------------------------
(***************************************************************************)
(* A bit is evidence, however packets are merged, repeated and reordered:  *)
(* node j is in a bitmap only if j holds the proposal and has set its own  *)
(* bit.  In 2PC a vote is of a node that is not against, and a bit next to *)
(* a verdict is of a node that holds that verdict.                         *)
(***************************************************************************)
BitsAreEvidence ==
    \A i, j \in Node : j \in payload[i].bits =>
        /\ payload[j].term = payload[i].term
        /\ Final(payload[i]) => payload[j].phase = payload[i].phase /\ j \in payload[j].bits
        /\ ~Final(payload[i]) => j \notin against /\ (Final(payload[j]) \/ j \in payload[j].bits)

\* 2PC over CE is an atomic commitment, in every round and whatever is lost.
Abstract ==
    INSTANCE AtomicCommit WITH
        Member <- Node,
        verdict <- [i \in Node |-> IF Final(payload[i]) THEN payload[i].phase ELSE "none"]
ImplementsAtomicCommit == Abstract!Spec

(***************************************************************************)
(* A node may sleep only when nobody needs it: a full bitmap means that    *)
(* everyone holds the verdict.  The round then ends in the next slot, so   *)
(* no node ever gets to sleep, and the transition that would wake a        *)
(* sleeping node to flood again is never taken.                            *)
(***************************************************************************)
DoneBeforeSleep ==
    \A i \in Node :
        /\ NodeCanSleep(protocol, payload[i]) => NetworkGoalReached(protocol, payload)
        /\ state[i] # "Sleep"

(***************************************************************************)
(* A recorded commit is earned: a majority holds the Paxos proposal, every *)
(* node the 2PC commit or the TOM message, and no node was against it.  An *)
(* abort nobody voted for, and a timeout, happen at the deadline only.     *)
(***************************************************************************)
OutcomesAreEarned ==
    pc = "propose" /\ proposals # <<>> =>
        LET r == proposals[ProposalId]
            holders == {i \in Node : payload[i].term = current_term}
        IN  /\ r.outcome = "Committed" =>
                  /\ HasQuorum(holders) /\ against = {}
                  /\ protocol = "tom_ce" => holders = Node
                  /\ protocol = "2pc_ce" => AllHold(payload, "Committed")
            /\ \/ r.outcome = "TimedOut"
               \/ r.outcome = "Aborted" /\ against = {}
               => r.end = r.start + MaxRoundSlots

\* What a packet says during the round, what a node concludes from it when it
\* wants to sleep, and what is recorded afterwards, is so.
EvidenceIsSound == BitsAreEvidence /\ DoneBeforeSleep /\ OutcomesAreEarned

(***************************************************************************)
(* Rounds share no slot and skip none: each starts where the one before    *)
(* ended, each slot is charged once to every node, and the snapshots are   *)
(* the multiples of the interval among the slots charged.                  *)
(***************************************************************************)
SlotsChargedOnce ==
    /\ ticked = current_slot
    /\ rows = (current_slot + SnapshotInterval - 1) \div SnapshotInterval
    /\ \A k \in DOMAIN proposals :
          /\ proposals[k].start = IF k = 1 THEN 0 ELSE proposals[k-1].end
          /\ proposals[k].end - proposals[k].start <= MaxRoundSlots

-----------------------------------------------------------------------------
\* What the documentation and comments say and the code does not do.

\* sim.rs: progress_count is "completed proposals so far", unchanged on a timeout.
ProgressCountsCompleted ==
    pc = "propose" =>
        progress_count = Cardinality({k \in DOMAIN proposals : proposals[k].outcome \in Verdict})

\* 2pc_ce.md: "Incomplete by deadline -> Aborted (2PC safety)", so no node holds the commit.
ReportedAbortIsSafe ==
    pc = "propose" /\ proposals # <<>> /\ proposals[ProposalId].outcome = "Aborted" =>
        \A i \in Node : payload[i].phase # "Committed"

\* tom_ce.md: the goal of a node is that it "knows all peers do" hold the message.
GoalMeansAllHold ==
    \A i \in Node : protocol = "tom_ce" /\ goal_reached[i] => payload[i].bits = Node
=============================================================================
