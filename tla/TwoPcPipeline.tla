---------------------------- MODULE TwoPcPipeline ----------------------------
(***************************************************************************)
(* Non-blocking two-phase commit over identical floods:                    *)
(* src/sim/two_pc_pipeline.rs on the node state of                         *)
(* src/protocol/two_pc_pipeline.rs.  An initiator opens a transaction per  *)
(* round; overhearing nodes vote once, merge the votes of every packet     *)
(* into all pending transactions up to its own, and decide each            *)
(* transaction by themselves once N rounds have passed since it was opened *)
(* (at once if their copy carries the abort flag).  A decision missed      *)
(* altogether is asked for with a NACK and answered by a piggyback.        *)
(***************************************************************************)
EXTENDS CiPipeline, TwoPcNode

CONSTANTS
    MayAbort,       \* abort_probability > 0: any vote may be a NO
    IdleLimit       \* 1000 in the code: rounds granted after the last transaction

ASSUME TwoPcAssumption == MayAbort \in BOOLEAN /\ IdleLimit \in Nat

VARIABLES
    states,         \* TwoPcCi.states
    tx_counter,     \* also txs_generated, which moves with it
    tx_starts,      \* transaction -> time of its first flood, None before
    recorded,       \* the transactions already reported
    records,        \* what metrics.record_proposal was told
    piggyback,      \* piggyback_tx and piggyback_state
    payload,        \* the packet of the round in progress
    goal_reached, progress_count,   \* Node.goal_reached, Node.progress_count

    \* History, read by properties only.
    voted_no,       \* the <<node, transaction>> pairs whose vote was drawn NO
    took_part       \* node -> the highest transaction whose flood it was in, None before

two_pc_vars == <<states, tx_counter, tx_starts, recorded, records, piggyback,
                 payload, goal_reached, progress_count, voted_no, took_part>>
vars == <<loop_vars, two_pc_vars>>

NoPiggyback == [tx |-> None, state |-> Undecided]
Piggyback == [tx : Tx \cup {None}, state : Decision \cup {Undecided}]

\* has_data stands for a transaction_data that is not empty.
Packet ==
    [transaction_id : Tx, has_data : BOOLEAN, flags_bitmap : SUBSET Node, abort_flag : BOOLEAN,
     nack_tx_id : Tx, sender : Node, piggyback : Piggyback]

NoPacket ==
    [transaction_id |-> 0, has_data |-> FALSE, flags_bitmap |-> {}, abort_flag |-> FALSE,
     nack_tx_id |-> 0, sender |-> 0, piggyback |-> NoPiggyback]

\* Every variable has its type; the transaction in the packet always exists.
TypeOK ==
    /\ LoopTypeOK
    /\ states \in [Node -> NodeTwoPcState]
    /\ tx_counter \in 0 .. NumTxs
    /\ tx_starts \in [Tx -> Nat \cup {None}]
    /\ recorded \in SUBSET Tx
    /\ records \in SUBSET [tx : Tx, start : Nat, end : Nat, outcome : Decision]
    /\ piggyback \in Piggyback
    /\ payload \in Packet
    /\ goal_reached \in [Node -> BOOLEAN]
    /\ progress_count \in Nat
    /\ voted_no \in SUBSET (Node \X Tx)
    /\ took_part \in [Node -> Tx \cup {None}]

Init ==
    /\ LoopInit
    /\ states = [i \in Node |-> NewTwoPcState]
    /\ tx_counter = 0
    /\ tx_starts = [t \in Tx |-> None]
    /\ recorded = {} /\ records = {}
    /\ piggyback = NoPiggyback
    /\ payload = NoPacket
    /\ goal_reached = [i \in Node |-> FALSE] /\ progress_count = 0
    /\ voted_no = {}
    /\ took_part = [i \in Node |-> None]

-----------------------------------------------------------------------------
StartOf(starts, t) == IF starts[t] = None THEN 0 ELSE starts[t]

Decided(verdict) == {t \in Tx : verdict[t] # Undecided}

RecordsOf(T, verdict, starts, now) ==
    {[tx |-> t, start |-> StartOf(starts, t), end |-> now, outcome |-> verdict[t]] : t \in T}

\* metrics.record_proposal for what was decided, the first time only.
RecordDecided(verdict, starts, now) ==
    /\ recorded' = recorded \cup Decided(verdict)
    /\ records' = records \cup RecordsOf(Decided(verdict) \ recorded, verdict, starts, now)

Generating == tx_counter < NumTxs

\* The initiator's state with the transaction it opens; a NO is the abort flag and no own bit.
Opened(i, no) ==
    IF Generating
    THEN PushPending(states[i], tx_counter, IF no THEN {} ELSE {i}, no, round_num)
    ELSE states[i]

\* prepare_round
PrepareRound ==
    /\ pc = "prepare"
    /\ \E no \in IF Generating /\ MayAbort THEN BOOLEAN ELSE {FALSE} :
       LET i == Initiator
           tx == IF Generating THEN tx_counter ELSE tx_counter - 1
           opened == Opened(i, no)
           verdict == BoundedVerdict(opened, round_num)
           s == FinalizeTx(opened, verdict)
           abort == s.pending[tx] /\ s.abort[tx]
       IN  /\ states' = [states EXCEPT ![i] = s]
           /\ tx_starts' = IF Generating THEN [tx_starts EXCEPT ![tx] = round_num] ELSE tx_starts
           /\ RecordDecided(verdict, tx_starts', round_num)
           /\ payload' =
                 [transaction_id |-> tx, has_data |-> Generating,
                  flags_bitmap |-> s.bitmap[tx] \cup (IF abort THEN {} ELSE {i}),
                  abort_flag |-> abort,
                  nack_tx_id |-> NackFor(states[i], tx_counter),
                  sender |-> i, piggyback |-> piggyback]
           /\ voted_no' = voted_no \cup (IF no THEN {<<i, tx>>} ELSE {})
    /\ tx_counter' = IF Generating THEN tx_counter + 1 ELSE tx_counter
    /\ pc' = "flood"
    /\ UNCHANGED <<round_num, heard, stopped_by, piggyback, goal_reached, progress_count, took_part>>

-----------------------------------------------------------------------------
(***************************************************************************)
(* What a participant does with the packet, in the order of the code: vote *)
(* once on a transaction it did not know, merge the packet's votes and its *)
(* own (Voted), finalize whatever carries the abort flag (AfterAborts),    *)
(* take over a piggybacked decision (AfterPiggyback), and finalize what    *)
(* has reached its bound (Processed).                                      *)
(***************************************************************************)
FirstSight(s, pkt) == pkt.has_data /\ ~Known(s, pkt.transaction_id)

Seen(i, s, pkt, no) ==
    IF FirstSight(s, pkt)
    THEN PushPending(s, pkt.transaction_id, pkt.flags_bitmap \cup (IF no THEN {} ELSE {i}),
                     pkt.abort_flag \/ no, round_num)
    ELSE s

\* A plausible slip: the abort flag of the packet is not merged with its votes.
VotedWithoutAbort(i, s, pkt, no) ==
    LET seen == IF FirstSight(s, pkt)
                THEN PushPending(s, pkt.transaction_id, pkt.flags_bitmap \cup (IF no THEN {} ELSE {i}),
                                 no, round_num)
                ELSE s
    IN  MergeVotesUpTo(seen, pkt.transaction_id, pkt.flags_bitmap \cup {i}, FALSE)

\* A plausible slip: the voting window starts again at every packet overheard.
VotedAfresh(i, s, pkt, no) ==
    LET seen == Seen(i, s, pkt, no)
        merged == MergeVotesUpTo(seen, pkt.transaction_id, pkt.flags_bitmap, pkt.abort_flag)
    IN  [merged EXCEPT !.start = [t \in Tx |-> IF merged.pending[t] THEN round_num ELSE 0]]

Voted(i, s, pkt, no) ==
    LET seen == Seen(i, s, pkt, no)
        tx == pkt.transaction_id
        merged == MergeVotesUpTo(seen, tx, pkt.flags_bitmap, pkt.abort_flag)
    IN  IF merged.pending[tx] /\ ~merged.abort[tx]
        THEN MergeVotesUpTo(merged, tx, {i}, FALSE) ELSE merged

AfterAborts(i, s, pkt, no) == LET v == Voted(i, s, pkt, no) IN FinalizeTx(v, FastAborts(v))

PiggybackVerdict(p) == [t \in Tx |-> IF t = p.tx THEN p.state ELSE Undecided]

AfterPiggyback(i, s, pkt, no) ==
    FinalizeTx(AfterAborts(i, s, pkt, no), PiggybackVerdict(pkt.piggyback))

Processed(i, s, pkt, no) ==
    LET p == AfterPiggyback(i, s, pkt, no) IN FinalizeTx(p, BoundedVerdict(p, round_num))

\* The verdicts reported in a process_round: the fast aborts of all participants.
ReportedAborts(votes) ==
    [t \in Tx |->
        IF \E i \in heard : FastAborts(Voted(i, states[i], payload, votes[i]))[t] # Undecided
        THEN "Aborted" ELSE Undecided]

\* A plausible slip: what was prepared for the NACK is cleared with the rest.
ForgottenAnswer(votes) == NoPiggyback

\* Participants are served in node order, so the last one with a decision prepares the answer.
AnswerNack(votes) ==
    LET n == payload.nack_tx_id
        after(i) == AfterPiggyback(i, states[i], payload, votes[i])
        holders == {i \in heard : Finalized(after(i), n)}
    IN  IF n > 0 /\ holders # {}
        THEN [tx |-> n, state |-> after(Max(holders)).log[n]]
        ELSE NoPiggyback

LogComplete(s) == LogLen(s) >= NumTxs

\* A plausible slip: the nodes the flood missed are not asked.
ParticipantsResolved == \A i \in heard : LogComplete(states'[i])

AllResolved == \A i \in Node : LogComplete(states'[i])

StopReason ==
    IF AllResolved /\ ~Generating THEN "all_done"
    ELSE IF round_num > NumTxs + IdleLimit THEN "idle" ELSE "none"

\* The draws a process_round may make: one for each participant that first sees the transaction.
Draws ==
    {votes \in [Node -> BOOLEAN] :
        \A i \in Node : votes[i] => MayAbort /\ i \in heard /\ FirstSight(states[i], payload)}

\* process_round, then the tail of the loop
ProcessRound ==
    /\ pc = "process"
    /\ \E votes \in Draws :
          /\ states' = [i \in Node |->
                IF i \in heard THEN Processed(i, states[i], payload, votes[i]) ELSE states[i]]
          /\ RecordDecided(ReportedAborts(votes), tx_starts, round_num + 1)
          /\ piggyback' = AnswerNack(votes)
          /\ voted_no' = voted_no \cup {<<i, payload.transaction_id>> : i \in {j \in Node : votes[j]}}
    /\ goal_reached' = [i \in Node |-> LogComplete(states'[i])]
    /\ progress_count' = Min({LogLen(states'[i]) : i \in Node})
    /\ took_part' = [i \in Node |-> IF i \in heard THEN payload.transaction_id ELSE took_part[i]]
    /\ EndRound(StopReason)
    /\ UNCHANGED <<tx_counter, tx_starts, payload>>

Next ==
    \/ PrepareRound
    \/ FloodIdentical /\ UNCHANGED two_pc_vars
    \/ ProcessRound
    \/ OutOfSlots /\ UNCHANGED two_pc_vars
    \/ Finished /\ UNCHANGED vars

Spec == Init /\ [][Next]_vars

(***************************************************************************)
(* The loop is one thread and never waits, so it keeps taking steps until  *)
(* it stops.  Running out of slots may stop it at the top of any round.    *)
(***************************************************************************)
FairSpec == Spec /\ WF_vars(Next)

-----------------------------------------------------------------------------
\* A decision stands: overhearing, recovery and the bound never rewrite a log entry.
DecisionsAreFinal ==
    [][\A i \in Node, t \in Tx :
          Finalized(states[i], t) => states'[i].log[t] = states[i].log[t]]_vars

(***************************************************************************)
(* All copies of a pending transaction count their window from the round   *)
(* that opened it, although each node notes start_round for itself.        *)
(***************************************************************************)
SharedWindow ==
    \A i \in Node, t \in Tx : states[i].pending[t] => states[i].start[t] = tx_starts[t]

(***************************************************************************)
(* process_round does not report what participants decide at the bound; it *)
(* is right not to, because the node that opened the transaction decides   *)
(* and reports it first, at its next turn, just N rounds later.            *)
(***************************************************************************)
ProposerCommitsFirst ==
    \A i \in Node, t \in Tx :
        states[i].log[t] = "Committed" => Finalized(states[InitiatorOf(tx_starts[t])], t)

\* The bounded window is one for all nodes, and closes at the proposer first.
OneWindow == SharedWindow /\ ProposerCommitsFirst

(***************************************************************************)
(* Every decision in some log has been reported, and each transaction is   *)
(* reported once, with the start it really had; a commit takes exactly one *)
(* cycle and an abort at most that.                                        *)
(***************************************************************************)
RecordedOnce ==
    /\ \A i \in Node, t \in Tx : Finalized(states[i], t) => t \in recorded
    /\ recorded = {r.tx : r \in records}
    /\ \A r, q \in records : r.tx = q.tx => r = q
    /\ \A r \in records :
          /\ r.start = tx_starts[r.tx]
          /\ r.end <= r.start + N
          /\ r.outcome = "Committed" => r.end = r.start + N

(***************************************************************************)
(* A vote of another node is evidence: a bit for j on transaction t at     *)
(* node i means j was in the flood of t or of a later transaction.  (That  *)
(* is weaker than j voting YES on t: see UnanimousCommit.)                 *)
(***************************************************************************)
VotesAreOverheard ==
    \A i, j \in Node, t \in Tx : j # i /\ j \in states[i].bitmap[t] => took_part[j] >= t

\* A node never commits what it voted against, and nobody commits what its proposer voted against.
NoIsRespected ==
    \A v \in voted_no : \A i \in Node :
        i = v[1] \/ v[1] = InitiatorOf(tx_starts[v[2]]) => states[i].log[v[2]] # "Committed"

\* What the bitmaps and flags hold against losses: no vote from nowhere, no NO overruled.
VotesAreSound == VotesAreOverheard /\ NoIsRespected

\* The run ends as "all finalized" only when every log is complete and everything is reported.
StopSound ==
    stopped_by = "all_done" =>
        /\ recorded = Tx
        /\ \A i \in Node : goal_reached[i] /\ \A t \in Tx : Finalized(states[i], t)

\* What the run reports is what happened, on whichever of the three paths a node decided.
ReportSound == RecordedOnce /\ StopSound

(***************************************************************************)
(* Once losses stop, every node that knows transaction 0 gets a decision   *)
(* for every transaction before the idle limit, by its own evaluation or   *)
(* by NACK and piggyback, unless the slot budget ends the run.             *)
(***************************************************************************)
DecisionsReachEveryone ==
    <>(\/ /\ ~Generating
          /\ \A i \in Node : Known(states[i], 0) => \A t \in Tx : Finalized(states[i], t)
       \/ stopped_by = "max_slots")

-----------------------------------------------------------------------------
\* What the documentation says of the protocol and the code does not do.

\* 2pc_ci.md: "Unanimous commit (all N YES) for each transaction".
UnanimousCommit ==
    \A i, j \in Node, t \in Tx : states[i].log[t] = "Committed" => <<j, t>> \notin voted_no

\* paper.tex: "all informed nodes reach the same verdict".
SameVerdict ==
    \A i, j \in Node, t \in Tx :
        Finalized(states[i], t) /\ Finalized(states[j], t) => states[i].log[t] = states[j].log[t]

\* 2pc_ci.md: after exactly N rounds of lifetime, "every node independently evaluates".
DecidedAtBound ==
    pc = "prepare" => \A i \in Node, t \in Tx : ~(states[i].pending[t] /\ round_num > tx_starts[t] + N)

\* 2pc_ci.md: the initiator sends a "NACK missing finalized TX if any".
MissingTxIsNacked ==
    pc = "flood" =>
        \A t \in Tx : t < payload.transaction_id /\ ~Known(states[Initiator], t) =>
            payload.nack_tx_id # 0
=============================================================================
