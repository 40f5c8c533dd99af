---------------------------- MODULE TomPipeline ----------------------------
(***************************************************************************)
(* Totally ordered multicast over identical floods:                        *)
(* src/sim/tom_pipeline.rs on the node state of src/protocol/tom.rs.  The  *)
(* round-robin initiator is the sequencer: as long as messages remain it   *)
(* publishes the next term, and afterwards it floods again the earliest    *)
(* term that some node still waits for.  A node delivers a term only when  *)
(* it has delivered all terms below; a hole is asked for with a NACK and   *)
(* filled by a piggyback.                                                  *)
(*                                                                         *)
(* next_term and msgs_published are one variable: prepare_round increments *)
(* them together and nothing else writes them.                             *)
(***************************************************************************)
EXTENDS CiPipeline, TomNode

CONSTANTS
    MaxDrain,       \* 10 * diameter + 2 * num_msgs in the code
    RepairBudget    \* 19 * num_msgs + 500 in the code

ASSUME TomAssumption == MaxDrain \in Nat /\ RepairBudget \in Nat

VARIABLES
    states,         \* TomCi.states
    next_term,      \* also msgs_published
    msg_starts,     \* term -> time of its first flood, None before
    recorded,       \* msg_delivered_global
    records,        \* what metrics.record_proposal was told
    piggyback,      \* piggyback_term and piggyback_data
    payload,        \* the packet of the round in progress
    goal_reached, progress_count,   \* Node.goal_reached, Node.progress_count

    \* History, read by properties only.
    took_part       \* node -> the highest term whose flood it was in, None before

tom_vars == <<states, next_term, msg_starts, recorded, records, piggyback, payload,
              goal_reached, progress_count, took_part>>
vars == <<loop_vars, tom_vars>>

Piggyback == [term : MaybeTerm, data : MaybeMessage]
NoPiggyback == [term |-> None, data |-> None]

Packet ==
    [current_term : Term, has_message : BOOLEAN, message_data : MaybeMessage, sender : Node,
     nack_term : Term, piggyback : Piggyback]

NoPacket ==
    [current_term |-> 0, has_message |-> FALSE, message_data |-> None, sender |-> 0,
     nack_term |-> 0, piggyback |-> NoPiggyback]

\* Every variable has its type; whatever a packet names is a term that exists.
TypeOK ==
    /\ LoopTypeOK
    /\ states \in [Node -> NodeTomState]
    /\ next_term \in 0 .. NumMsgs
    /\ msg_starts \in [Term -> Nat \cup {None}]
    /\ recorded \in SUBSET Term
    /\ records \in SUBSET [term : Term, start : Nat, end : Nat]
    /\ piggyback \in Piggyback
    /\ payload \in Packet
    /\ goal_reached \in [Node -> BOOLEAN]
    /\ progress_count \in 0 .. NumMsgs
    /\ took_part \in [Node -> MaybeTerm]

Init ==
    /\ LoopInit
    /\ states = [i \in Node |-> NewTomState]
    /\ next_term = 0
    /\ msg_starts = [t \in Term |-> None]
    /\ recorded = {} /\ records = {}
    /\ piggyback = NoPiggyback
    /\ payload = NoPacket
    /\ goal_reached = [i \in Node |-> FALSE] /\ progress_count = 0
    /\ took_part = [i \in Node |-> None]

-----------------------------------------------------------------------------
Publishing == next_term < NumMsgs

Holders(t) == {i \in Node : Stores(states[i], t)}

\* A plausible slip: what was published last is repaired first.
LatestTerm == next_term - 1

\* Repair mode: the earliest term that any node still waits for (the simulator looks at all nodes).
NeededTerm == Min({NextExpected(states[i]) : i \in Node})

\* A copy of t, the initiator's own if it has one, else the first one found at any node.
CopyOf(t) ==
    IF Stores(states[Initiator], t) THEN states[Initiator].store[t]
    ELSE states[Min(Holders(t))].store[t]

NoMessage == [term |-> Max({next_term - 1, 0}), has |-> FALSE, data |-> None]

\* What the round is about: a new message, a repaired one, or nothing.
Announced ==
    IF Publishing THEN [term |-> next_term, has |-> TRUE, data |-> Message(next_term)]
    ELSE IF Holders(NeededTerm) # {}
         THEN [term |-> NeededTerm, has |-> TRUE, data |-> CopyOf(NeededTerm)]
         ELSE NoMessage

\* The initiator stores what it announces; only a new message is tried for delivery.
AfterAnnouncing(s) ==
    LET a == Announced
        inserted == IF a.has THEN InsertMessage(s, a.term, a.data) ELSE s
    IN  IF Publishing THEN TryDeliverInOrder(inserted) ELSE inserted

\* The data for the pending term: the initiator's own copy, else what a participant left behind.
AnswerData(s) ==
    IF Stores(s, piggyback.term) THEN s.store[piggyback.term] ELSE piggyback.data

\* A plausible slip: the pending term is dropped when the initiator cannot answer.
NothingLeft(answer) == NoPiggyback

\* piggyback_term.take(): the pending term stays only if there is no data for it.
LeftPending(answer) == IF answer # None THEN NoPiggyback ELSE [piggyback EXCEPT !.data = None]

\* prepare_round
PrepareRound ==
    /\ pc = "prepare"
    /\ LET i == Initiator
           s == AfterAnnouncing(states[i])
           answer == IF piggyback.term = None THEN None ELSE AnswerData(s)
       IN  /\ states' = [states EXCEPT ![i] =
                  IF answer = None THEN s ELSE InsertMessage(s, piggyback.term, answer)]
           /\ piggyback' = LeftPending(answer)
           /\ payload' =
                 [current_term |-> Announced.term, has_message |-> Announced.has,
                  message_data |-> Announced.data, sender |-> i,
                  nack_term |-> NackFor(states[i]),
                  piggyback |-> IF answer = None THEN NoPiggyback
                                ELSE [term |-> piggyback.term, data |-> answer]]
    /\ msg_starts' = IF Publishing THEN [msg_starts EXCEPT ![next_term] = round_num] ELSE msg_starts
    /\ next_term' = IF Publishing THEN next_term + 1 ELSE next_term
    /\ pc' = "flood"
    /\ UNCHANGED <<round_num, heard, stopped_by, recorded, records, goal_reached, progress_count,
                   took_part>>

-----------------------------------------------------------------------------
\* What a participant takes from the packet, before it tries to deliver.
Received(s, pkt) ==
    LET seen == IF pkt.has_message THEN InsertMessage(s, pkt.current_term, pkt.message_data)
                ELSE RaiseHighestSeen(s, pkt.current_term)
    IN  IF pkt.piggyback.data # None
        THEN InsertMessage(seen, pkt.piggyback.term, pkt.piggyback.data) ELSE seen

DeliveredByParticipants == UNION {DeliveredNow(Received(states[i], payload)) : i \in heard}

StartOf(t) == IF msg_starts[t] = None THEN 0 ELSE msg_starts[t]

\* metrics.record_proposal for the terms a participant delivers for the first time in the network.
RecordDelivered(now) ==
    /\ recorded' = recorded \cup DeliveredByParticipants
    /\ records' = records \cup
          {[term |-> t, start |-> StartOf(t), end |-> now] :
              t \in DeliveredByParticipants \ recorded}

\* A plausible slip: the answer is taken from the message of the round, not from the term asked for.
WrongCopy ==
    LET n == payload.nack_term
        holders == {i \in heard : Stores(Received(states[i], payload), n)}
    IN  IF n > 0 /\ holders # {} THEN [term |-> n, data |-> payload.message_data] ELSE piggyback

\* Any participant that stores what the NACK asks for prepares the answer; else the term is
\* remembered, unless another one is pending.
AnswerNack ==
    LET n == payload.nack_term
        holders == {i \in heard : Stores(Received(states[i], payload), n)}
    IN  IF n = 0 THEN piggyback
        ELSE IF holders # {}
        THEN [term |-> n, data |-> Received(states[Max(holders)], payload).store[n]]
        ELSE IF piggyback.term = None THEN [piggyback EXCEPT !.term = n]
        ELSE piggyback

LogComplete(s) == Len(s.delivered) >= NumMsgs

\* A plausible slip: the participants of the last round are asked for all.
ParticipantsDelivered == \A i \in heard : LogComplete(states'[i])

AllDelivered == \A i \in Node : LogComplete(states'[i])

StopReason ==
    IF AllDelivered /\ ~Publishing THEN "all_done"
    ELSE IF Cardinality(recorded') >= NumMsgs /\ round_num > NumMsgs + MaxDrain THEN "drained"
    ELSE IF round_num > NumMsgs + RepairBudget THEN "idle" ELSE "none"

\* process_round, then the tail of the loop
ProcessRound ==
    /\ pc = "process"
    /\ states' = [i \in Node |->
          IF i \in heard THEN TryDeliverInOrder(Received(states[i], payload)) ELSE states[i]]
    /\ RecordDelivered(round_num + 1)
    /\ piggyback' = AnswerNack
    /\ goal_reached' = [i \in Node |-> LogComplete(states'[i])]
    /\ progress_count' = Min({Len(states'[i].delivered) : i \in Node})
    /\ took_part' = [i \in Node |->
          IF i \in heard THEN Max({took_part[i], payload.current_term}) ELSE took_part[i]]
    /\ EndRound(StopReason)
    /\ UNCHANGED <<next_term, msg_starts, payload>>

Next ==
    \/ PrepareRound
    \/ FloodIdentical /\ UNCHANGED tom_vars
    \/ ProcessRound
    \/ OutOfSlots /\ UNCHANGED tom_vars
    \/ Finished /\ UNCHANGED vars

Spec == Init /\ [][Next]_vars

(***************************************************************************)
(* The loop is one thread and never waits, so it keeps taking steps until  *)
(* it stops.  Running out of slots may stop it at the top of any round.    *)
(***************************************************************************)
FairSpec == Spec /\ WF_vars(Next)

-----------------------------------------------------------------------------
(***************************************************************************)
(* The pipeline implements the total order: the published sequence is the  *)
(* terms below next_term, and the application of a node was given the      *)
(* messages of its delivered log.                                          *)
(***************************************************************************)
Order == INSTANCE TotalOrder WITH
    Published <- [k \in 1 .. NumMsgs |-> Message(k - 1)],
    log <- [k \in 1 .. next_term |-> Message(k - 1)],
    delivered <- [i \in Node |-> [k \in DOMAIN states[i].delivered |-> states[i].delivered[k].data]]

\* Every node's application sees one and the same sequence, whatever is lost and recovered.
ImplementsTotalOrder == Order!Spec

\* The term stored with each delivery is its position, which is what verify_total_order tests.
\* It is also what last_delivered says, and what is on its way carries the message of its term.
DataIntegrity ==
    /\ \A i \in Node :
          /\ states[i].last_delivered = Len(states[i].delivered) - 1
          /\ \A k \in DOMAIN states[i].delivered :
                states[i].delivered[k] = [term |-> k - 1, data |-> Message(k - 1)]
          /\ \A t \in Term : Stores(states[i], t) => states[i].store[t] = Message(t)
    /\ \A p \in {piggyback, payload.piggyback} : p.data # None => p.data = Message(p.term)

(***************************************************************************)
(* Detection does not go stale: whatever a node lacks below a message it   *)
(* was in the flood of, or holds, shows up as a gap, and the gap found is  *)
(* the one that blocks delivery.                                           *)
(***************************************************************************)
GapsAreSeen ==
    \A i \in Node, t \in Term :
        /\ ~Stores(states[i], t)
        /\ took_part[i] >= t \/ \E u \in t .. NumMsgs-1 : Stores(states[i], u)
        => t \in Gaps(states[i]) /\ NackFor(states[i]) <= t

\* What a node has is right, and what it has not it knows of.
StoresAreSound == DataIntegrity /\ GapsAreSeen

\* A term that some node asked for stays pending until a packet carries it.
PendingUntilAnswered ==
    [][piggyback.term # None /\ piggyback'.term # piggyback.term =>
          \/ pc = "prepare" /\ payload'.piggyback.term = piggyback.term
          \/ pc = "process" /\ payload.nack_term = piggyback'.term]_vars

(***************************************************************************)
(* Each message is reported once, with the start it really had, and only   *)
(* after some node has delivered it.  prepare_round delivers without       *)
(* reporting, but the one delivery missed that way is the publisher's own: *)
(* what any other node delivered is reported.                              *)
(***************************************************************************)
RecordedOnce ==
    /\ recorded = {r.term : r \in records}
    /\ \A r, q \in records : r.term = q.term => r = q
    /\ \A r \in records :
          /\ r.start = msg_starts[r.term] /\ r.start < r.end
          /\ \E i \in Node : states[i].last_delivered >= r.term
    /\ \A i \in Node, t \in Term :
          states[i].last_delivered >= t /\ i # InitiatorOf(msg_starts[t]) => t \in recorded

(***************************************************************************)
(* The run ends as "all delivered" only when every application has every   *)
(* message and every message is reported; and as "global delivery done"    *)
(* only when some application has them all.                                *)
(***************************************************************************)
StopSound ==
    /\ stopped_by = "all_done" =>
          recorded = Term /\ \A i \in Node : goal_reached[i] /\ LogComplete(states[i])
    /\ stopped_by = "drained" => \E i \in Node : LogComplete(states[i])

\* What the run reports is what happened, by flood, repair or piggyback.
ReportSound == RecordedOnce /\ StopSound

\* Once losses stop, every node delivers everything, unless the slot budget ends the run.
EveryoneDelivers ==
    <>((\A i \in Node : LogComplete(states[i])) \/ stopped_by = "max_slots")

-----------------------------------------------------------------------------
\* What the documentation says of the protocol and the code does not do.

\* tom_ci.md: "Outcome Committed = first global in-order delivery of that message id".
FirstDeliveryIsRecorded ==
    pc = "prepare" =>
        \A i \in Node, t \in Term : states[i].last_delivered >= t => t \in recorded

\* tom_ci.md: "Attach piggyback if previous round saw a NACK we can satisfy".
AnswersFromOwnStore ==
    [][pc = "prepare" /\ payload'.piggyback.term # None =>
          Stores(states[Initiator], payload'.piggyback.term)]_vars

\* tom_ci.md: once nothing is left to publish the floods are idle, with has_message=false.
IdleFloodsAreEmpty ==
    [][pc = "prepare" /\ ~Publishing => ~payload'.has_message]_vars

\* tom_ci.md: "see higher term without lower -> NACK(lower)".
LowerTermIsNacked ==
    [][pc = "prepare" /\ pc' = "flood" =>
          \A t, u \in Term :
              t < u /\ Stores(states[Initiator], u) /\ ~Stores(states[Initiator], t) =>
                  payload'.nack_term # 0]_vars
=============================================================================
