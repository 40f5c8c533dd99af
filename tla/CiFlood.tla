------------------------------ MODULE CiFlood ------------------------------
(***************************************************************************)
(* The CI engine, slot by slot: flood_identical_round of src/phy/ci.rs in  *)
(* the round-robin loop of src/sim/pipeline.rs, with the node states of    *)
(* src/node.rs and the snapshots of src/metrics.rs.  The protocol is left  *)
(* open: it writes a fresh packet, named after its round, at the initiator *)
(* and may stop after any round.                                           *)
(*                                                                         *)
(* Counters that are only added up for the summary are kept as totals over *)
(* the nodes: ticks[s] for slots_listen, slots_flood and slots_sleep,      *)
(* sampled[s] for the rows of the snapshot series.                         *)
(***************************************************************************)
EXTENDS Topology

CONSTANTS
    FloodRepeats,       \* ci.flood_repeats
    RoundSlots,         \* ci.round_slots, None when the file leaves it out
    SnapshotInterval,   \* config.snapshot_interval
    MaxSlots,           \* config.max_slots
    MaxRounds,          \* the loop's hard limit, 1_000_000 in the code
    LastLossyRound      \* floods after this round lose no packet (environment)

\* With flood_repeats = 0 the u32 flood_remaining would underflow; with interval 0 the
\* snapshot loop would not end.  SimConfig::validate refuses neither.
ASSUME FloodAssumption ==
    /\ FloodRepeats \in Nat \ {0} /\ SnapshotInterval \in Nat \ {0}
    /\ RoundSlots \in Nat \cup {None} /\ MaxSlots \in Nat /\ MaxRounds \in Nat
    /\ LastLossyRound \in Int

VARIABLES
    pc, round_num, stopped_by,      \* the loop, as in CiPipeline
    current_slot,       \* core.current_slot; the local slot while a flood runs
    round_start,        \* the parameter of flood_identical_round
    state,              \* Node.state
    flood_remaining,    \* Node.flood_remaining
    payload,            \* Node.payload: the round whose packet the node holds
    ticks,              \* node-slots charged to each state
    next_snapshot,      \* core.next_snapshot
    rows,               \* the length of metrics.snapshots
    sampled             \* node-slots the snapshots show in each state

loop == <<pc, round_num, stopped_by>>
radio == <<state, flood_remaining>>
meters == <<ticks, next_snapshot, rows, sampled>>
vars == <<loop, current_slot, round_start, radio, payload, meters>>

NodeState == {"Listen", "Flood", "Sleep"}

Initiator == round_num % N

LargerOf(a, b) == IF a > b THEN a ELSE b

\* A plausible slip: a relay is taken to transmit once, whatever flood_repeats says.
UnrepeatedLength == IF RoundSlots # None THEN RoundSlots ELSE LargerOf(3, Diameter + 1)

RoundLength ==
    IF RoundSlots # None THEN RoundSlots ELSE LargerOf(3, (Diameter + 2) * FloodRepeats)

RoundEnd == round_start + RoundLength

\* The types of every variable; a flood's counters never exceed its repeats.
TypeOK ==
    /\ pc \in {"prepare", "flood", "slots", "deliver", "process", "stopped"}
    /\ round_num \in 0 .. MaxRounds + 1
    /\ stopped_by \in {"none", "all_done", "max_slots", "max_rounds"}
    /\ current_slot \in Nat /\ round_start \in 0 .. current_slot
    /\ state \in [Node -> NodeState]
    /\ flood_remaining \in [Node -> 0 .. FloodRepeats]
    /\ payload \in [Node -> Nat \cup {None}]
    /\ ticks \in [NodeState -> Nat] /\ sampled \in [NodeState -> Nat]
    /\ next_snapshot \in Nat /\ rows \in Nat

Init ==
    /\ pc = "prepare" /\ round_num = 0 /\ stopped_by = "none"
    /\ current_slot = 0 /\ round_start = 0
    /\ state = [i \in Node |-> "Listen"]
    /\ flood_remaining = [i \in Node |-> 0]
    /\ payload = [i \in Node |-> None]
    /\ ticks = [s \in NodeState |-> 0] /\ sampled = [s \in NodeState |-> 0]
    /\ next_snapshot = 0 /\ rows = 0

-----------------------------------------------------------------------------
\* prepare_round writes the bytes to flood at the initiator.
Prepare ==
    /\ pc = "prepare"
    /\ current_slot < MaxSlots
    /\ payload' = [payload EXCEPT ![Initiator] = round_num]
    /\ pc' = "flood"
    /\ UNCHANGED <<round_num, stopped_by, current_slot, round_start, radio, meters>>

OutOfSlots ==
    /\ pc = "prepare"
    /\ current_slot >= MaxSlots
    /\ pc' = "stopped" /\ stopped_by' = "max_slots"
    /\ UNCHANGED <<round_num, current_slot, round_start, radio, payload, meters>>

\* A plausible slip: the states of the last round are not reset.
UnresetState == [state EXCEPT ![Initiator] = "Flood"]

ResetState == [[i \in Node |-> "Listen"] EXCEPT ![Initiator] = "Flood"]

\* The head of flood_identical_round, up to the slot loop.
StartFlood ==
    /\ pc = "flood"
    /\ round_start' = current_slot
    /\ state' = ResetState
    /\ flood_remaining' = [[i \in Node |-> 0] EXCEPT ![Initiator] = FloodRepeats]
    /\ pc' = IF RoundLength > 0 THEN "slots" ELSE "deliver"
    /\ UNCHANGED <<round_num, stopped_by, current_slot, payload, meters>>

InState(s) == Cardinality({i \in Node : state[i] = s})

\* How many snapshots the loop "while next_snapshot <= slot" takes.
Due ==
    IF next_snapshot > current_slot THEN 0
    ELSE (current_slot - next_snapshot) \div SnapshotInterval + 1

\* node.tick() for every node, then the snapshots that are due, all of the same states.
Meter ==
    /\ ticks' = [s \in NodeState |-> ticks[s] + InState(s)]
    /\ rows' = rows + Due
    /\ next_snapshot' = next_snapshot + Due * SnapshotInterval
    /\ sampled' = [s \in NodeState |-> sampled[s] + Due * InState(s)]

\* The listeners that have a flooding neighbour, hence at least one draw against the loss rate.
InRange == {v \in Node : state[v] = "Listen" /\ \E u \in Neighbors(v) : state[u] = "Flood"}

Receptions == IF round_num > LastLossyRound THEN {InRange} ELSE SUBSET InRange

AnyFlood == \E i \in Node : state[i] = "Flood"

\* A plausible slip: the counter is tested before it is decremented.
LateTransition(got) ==
    /\ flood_remaining' = [i \in Node |->
          IF state[i] = "Flood" THEN flood_remaining[i] - 1
          ELSE IF i \in got THEN FloodRepeats ELSE flood_remaining[i]]
    /\ state' = [i \in Node |->
          IF state[i] = "Flood" THEN (IF flood_remaining[i] = 0 THEN "Sleep" ELSE "Flood")
          ELSE IF i \in got THEN "Flood" ELSE state[i]]

\* The end of an iteration: state and flood_remaining for the next slot, given who received.
Transition(got) ==
    /\ flood_remaining' = [i \in Node |->
          IF state[i] = "Flood" THEN flood_remaining[i] - 1
          ELSE IF i \in got THEN FloodRepeats ELSE flood_remaining[i]]
    /\ state' = [i \in Node |->
          IF state[i] = "Flood" THEN (IF flood_remaining'[i] = 0 THEN "Sleep" ELSE "Flood")
          ELSE IF i \in got THEN "Flood" ELSE state[i]]

\* A plausible slip: only the test at the top of the next slot ends a finished wave.
NeverOver == FALSE

\* "after transitions: if nobody will flood next slot, end after this slot"
WaveOver == \A i \in Node : state'[i] # "Flood"

(***************************************************************************)
(* One iteration of the slot loop.  Its first test, any_flood, is for a    *)
(* wave that ended without the last test noticing; such a slot would be    *)
(* charged and not counted, which SnapshotsMatchTicks excludes.            *)
(***************************************************************************)
Slot ==
    /\ pc = "slots"
    /\ Meter
    /\ IF ~AnyFlood /\ current_slot > round_start
       THEN /\ pc' = "deliver"
            /\ UNCHANGED <<current_slot, radio>>
       ELSE /\ \E got \in Receptions : Transition(got)
            /\ current_slot' = current_slot + 1
            /\ pc' = IF WaveOver \/ current_slot' >= RoundEnd THEN "deliver" ELSE "slots"
    /\ UNCHANGED <<round_num, stopped_by, round_start, payload>>

\* The nodes whose payload the tail of flood_identical_round overwrites, and the source.
Completed == {i \in Node : i = Initiator \/ state[i] = "Sleep"}

\* The nodes core.participated holds for.
Participants == {i \in Node : i = Initiator \/ state[i] = "Sleep"}

\* The tail of flood_identical_round: only nodes that finished their repeats keep the bytes.
Deliver ==
    /\ pc = "deliver"
    /\ payload' = [i \in Node |-> IF i \in Completed THEN payload[Initiator] ELSE payload[i]]
    /\ pc' = "process"
    /\ UNCHANGED <<round_num, stopped_by, current_slot, round_start, radio, meters>>

\* process_round, should_stop and the loop's own limit.
Process ==
    /\ pc = "process"
    /\ \/ /\ pc' = "stopped" /\ stopped_by' = "all_done"
          /\ UNCHANGED round_num
       \/ /\ round_num' = round_num + 1
          /\ pc' = IF round_num' > MaxRounds THEN "stopped" ELSE "prepare"
          /\ stopped_by' = IF round_num' > MaxRounds THEN "max_rounds" ELSE "none"
    /\ UNCHANGED <<current_slot, round_start, radio, payload, meters>>

Stopped == pc = "stopped" /\ UNCHANGED vars

Next == Prepare \/ OutOfSlots \/ StartFlood \/ Slot \/ Deliver \/ Process \/ Stopped

Spec == Init /\ [][Next]_vars

-----------------------------------------------------------------------------
(***************************************************************************)
(* The engine is a LossyFlood: whatever is lost and wherever the bound     *)
(* cuts the wave, the nodes that count as participants hang together       *)
(* around the initiator, and without loss they are all it is connected to. *)
(***************************************************************************)
Abstract ==
    INSTANCE LossyFlood WITH
        pc <- IF pc \in {"slots", "deliver"} THEN "flood" ELSE pc,
        heard <- IF pc = "process" THEN Participants ELSE {}
ImplementsLossyFlood == Abstract!Spec

(***************************************************************************)
(* A lossless round of the default length is over as soon as it can be:    *)
(* the farthest node hears after its distance in slots, repeats, and the   *)
(* round ends with everybody served and no padding.                        *)
(***************************************************************************)
LosslessRoundIsTight ==
    pc = "process" /\ RoundSlots = None /\ round_num > LastLossyRound =>
        /\ Participants = Component(Initiator)
        /\ current_slot - round_start = Eccentricity(Initiator) + FloodRepeats

\* After the flood a node holds this round's packet exactly if it counts as a participant.
IdenticalPayload ==
    pc = "process" => \A i \in Node : payload[i] = round_num <=> i \in Participants

\* A round serves whom it should: nobody it does not count, and everybody if nothing is lost.
WaveIsRight == LosslessRoundIsTight /\ IdenticalPayload

(***************************************************************************)
(* Two accountings of the same slots agree: every slot is charged once to  *)
(* every node, the snapshots are the multiples of the interval among them, *)
(* and at interval 1 they show just what was charged.                      *)
(***************************************************************************)
SnapshotsMatchTicks ==
    /\ ticks["Listen"] + ticks["Flood"] + ticks["Sleep"] = N * current_slot
    /\ rows = (current_slot + SnapshotInterval - 1) \div SnapshotInterval
    /\ sampled["Listen"] + sampled["Flood"] + sampled["Sleep"] = N * rows
    /\ SnapshotInterval = 1 => sampled = ticks

-----------------------------------------------------------------------------
\* ci.rs: the end rule is such that the "initiator always floods `flood_repeats` times".
InitiatorFloodsRepeats == pc = "process" => state[Initiator] = "Sleep"
=============================================================================
