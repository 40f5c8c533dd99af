------------------------------ MODULE PureFlood ------------------------------
(***************************************************************************)
(* The two loops above the engine of CiFlood: that of a protocol, which    *)
(* CiFlood has, and src/sim/pure_flood.rs: one-shot floods with no         *)
(* protocol, to calibrate the loss rate against a published result.  What  *)
(* the latter reports is how many receivers the floods covered, and the    *)
(* packets the engine counted as sent into range and as received.          *)
(***************************************************************************)
EXTENDS CiFlood

CONSTANT NumFloods     \* config.num_proposals
ASSUME PureFloodAssumption == NumFloods \in 1 .. MaxRounds + 1

VARIABLES
    driver,             \* whose loop this is
    floods_done, receivers_covered, receiver_opportunities,
    rx_attempts, rx_success

report == <<floods_done, receivers_covered, receiver_opportunities>>
receptions == <<rx_attempts, rx_success>>
all_vars == <<vars, driver, report, receptions>>

DriverInit ==
    /\ Init /\ driver \in {"protocol", "pure_flood"}
    /\ floods_done = 0 /\ receivers_covered = 0 /\ receiver_opportunities = 0
    /\ rx_attempts = 0 /\ rx_success = 0

----------------------------------------------------------------------------
\* A mutation of PreparePure: payloads are not cleared, and the bytes are the same every time.
PrepareStale ==
    /\ pc = "prepare" /\ current_slot < MaxSlots
    /\ payload' = [payload EXCEPT ![Initiator] = 0]
    /\ state' = [i \in Node |-> "Listen"] /\ flood_remaining' = [i \in Node |-> 0]
    /\ pc' = "flood"
    /\ UNCHANGED <<round_num, stopped_by, current_slot, round_start, meters, report, receptions>>
\* Every payload is cleared, and the initiator's is unique to the flood.
PreparePure ==
    /\ pc = "prepare" /\ current_slot < MaxSlots
    /\ payload' = [[i \in Node |-> None] EXCEPT ![Initiator] = round_num]
    /\ state' = [i \in Node |-> "Listen"] /\ flood_remaining' = [i \in Node |-> 0]
    /\ pc' = "flood"
    /\ UNCHANGED <<round_num, stopped_by, current_slot, round_start, meters, report, receptions>>

FloodingNeighbors(v) == {u \in Neighbors(v) : state[u] = "Flood"}
Attempts(nodes) == MapThenSumSet(LAMBDA v : Cardinality(FloodingNeighbors(v)), nodes)

\* A listener that hears starts to flood; it has heard at least one of its
\* flooding neighbours, and all of them when nothing is lost.
CountReceptions ==
    LET got == {v \in Node : state[v] = "Listen" /\ state'[v] = "Flood"} IN
    /\ rx_attempts' = rx_attempts + Attempts(InRange)
    /\ \E n \in Cardinality(got) .. Attempts(got) :
         /\ round_num > LastLossyRound => n = Attempts(InRange)
         /\ rx_success' = rx_success + n
SlotPure == Slot /\ CountReceptions /\ UNCHANGED report

Covered == {v \in Node \ {Initiator} : payload[v] = payload[Initiator]}

\* The end of an iteration.  Nothing reads round_num after the last one.
Count ==
    /\ pc = "process"
    /\ floods_done' = floods_done + 1
    /\ receivers_covered' = receivers_covered + Cardinality(Covered)
    /\ receiver_opportunities' = receiver_opportunities + N - 1
    /\ IF floods_done' = NumFloods
       THEN pc' = "stopped" /\ stopped_by' = "all_done" /\ UNCHANGED round_num
       ELSE pc' = "prepare" /\ round_num' = round_num + 1 /\ UNCHANGED stopped_by
    /\ UNCHANGED <<current_slot, round_start, radio, payload, meters, receptions>>

PureNext ==
    \/ PreparePure \/ SlotPure \/ Count
    \/ (StartFlood \/ Deliver \/ OutOfSlots \/ Stopped) /\ UNCHANGED <<report, receptions>>

DriverNext ==
    /\ \/ driver = "protocol" /\ Next /\ UNCHANGED <<report, receptions>>
       \/ driver = "pure_flood" /\ PureNext
    /\ UNCHANGED driver

DriverSpec == DriverInit /\ [][DriverNext]_all_vars

----------------------------------------------------------------------------
(***************************************************************************)
(* The comment at the head of pure_flood.rs: coverage counts only nodes    *)
(* that received bytes originating in that flood.  The nodes covered are   *)
(* connected around the initiator by completed receptions, a flood of      *)
(* which nothing is lost covers every node connected to it, and behind     *)
(* every receiver covered there is a received packet and one of the        *)
(* opportunities counted, N - 1 for each flood.                            *)
(***************************************************************************)
CoverageIsOfThisFlood ==
    [][Count =>
         /\ Covered \subseteq {v \in Node : state[v] = "Sleep"}
         /\ ConnectedAround(Covered \cup {Initiator}, Initiator)
         /\ round_num > LastLossyRound /\ RoundSlots = None =>
              Covered = Component(Initiator) \ {Initiator}
         /\ receiver_opportunities' = (N - 1) * floods_done'
         /\ receivers_covered' <= rx_success /\ rx_success <= rx_attempts]_all_vars
=============================================================================
