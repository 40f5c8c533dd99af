----------------------------- MODULE CiPipeline -----------------------------
(***************************************************************************)
(* The round-robin loop of src/sim/pipeline.rs that drives every CI        *)
(* protocol: prepare_round, flood_identical, process_round, then the stop  *)
(* tests.  The loop is sequential, so each of its three calls is one       *)
(* action; what a flood may do is abstracted to the set of nodes that end  *)
(* the round holding the initiator's packet (module CiFlood models the     *)
(* flood slot by slot and shows that it delivers to no other kind of set). *)
(*                                                                         *)
(* Time is counted in completed floods: round_num while a round is being   *)
(* prepared, round_num + 1 once its flood is over.  core.current_slot      *)
(* grows strictly with it.                                                 *)
(***************************************************************************)
EXTENDS Network

CONSTANTS
    LastLossyRound,  \* floods after this round lose no packet (environment)
    MaxRounds        \* the loop's hard limit, 1_000_000 in the code

ASSUME LoopAssumption == LastLossyRound \in Int /\ MaxRounds \in Nat

VARIABLES
    pc,          \* which of the loop's calls comes next
    round_num,   \* core.round_num
    heard,       \* after a flood: the nodes for which core.participated holds
    stopped_by   \* why the loop was left

loop_vars == <<pc, round_num, heard, stopped_by>>

StopReasons ==
    {"none", "all_done", "drained", "idle", "max_slots", "max_rounds"}

LoopTypeOK ==
    /\ pc \in {"prepare", "flood", "process", "stopped"}
    /\ round_num \in Nat
    /\ heard \in SUBSET Node
    /\ stopped_by \in StopReasons

LoopInit ==
    /\ pc = "prepare"
    /\ round_num = 0
    /\ heard = {}
    /\ stopped_by = "none"

InitiatorOf(r) == r % N
Initiator == InitiatorOf(round_num)

\* The loop has no reason to stop until it stops, and a flood reaches at least its initiator.
LoopInv ==
    /\ LoopTypeOK
    /\ pc # "stopped" => stopped_by = "none"
    /\ pc = "process" => Initiator \in heard

(***************************************************************************)
(* The sets of participants a flood of round r from node i can end with.   *)
(* Without loss the packet reaches everything the graph connects to i.     *)
(***************************************************************************)
FloodOutcomes(i, r) ==
    {S \in SUBSET Node :
        /\ ConnectedAround(S, i)
        /\ r > LastLossyRound => \A u \in S, v \in Node \ S : ~Adjacent(u, v)}

FloodIdentical ==
    /\ pc = "flood"
    /\ heard' \in FloodOutcomes(Initiator, round_num)
    /\ pc' = "process"
    /\ UNCHANGED <<round_num, stopped_by>>

\* The test at the top of the loop: core.current_slot >= config.max_slots.
OutOfSlots ==
    /\ pc = "prepare"
    /\ pc' = "stopped"
    /\ stopped_by' = "max_slots"
    /\ UNCHANGED <<round_num, heard>>

\* The tail of an iteration; reason is the one the protocol set stop for.
EndRound(reason) ==
    /\ heard' = {}
    /\ IF reason # "none"
       THEN /\ pc' = "stopped"
            /\ stopped_by' = reason
            /\ UNCHANGED round_num
       ELSE /\ round_num' = round_num + 1
            /\ pc' = IF round_num' > MaxRounds THEN "stopped" ELSE "prepare"
            /\ stopped_by' = IF round_num' > MaxRounds THEN "max_rounds" ELSE "none"

Finished == pc = "stopped"
=============================================================================
