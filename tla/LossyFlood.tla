------------------------------ MODULE LossyFlood ------------------------------
(***************************************************************************)
(* What a CI round promises to the protocol above it, with the protocol    *)
(* left open: it prepares a packet, one flood delivers it to a set of      *)
(* nodes connected around the initiator (everything connected to it when   *)
(* nothing is lost), the protocol processes it and may stop.  The protocol *)
(* modules put their handlers where Prepare and Process stand here;        *)
(* CiFlood implements this specification slot by slot.                     *)
(***************************************************************************)
EXTENDS CiPipeline

Prepare ==
    /\ pc = "prepare"
    /\ pc' = "flood"
    /\ UNCHANGED <<round_num, heard, stopped_by>>

Process ==
    /\ pc = "process"
    /\ \E reason \in {"none", "all_done"} : EndRound(reason)

Next == Prepare \/ FloodIdentical \/ Process \/ OutOfSlots

Spec == LoopInit /\ [][Next]_loop_vars
=============================================================================
