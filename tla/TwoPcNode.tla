------------------------------ MODULE TwoPcNode ------------------------------
(***************************************************************************)
(* The state one node keeps for the pipelined two-phase commit             *)
(* (src/protocol/two_pc_pipeline.rs) and the methods that update it, as    *)
(* operators from a state to a state.                                      *)
(*                                                                         *)
(* The log and the pending list hold at most one entry per transaction, so *)
(* each field is a function of the transaction; bitmap, abort and start    *)
(* are those of its PendingTx and have a neutral value when there is none. *)
(* highest_seen_tx is left out: nothing in the code reads or writes it.    *)
(***************************************************************************)
EXTENDS Network, FiniteSetsExt

CONSTANT NumTxs     \* config.num_proposals

ASSUME NumTxsAssumption == NumTxs \in Nat /\ NumTxs >= 1

Tx == 0 .. NumTxs-1
Decision == {"Committed", "Aborted"}
Undecided == "Undecided"
Verdict == [Tx -> Decision \cup {Undecided}]

NodeTwoPcState ==
    [log : Verdict, pending : [Tx -> BOOLEAN], bitmap : [Tx -> SUBSET Node],
     abort : [Tx -> BOOLEAN], start : [Tx -> Nat]]

NewTwoPcState ==
    [log |-> [t \in Tx |-> Undecided], pending |-> [t \in Tx |-> FALSE],
     bitmap |-> [t \in Tx |-> {}], abort |-> [t \in Tx |-> FALSE], start |-> [t \in Tx |-> 0]]

Finalized(s, t) == s.log[t] # Undecided
Known(s, t) == Finalized(s, t) \/ s.pending[t]
LogLen(s) == Cardinality({t \in Tx : Finalized(s, t)})

PushPending(s, t, bits, abort, round) ==
    [s EXCEPT !.pending[t] = TRUE, !.bitmap[t] = bits, !.abort[t] = abort, !.start[t] = round]

CheckUnanimity(s, t) == s.pending[t] /\ ~s.abort[t] /\ s.bitmap[t] = Node

CheckExplicitAbort(s, t) == s.pending[t] /\ s.abort[t]

\* merge_votes_up_to: bits go to every pending transaction up to upTo, the abort to upTo alone.
MergeVotesUpTo(s, upTo, bits, abort) ==
    [s EXCEPT
        !.bitmap = [t \in Tx |-> IF t <= upTo /\ s.pending[t] THEN s.bitmap[t] \cup bits ELSE s.bitmap[t]],
        !.abort = [t \in Tx |-> s.abort[t] \/ (abort /\ t = upTo /\ s.pending[t])]]

\* A plausible slip: the log entry is written again, whatever it said before.
FinalizeAgain(s, verdict) ==
    LET now == {t \in Tx : verdict[t] # Undecided}
    IN  [log |-> [t \in Tx |-> IF t \in now THEN verdict[t] ELSE s.log[t]],
         pending |-> [t \in Tx |-> s.pending[t] /\ t \notin now],
         bitmap |-> [t \in Tx |-> IF t \in now THEN {} ELSE s.bitmap[t]],
         abort |-> [t \in Tx |-> s.abort[t] /\ t \notin now],
         start |-> [t \in Tx |-> IF t \in now THEN 0 ELSE s.start[t]]]

\* finalize_tx for each transaction the verdict decides; one already in the log is left alone.
FinalizeTx(s, verdict) ==
    LET now == {t \in Tx : verdict[t] # Undecided /\ ~Finalized(s, t)}
    IN  [log |-> [t \in Tx |-> IF t \in now THEN verdict[t] ELSE s.log[t]],
         pending |-> [t \in Tx |-> s.pending[t] /\ t \notin now],
         bitmap |-> [t \in Tx |-> IF t \in now THEN {} ELSE s.bitmap[t]],
         abort |-> [t \in Tx |-> s.abort[t] /\ t \notin now],
         start |-> [t \in Tx |-> IF t \in now THEN 0 ELSE s.start[t]]]

\* Bounded voting: a transaction has one full cycle of N rounds to gather its votes.
Due(s, t, round) == s.pending[t] /\ round >= s.start[t] + N

BoundedVerdict(s, round) ==
    [t \in Tx |-> IF ~Due(s, t, round) THEN Undecided
                  ELSE IF CheckUnanimity(s, t) THEN "Committed" ELSE "Aborted"]

FastAborts(s) == [t \in Tx |-> IF CheckExplicitAbort(s, t) THEN "Aborted" ELSE Undecided]

\* detect_gap looks from transaction 0 on, in the log and the pending list.
Gaps(s, upTo) == {t \in Tx : t < upTo /\ ~Known(s, t)}

\* A plausible slip: the absent value itself goes on the wire.
SentinelNack(s, upTo) == IF Gaps(s, upTo) = {} THEN None ELSE Min(Gaps(s, upTo))

\* unwrap_or(0): 0 stands for "no gap", and for a gap at transaction 0.
NackFor(s, upTo) ==
    IF Gaps(s, upTo) = {} THEN 0 ELSE Min(Gaps(s, upTo))
=============================================================================
