------------------------------ MODULE PaxosNode ------------------------------
(***************************************************************************)
(* The state one node keeps for pipelined Paxos (src/protocol/paxos.rs)    *)
(* and the methods that update it, as operators from a state to a state.   *)
(*                                                                         *)
(* The proposal of term t is the byte string "tx<t>"; it is represented by *)
(* t.  The log and the pending list hold at most one entry per term, so    *)
(* each is a function from terms to data, None where there is no entry;    *)
(* bitmap[t] is the set of nodes whose bit is set in the pending proposal  *)
(* of term t, and is empty when t is not pending.                          *)
(***************************************************************************)
EXTENDS Network, FiniteSetsExt

CONSTANT NumProposals     \* config.num_proposals

ASSUME NumProposalsAssumption == NumProposals \in Nat /\ NumProposals >= 1

Term == 0 .. NumProposals-1
Tx(t) == t
MaybeData == Term \cup {None}

NodePaxosState ==
    [highest_seen_term : MaybeData, last_accepted : MaybeData,
     log : [Term -> MaybeData], pending : [Term -> MaybeData],
     bitmap : [Term -> SUBSET Node]]

NewPaxosState ==
    [highest_seen_term |-> None, last_accepted |-> None,
     log |-> [t \in Term |-> None], pending |-> [t \in Term |-> None],
     bitmap |-> [t \in Term |-> {}]]

Committed(s, t) == s.log[t] # None
Pending(s, t) == s.pending[t] # None
Held(s, t) == Committed(s, t) \/ Pending(s, t)
LogLen(s) == Cardinality({t \in Term : Committed(s, t)})

\* A plausible slip: the absent value itself goes on the wire.
SentinelLeaks(x) == x

UnwrapOr0(x) == IF x = None THEN 0 ELSE x

PushPending(s, t, data, bits) ==
    [s EXCEPT !.pending[t] = data, !.bitmap[t] = bits]

Majority == N \div 2 + 1

CheckQuorum(s, t) == Pending(s, t) /\ Cardinality(s.bitmap[t]) >= Majority

\* A plausible slip: votes are merged below the given term only.
MergeVotesBelow(s, upTo, bits) ==
    [s EXCEPT !.bitmap =
        [t \in Term |-> IF t < upTo /\ Pending(s, t) THEN s.bitmap[t] \cup bits ELSE s.bitmap[t]]]

MergeVotesUpTo(s, upTo, bits) ==
    [s EXCEPT !.bitmap =
        [t \in Term |-> IF t <= upTo /\ Pending(s, t) THEN s.bitmap[t] \cup bits ELSE s.bitmap[t]]]

\* The terms commit_up_to returns: every one not yet in the log, held or not.
NewlyCommitted(s, upTo) == {t \in Term : t <= upTo /\ ~Committed(s, t)}

\* A plausible slip: last_accepted is set to the term heard, even a lower one.
RewindingCommit(s, upTo) ==
    [s EXCEPT
        !.last_accepted = upTo,
        !.log = [t \in Term |-> IF t \in NewlyCommitted(s, upTo) THEN s.pending[t] ELSE s.log[t]],
        !.pending = [t \in Term |-> IF t \in NewlyCommitted(s, upTo) THEN None ELSE s.pending[t]],
        !.bitmap = [t \in Term |-> IF t \in NewlyCommitted(s, upTo) THEN {} ELSE s.bitmap[t]]]

(***************************************************************************)
(* commit_up_to: each term up to upTo that is not in the log moves there   *)
(* from pending if it is pending, and raises last_accepted even when it is *)
(* not: a node may so pass over a term it does not hold.                   *)
(***************************************************************************)
CommitUpTo(s, upTo) ==
    LET newly == NewlyCommitted(s, upTo)
    IN  [s EXCEPT
            !.last_accepted = Max({s.last_accepted} \cup newly),
            !.log = [t \in Term |-> IF t \in newly THEN s.pending[t] ELSE s.log[t]],
            !.pending = [t \in Term |-> IF t \in newly THEN None ELSE s.pending[t]],
            !.bitmap = [t \in Term |-> IF t \in newly THEN {} ELSE s.bitmap[t]]]

\* detect_gap looks only above last_accepted.
Gaps(s, upTo) == {t \in Term : s.last_accepted < t /\ t < upTo /\ ~Held(s, t)}

DetectGap(s, upTo) ==
    IF Gaps(s, upTo) = {} THEN None ELSE Min(Gaps(s, upTo))
=============================================================================
