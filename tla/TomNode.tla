------------------------------ MODULE TomNode ------------------------------
(***************************************************************************)
(* The middleware state one node keeps for totally ordered multicast       *)
(* (src/protocol/tom.rs) and the methods that update it, as operators from *)
(* a state to a state.                                                     *)
(*                                                                         *)
(* The message of term t is the byte string "msg<t>"; it is represented by *)
(* t.  The store is a function from terms to messages, None where it holds *)
(* none; an empty byte vector is None as well.                             *)
(***************************************************************************)
EXTENDS Network, Sequences, FiniteSetsExt

CONSTANT NumMsgs     \* config.num_proposals

ASSUME NumMsgsAssumption == NumMsgs \in Nat /\ NumMsgs >= 1

Term == 0 .. NumMsgs-1
Message(t) == t
MaybeTerm == Term \cup {None}
MaybeMessage == Term \cup {None}

NodeTomState ==
    [last_delivered : MaybeTerm, highest_seen : MaybeTerm,
     store : [Term -> MaybeMessage], delivered : Seq([term : Term, data : Term])]

NewTomState ==
    [last_delivered |-> None, highest_seen |-> None,
     store |-> [t \in Term |-> None], delivered |-> <<>>]

\* None is -1, so the increment also maps an absent last_delivered to 0.
NextExpected(s) == s.last_delivered + 1

Stores(s, t) == t \in Term /\ s.store[t] # None

RaiseHighestSeen(s, t) == [s EXCEPT !.highest_seen = Max({@, t})]

InsertMessage(s, t, d) ==
    IF Stores(s, t) THEN s ELSE RaiseHighestSeen([s EXCEPT !.store[t] = d], t)

\* The first term from next_expected on that the store does not hold.
FirstMissing(s) ==
    Min({t \in NextExpected(s) .. NumMsgs : ~Stores(s, t)})

\* A plausible slip: whatever is stored goes up, holes or not.
DeliverStored(s) ==
    LET upTo == Max({t \in -1 .. NumMsgs-1 : t = s.last_delivered \/ Stores(s, t)})
        ready == SelectSeq([k \in 1 .. upTo - s.last_delivered |-> s.last_delivered + k],
                           LAMBDA t : Stores(s, t))
    IN  [s EXCEPT !.last_delivered = upTo,
                  !.delivered = @ \o [k \in DOMAIN ready |->
                                        [term |-> ready[k], data |-> s.store[ready[k]]]]]

\* try_deliver_in_order: the stored run of terms from next_expected on goes to the application.
TryDeliverInOrder(s) ==
    LET next == NextExpected(s)
        end == FirstMissing(s)
    IN  [s EXCEPT !.last_delivered = end - 1,
                  !.delivered = @ \o [k \in 1 .. end - next |->
                                        [term |-> next + k - 1, data |-> s.store[next + k - 1]]]]

\* The terms that go up in a TryDeliverInOrder, those of delivered[start_idx..].
DeliveredNow(s) == NextExpected(s) .. FirstMissing(s) - 1

Gaps(s) == {t \in NextExpected(s) .. s.highest_seen : ~Stores(s, t)}

\* A plausible slip: the absent value itself goes on the wire.
SentinelNack(s) == IF Gaps(s) = {} THEN None ELSE Min(Gaps(s))

\* detect_gap().unwrap_or(0): 0 stands for "no gap", and for a gap at term 0.
NackFor(s) == IF Gaps(s) = {} THEN 0 ELSE Min(Gaps(s))
=============================================================================
