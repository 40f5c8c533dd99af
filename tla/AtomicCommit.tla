---------------------------- MODULE AtomicCommit ----------------------------
(***************************************************************************)
(* What two-phase commit promises, one transaction after the other: a node *)
(* gets at most one verdict for the transaction, the verdict is a commit   *)
(* only if no node of the network is against it and an abort only if one   *)
(* is, and so no two nodes ever hold different verdicts.                   *)
(***************************************************************************)
CONSTANT Member

VARIABLES
    against,    \* the members that vote NO on the transaction
    verdict     \* what each member knows of its outcome

RightVerdict == IF against' = {} THEN "Committed" ELSE "Aborted"

Init ==
    /\ against = {}
    /\ verdict = [m \in Member |-> "none"]

\* The previous transaction is over and forgotten; a proposer that is against aborts at once.
Begin ==
    /\ against' \in SUBSET Member
    /\ \E decided \in {{}} \cup {{m} : m \in against'} :
          verdict' = [m \in Member |-> IF m \in decided THEN "Aborted" ELSE "none"]

\* Some members that had no verdict learn or find it.
Decide ==
    /\ UNCHANGED against
    /\ \E informed \in SUBSET {m \in Member : verdict[m] = "none"} :
          verdict' = [m \in Member |-> IF m \in informed THEN RightVerdict ELSE verdict[m]]

Spec == Init /\ [][Begin \/ Decide]_<<against, verdict>>
=============================================================================
