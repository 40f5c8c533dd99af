----------------------------- MODULE TotalOrder -----------------------------
(***************************************************************************)
(* What totally ordered multicast promises (docs/protocols/tom_ci.md,      *)
(* sections 1 and 8): there is one sequence of published messages, it only *)
(* grows, and every node hands it to its application from the start,       *)
(* without a hole, a repetition or a retraction.                           *)
(***************************************************************************)
EXTENDS SequencesExt

CONSTANTS Node, Published    \* Published: the messages in the order they are published

VARIABLES
    log,        \* the messages published so far
    delivered   \* node -> the messages its application was given

vars == <<log, delivered>>

Init == log = <<>> /\ delivered = [i \in Node |-> <<>>]

\* The applications of some nodes are given a further stretch of what is published.
Extend(i) == IsPrefix(delivered[i], delivered'[i]) /\ IsPrefix(delivered'[i], log')

\* A node publishes the next message; it may hand it to its own application at once.
Publish(i) ==
    /\ Len(log) < Len(Published)
    /\ log' = Append(log, Published[Len(log) + 1])
    /\ Extend(i)
    /\ delivered' = [delivered EXCEPT ![i] = delivered'[i]]

Deliver ==
    /\ UNCHANGED log
    /\ DOMAIN delivered' = Node
    /\ \A i \in Node : Extend(i)

Next == (\E i \in Node : Publish(i)) \/ Deliver

Spec == Init /\ [][Next]_vars
=============================================================================
