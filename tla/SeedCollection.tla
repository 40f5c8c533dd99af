--------------------------- MODULE SeedCollection ---------------------------
(***************************************************************************)
(* addition7_collect.py: all arms and all seeds, one run of the simulator  *)
(* after the other, each appended to runs.csv and then to decisions.csv.   *)
(* It may be killed anywhere and started again, when it skips what         *)
(* runs.csv holds; the simulator may be rebuilt meanwhile, from whichever  *)
(* revision is checked out.  What the two files are worth is for           *)
(* addition7_reconcile.py to say, which compares them with the published   *)
(* sweep and with each other.                                              *)
(***************************************************************************)
EXTENDS AmortisedEnergy

CONSTANTS
    CiArms, CeArms,   \* the protocols over CI and over CE, as sequences
    Seeds,            \* the published seeds, as a sequence
    Simulate(_, _, _),\* what the simulator of a revision does for an arm and a seed
    LastRevision,            \* the simulator has revisions 0 .. LastRevision
    MaxStarts, MaxFaults     \* bounds of the model

ASSUME CollectionAssumption ==
    /\ CiArms \in Seq(STRING) /\ CeArms \in Seq(STRING) /\ Seeds \in Seq(Nat)
    /\ IsInjective(CiArms \o CeArms) /\ IsInjective(Seeds)
    /\ Len(CiArms) > 0 /\ Len(Seeds) > 0
    /\ LastRevision \in Nat /\ MaxStarts \in Nat /\ MaxFaults \in Nat

VARIABLES
    binary,      \* revision of target/release/ctsim
    results,     \* arm -> what its two CSVs under results/ hold, one row whole or not at all
    runs,        \* runs.csv
    decisions,   \* decisions.csv
    pc,          \* where the collector is, "idle" when it does not run
    todo,        \* the runs it still has to make
    measured,    \* the row and the decisions of the run just made
    starts, faults,
    \* History, which no guard reads:
    source,      \* <<arm, seed>> -> the CSVs its row in runs.csv was computed from
    cut          \* what a kill has cut short since both files were empty

files == <<results, runs, decisions>>
collector == <<pc, todo, measured>>
history == <<source, cut>>
collection == <<binary, files, collector, starts, faults, history>>

Arms == CiArms \o CeArms
NoRun == [series |-> <<>>, proposals |-> <<>>]
Nothing == [row |-> <<>>, decisions |-> <<>>]

\* The nested loops of main, as the sequence of <<arm, seed>> they visit.
Loop ==
    FlattenSeq([i \in DOMAIN Arms |-> [j \in DOMAIN Seeds |-> <<Arms[i], Seeds[j]>>]])

NoSource == [key \in ToSet(Loop) |-> NoRun]
NoCut == [appends |-> {}, removal |-> FALSE]

Keys(table) == {<<table[k].arm, table[k].seed>> : k \in DOMAIN table}

\* Those of the loop that runs.csv does not hold: "if (proto, seed) in done: continue".
Remaining ==
    LET rest[k \in 0 .. Len(Loop)] ==
          IF k = 0 THEN <<>>
          ELSE IF Loop[k] \in Keys(runs) THEN rest[k - 1] ELSE Append(rest[k - 1], Loop[k])
    IN rest[Len(Loop)]

\* One row of runs.csv: what the binary printed, and what its CSVs give.
Row(arm, seed, charged, run) ==
    [arm |-> arm, seed |-> seed, awake |-> charged.awake, asleep |-> charged.asleep,
     slots |-> Len(run.series), end_slot |-> EndSlot(run),
     proposals |-> Len(run.proposals), committed |-> Cardinality(Committed(run)),
     latency |-> SumLatency(run), inside |-> AwakeInside(run), outside |-> AwakeOutside(run),
     concurrency |-> SumConcurrency(run),
     amortised |-> MapThenSumSet(LAMBDA p : EnergyByPrefix(run, p), Committed(run))]

\* The rows of decisions.csv: one for every committed proposal, in order.
DecisionRow(arm, seed, run, p) ==
    [arm |-> arm, seed |-> seed, id |-> p, amortised |-> EnergyByPrefix(run, p)]
DecisionRows(arm, seed, run) ==
    LET rows[p \in 0 .. Len(run.proposals)] ==
          IF p = 0 THEN <<>>
          ELSE IF p \notin Committed(run) THEN rows[p - 1]
          ELSE Append(rows[p - 1], DecisionRow(arm, seed, run, p))
    IN rows[Len(run.proposals)]

\* What collect requires of the CSVs it reads, whoever left them there: one row
\* per slot, and as many slots as the binary says it charged (the two
\* assertions); no decision's window beyond the series (an IndexError), and a
\* proposal at all (the maximum of nothing).
\* Mutant: without the second assertion.
AcceptedUncharged(charged, run) ==
    /\ run.series # <<>> /\ \A k \in DOMAIN run.series : run.series[k].slot = k - 1
    /\ run.proposals # <<>>
    /\ \A p \in Committed(run) : run.proposals[p].end <= Len(run.series)
Accepted(charged, run) ==
    /\ run.series # <<>> /\ \A k \in DOMAIN run.series : run.series[k].slot = k - 1
    /\ charged.awake + charged.asleep = NumNodes * Len(run.series)
    /\ run.proposals # <<>>
    /\ \A p \in Committed(run) : run.proposals[p].end <= Len(run.series)

----------------------------------------------------------------------------
CollectionInit ==
    /\ binary \in 0 .. LastRevision /\ results = [a \in ToSet(Arms) |-> NoRun]
    /\ runs = <<>> /\ decisions = <<>>
    /\ pc = "idle" /\ todo = <<>> /\ measured = Nothing
    /\ starts = 0 /\ faults = 0
    /\ source = NoSource /\ cut = NoCut

Faults(n) == faults + n <= MaxFaults /\ faults' = faults + n
Stop == pc' = "idle" /\ todo' = <<>> /\ measured' = Nothing

\* --force removes both files, one after the other.
StartCollector(force) ==
    /\ pc = "idle" /\ starts < MaxStarts
    /\ starts' = starts + 1
    /\ pc' = IF force THEN "unlink_runs" ELSE "resume"
    /\ UNCHANGED <<binary, files, todo, measured, faults, history>>
UnlinkRuns ==
    /\ pc = "unlink_runs"
    /\ runs' = <<>> /\ pc' = "unlink_decisions"
    /\ source' = NoSource /\ cut' = [cut EXCEPT !.appends = {}]
    /\ UNCHANGED <<binary, results, decisions, todo, measured, starts, faults>>
UnlinkDecisions ==
    /\ pc = "unlink_decisions"
    /\ decisions' = <<>> /\ pc' = "resume" /\ cut' = NoCut
    /\ UNCHANGED <<binary, results, runs, todo, measured, starts, faults, source>>
Resume ==
    /\ pc = "resume"
    /\ todo' = Remaining /\ pc' = "run"
    /\ UNCHANGED <<binary, files, measured, starts, faults, history>>

\* export_csv and export_snapshots_csv: a failing export leaves the file as it
\* was, or some of the new rows.
LeftBehind(failing, old, new) ==
    IF failing THEN {old} \cup {SubSeq(new, 1, n) : n \in 0 .. Len(new) - 1} ELSE {new}

\* export_pair: each of the two may fail without the other, or the caller, minding.
ExportPair(arm, made) ==
    \E failed \in SUBSET {"series", "proposals"} :
        /\ Faults(Cardinality(failed))
        /\ \E s \in LeftBehind("series" \in failed, results[arm].series, made.series),
              p \in LeftBehind("proposals" \in failed, results[arm].proposals, made.proposals) :
              results' = [results EXCEPT ![arm] = [series |-> s, proposals |-> p]]

\* run_one and the rest of collect.  The simulator prints what it charged also
\* when it could not write its CSVs, and what is in the arm's files is read.
Measure ==
    /\ pc = "run" /\ todo # <<>>
    /\ LET arm == Head(todo)[1]
           seed == Head(todo)[2]
           made == Simulate(binary, arm, seed)
       IN /\ ExportPair(arm, made)
          /\ IF Accepted(made.charged, results'[arm])
             THEN /\ measured' = [row |-> <<Row(arm, seed, made.charged, results'[arm])>>,
                                  decisions |-> DecisionRows(arm, seed, results'[arm])]
                  /\ pc' = "append_row" /\ UNCHANGED todo
             ELSE Stop
    /\ UNCHANGED <<binary, runs, decisions, starts, history>>

AppendRow ==
    /\ pc = "append_row"
    /\ runs' = runs \o measured.row /\ pc' = "append_decisions"
    /\ source' = [source EXCEPT ![Head(todo)] = results[Head(todo)[1]]]
    /\ UNCHANGED <<binary, results, decisions, todo, measured, starts, faults, cut>>
AppendDecisions ==
    /\ pc = "append_decisions"
    /\ decisions' = decisions \o measured.decisions
    /\ pc' = "run" /\ todo' = Tail(todo) /\ measured' = Nothing
    /\ UNCHANGED <<binary, results, runs, starts, faults, history>>
Complete ==
    /\ pc = "run" /\ todo = <<>>
    /\ Stop
    /\ UNCHANGED <<binary, files, starts, faults, history>>

\* The timeout of the docstring.  A killed append leaves a part of what it wrote.
Kill ==
    /\ pc # "idle" /\ Faults(1) /\ Stop
    /\ IF pc = "append_decisions"
       THEN \E n \in 0 .. Len(measured.decisions) :
              /\ decisions' = decisions \o SubSeq(measured.decisions, 1, n)
              /\ cut' = [cut EXCEPT !.appends = @ \cup {Head(todo)}]
       ELSE /\ cut' = [cut EXCEPT !.removal = @ \/ pc = "unlink_decisions"]
            /\ UNCHANGED decisions
    /\ UNCHANGED <<binary, results, runs, starts, source>>

Rebuild ==
    /\ \E r \in (0 .. LastRevision) \ {binary} : binary' = r
    /\ UNCHANGED <<files, collector, starts, faults, history>>

CollectorStep ==
    \/ UnlinkRuns \/ UnlinkDecisions \/ Resume \/ Measure \/ AppendRow \/ AppendDecisions
    \/ Complete

----------------------------------------------------------------------------
(***************************************************************************)
(* addition7_reconcile.py.                                                 *)
(***************************************************************************)
\* The published sweep at the reference point, which is of revision 0.
SweepRow(arm, seed) ==
    LET made == Simulate(0, arm, seed) IN Row(arm, seed, made.charged, made)

Compared(row) ==
    <<row.committed, row.proposals - row.committed, row.latency, row.awake, row.asleep,
      row.end_slot>>

\* The row-for-row diff is over the rows both files have.
RowsAgree ==
    \A k \in DOMAIN runs : Compared(runs[k]) = Compared(SweepRow(runs[k].arm, runs[k].seed))

\* The rows of decisions.csv for an arm and a seed, by their position.
DecisionsOf(arm, seed) ==
    {k \in DOMAIN decisions : decisions[k].arm = arm /\ decisions[k].seed = seed}
AmortisedSum(positions) == MapThenSumSet(LAMBDA k : decisions[k].amortised, positions)

\* count_equals_committed and sum_Ei_equals_awake_inside, for the arms over CI only.
\* The second needs runs of which every proposal has committed.
CountsAgree(arm) ==
    \A k \in DOMAIN runs : runs[k].arm = arm =>
        Cardinality(DecisionsOf(arm, runs[k].seed)) = runs[k].committed
SumsAgree(arm) ==
    \A k \in DOMAIN runs : runs[k].arm = arm =>
        AmortisedSum(DecisionsOf(arm, runs[k].seed)) = Scale * runs[k].inside

Reconciled == RowsAgree /\ \A arm \in ToSet(CiArms) : CountsAgree(arm) /\ SumsAgree(arm)
=============================================================================
