------------------------- MODULE ValidationPipeline -------------------------
(***************************************************************************)
(* How a number gets into the paper: addition7_collect.py measures it,     *)
(* make_patch_spec_v3.py writes the specification that quotes it, and      *)
(* check_patch_spec.py recomputes it.  The scripts share files only, and   *)
(* any of them may be killed; one runs at a time.  What a script is given  *)
(* by hand (the manuscript, the list of entries in its source, the data    *)
(* files its environment variables name) is chosen when it starts.         *)
(* The audit reads the collector's own files (CTSIM_RUNS, CTSIM_DECS).     *)
(***************************************************************************)
EXTENDS SpecAudit

CONSTANTS
    Drafts,      \* what paper/paper.tex may hold
    EntryLists,  \* what E of the generator may hold
    EntryCount,  \* the number its last assertion expects
    DataSets,    \* the other data files: [scal, topo, ledgers]
    SampleRuns   \* runs of the simulator, to compare the energy metrics on

ASSUME PipelineAssumption ==
    /\ Drafts \subseteq Seq(DOMAIN Text)
    /\ EntryLists \subseteq Seq([a : Nat \ {0}, b : Nat, repl : Seq(DOMAIN Text)])
    /\ \A E \in EntryLists : \A k \in DOMAIN E : E[k].a <= E[k].b /\ E[k].repl # <<>>
    /\ EntryCount \in Nat

\* A pair of CSVs the scripts can compute with: windows are not reversed, and
\* Scale does what it is for however many of them contain a slot.
Sound(run) ==
    /\ run.series \in Seq([slot : Nat, awake : Nat])
    /\ run.proposals \in Seq([start : Nat, end : Nat, outcome : STRING])
    /\ \A p \in Proposals(run) : run.proposals[p].start <= run.proposals[p].end
    /\ \A c \in 1 .. Len(run.proposals) : Scale % c = 0

\* A run as the simulator makes it: no window is closed after the last slot charged.
WholeRun(run) ==
    /\ Sound(run)
    /\ \A p \in Proposals(run) : run.proposals[p].end <= Len(run.series)
RowPerSlot(run) == \A k \in DOMAIN run.series : run.series[k].slot = k - 1
ASSUME RunsAssumption ==
    /\ \A run \in SampleRuns : WholeRun(run) /\ RowPerSlot(run)
    /\ \A r \in 0 .. LastRevision, arm \in ToSet(Arms), seed \in ToSet(Seeds) :
          WholeRun(Simulate(r, arm, seed))

VARIABLES
    built,    \* what the generator holds in memory, once the checks have passed
    spec,     \* docs/validation/patch_spec.md
    patched,  \* /tmp/paper_patched.tex
    report    \* /tmp/spec_recompute_report.tsv

documents == <<built, spec, patched, report>>
vars == <<collection, documents>>

NotBuilt == [base |-> <<>>, entries |-> <<>>, out |-> <<>>]
NoReport == [here |-> FALSE, whole |-> FALSE, data |-> {}]
DataFiles(data) ==
    [scal |-> data.scal, topo |-> data.topo, ledgers |-> data.ledgers, spec |-> spec,
     runs |-> [here |-> runs # <<>>, rows |-> runs],
     decisions |-> [here |-> decisions # <<>>, rows |-> decisions]]

Init ==
    /\ CollectionInit
    /\ built = NotBuilt /\ spec \in {NoFile, File(<<>>)}
    /\ patched = <<>> /\ report = NoReport

----------------------------------------------------------------------------
\* The manuscripts and lists of entries that get past every check and the
\* assertions after them.
Passing ==
    {x \in Drafts \X EntryLists : ~ChecksFail(x[1], x[2]) /\ Len(x[2]) = EntryCount}

Generate ==
    /\ pc = "idle" /\ starts < MaxStarts
    /\ starts' = starts + 1
    /\ \/ \E x \in Passing :
            /\ built' = [base |-> x[1], entries |-> x[2], out |-> Applied(x[1], x[2])]
            /\ pc' = "write_spec"
       \/ Passing # Drafts \X EntryLists /\ UNCHANGED <<built, pc>>
    /\ UNCHANGED <<binary, files, todo, measured, faults, history, spec, patched, report>>
WriteSpec ==
    /\ pc = "write_spec"
    /\ spec' = File(Document(built.base, built.entries)) /\ pc' = "write_patched"
    /\ UNCHANGED <<binary, files, todo, measured, starts, faults, history, built, patched,
                   report>>
WritePatched ==
    /\ pc = "write_patched"
    /\ patched' = built.out /\ built' = NotBuilt /\ pc' = "idle"
    /\ UNCHANGED <<binary, files, todo, measured, starts, faults, history, spec, report>>

\* Every file is read before anything is written.
Audit(data) ==
    /\ pc = "idle" /\ starts < MaxStarts
    /\ starts' = starts + 1
    /\ IF AuditFails(DataFiles(data))
       THEN UNCHANGED <<pc, report>>
       ELSE /\ pc' = "write_report"
            /\ report' = [here |-> TRUE, whole |-> FALSE, data |-> {data}]
    /\ UNCHANGED <<binary, files, todo, measured, faults, history, built, spec, patched>>
WriteReport ==
    /\ pc = "write_report"
    /\ report' = [report EXCEPT !.whole = TRUE] /\ pc' = "idle"
    /\ UNCHANGED <<binary, files, todo, measured, starts, faults, history, built, spec,
                   patched>>

\* A killed generator leaves the file it was writing as it was, or a part of it.
KillScript ==
    /\ Kill /\ built' = NotBuilt /\ UNCHANGED report
    /\ IF pc = "write_spec"
       THEN \E rows \in LeftBehind(TRUE, spec.rows, Document(built.base, built.entries)) :
              spec' = File(rows)
       ELSE UNCHANGED spec
    /\ IF pc = "write_patched"
       THEN \E lines \in LeftBehind(TRUE, patched, built.out) : patched' = lines
       ELSE UNCHANGED patched

Next ==
    \/ \E force \in BOOLEAN : StartCollector(force) /\ UNCHANGED documents
    \/ CollectorStep /\ UNCHANGED documents
    \/ Rebuild /\ UNCHANGED documents
    \/ Generate \/ WriteSpec \/ WritePatched
    \/ \E data \in DataSets : Audit(data)
    \/ WriteReport \/ KillScript

Spec == Init /\ [][Next]_vars
----------------------------------------------------------------------------
(***************************************************************************)
(* Properties.                                                             *)
(***************************************************************************)

(***************************************************************************)
(* What a clean addition7_reconcile.py is worth once a collector has come  *)
(* to its end.  Every row of runs.csv was computed from CSVs as long as    *)
(* the published run, with as many proposals and commits and the same      *)
(* latency and end, whichever exports failed and whatever was rebuilt (the *)
(* slots in them are another matter); and decisions.csv holds, for every   *)
(* arm over CI and every seed, the decisions of those CSVs, each once: no  *)
(* kill between the two appends or the two removals of --force and no      *)
(* resumption has lost or doubled any.  A loss can only hide behind a      *)
(* doubling, if this append was cut short after a removal was.             *)
(***************************************************************************)
Finished == Keys(runs) = ToSet(Loop) /\ pc = "idle"
Counts(run) ==
    <<Len(run.proposals), Cardinality(Committed(run)), SumLatency(run), EndSlot(run)>>
AsPublished(arm, seed, run) ==
    LET made == Simulate(0, arm, seed) IN
    /\ NumNodes * Len(run.series) = made.charged.awake + made.charged.asleep
    /\ Counts(run) = Counts(made)
EachOnce(arm, seed, run) ==
    /\ Cardinality(DecisionsOf(arm, seed)) = Cardinality(Committed(run))
    /\ {decisions[k] : k \in DecisionsOf(arm, seed)}
         = {DecisionRow(arm, seed, run, p) : p \in Committed(run)}
ReconciledIsComplete ==
    Finished /\ Reconciled =>
        \A arm \in ToSet(Arms), seed \in ToSet(Seeds) :
            /\ AsPublished(arm, seed, source[<<arm, seed>>])
            /\ arm \in ToSet(CiArms) /\ ~(cut.removal /\ <<arm, seed>> \in cut.appends) =>
                 EachOnce(arm, seed, source[<<arm, seed>>])

(***************************************************************************)
(* The three ways in which the scripts compute the energy of a decision    *)
(* (plot_stacked_bar.py, plot_paper_energy.py, addition7_collect.py) agree *)
(* on the sample runs and on all CSVs the collector accepts, of whichever  *)
(* runs they are (a window may then end after the series: the first two    *)
(* take what there is of it), and nothing is lost or shared out twice:     *)
(* over all proposals the energies sum to the awake node-slots inside the  *)
(* windows, and those inside and outside to all there are.                 *)
(***************************************************************************)
MethodsAgree(run) ==
    /\ \A p \in Proposals(run) :
         /\ EnergyOfPresent(run, p) = EnergyByLookup(run, p)
         /\ run.proposals[p].end <= Len(run.series) =>
              EnergyByPrefix(run, p) = EnergyByLookup(run, p)
    /\ MapThenSumSet(LAMBDA p : EnergyByLookup(run, p), Proposals(run))
         = Scale * AwakeInside(run)
    /\ AwakeInside(run) + AwakeOutside(run)
         = MapThenSumSet(LAMBDA k : run.series[k].awake, DOMAIN run.series)
AgreeOnSamples == \A run \in SampleRuns : MethodsAgree(run)
EnergyIsConserved ==
    /\ AgreeOnSamples
    /\ pc = "append_row" =>
         \A k \in DOMAIN measured.row : MethodsAgree(results[measured.row[k].arm])

(***************************************************************************)
(* What passes the self-check is what was meant: the agreed base with the  *)
(* replacement of every entry at its place, and everything else untouched  *)
(* and in order; and whoever applies the specification by hand, bottom-up  *)
(* as it says, gets the patched manuscript, unless the generator was       *)
(* killed between the two files.                                           *)
(***************************************************************************)
Intended(base, E, out) ==
    LET s == Sorted(E)
        place(k) == Start(s, k) .. Start(s, k) + Len(s[k].repl) - 1
        replaced == UNION {place(k) : k \in DOMAIN s}
        outside == {i \in DOMAIN base : \A k \in DOMAIN s : i \notin s[k].a .. s[k].b}
        Kept(lines, at) ==
            [n \in 1 .. Cardinality(at) |->
               lines[CHOOSE i \in at : Cardinality({j \in at : j < i}) = n - 1]]
    IN /\ base = AgreedBase
       /\ \A k \in DOMAIN s : cur(out, Start(s, k), Start(s, k) + Len(s[k].repl) - 1) = s[k].repl
       /\ Kept(out, DOMAIN out \ replaced) = Kept(base, outside)
AppliedIsIntended ==
    /\ built # NotBuilt => Intended(built.base, built.entries, built.out)
    /\ pc = "idle" /\ faults = 0 /\ patched # <<>> => patched = Applied(AgreedBase, spec.rows)

(***************************************************************************)
(* check_patch_spec.py writes its report only when the specification has   *)
(* blocks, runs.csv has one row for every arm and seed, and every decimal  *)
(* printed in a block is the rounding of a quantity recomputed from the    *)
(* files it was given.                                                     *)
(***************************************************************************)
ReportMeansReproduced ==
    [][WriteReport => \A data \in report.data :
         /\ spec.rows # <<>> /\ Keys(runs) = ToSet(Loop) /\ Len(runs) = Len(Loop)
         /\ \A lit \in Decimals(spec.rows) :
              \E q \in Quantities(DataFiles(data)) : Printed(q, lit.places) = lit.digits]_vars
----------------------------------------------------------------------------
(***************************************************************************)
(* What docs/validation/addition7.md:50 concludes from the reconciliation: *)
(* once it is clean the numbers are printable, so decisions.csv then       *)
(* holds the costs of the published runs.  They are not if the simulator   *)
(* printed and exported its proposals but could not write its snapshots,   *)
(* and those of an earlier run of the arm are as long.                     *)
(***************************************************************************)
PrintableOnceReconciled ==
    Finished /\ Reconciled =>
        \A arm \in ToSet(CiArms), seed \in ToSet(Seeds) :
            {decisions[k] : k \in DecisionsOf(arm, seed)}
              = ToSet(DecisionRows(arm, seed, Simulate(0, arm, seed)))
=============================================================================
