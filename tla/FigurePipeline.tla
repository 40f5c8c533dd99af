--------------------------- MODULE FigurePipeline ---------------------------
(***************************************************************************)
(* How the paper's figures come to be: tools/regen_figures.py runs the     *)
(* scripts of plots/ one after the other, each script runs the simulator,  *)
(* which overwrites the same CSVs under results/ whoever asked, and draws  *)
(* what it read back; tools/collect_paper_figures.py copies the PDFs to    *)
(* the paper and tools/audit_sources_210b.py writes the evidence files.    *)
(* Somebody edits the sources meanwhile, any step may fail or be           *)
(* interrupted, and scripts are also started by hand.  One command runs at *)
(* a time; nothing in the tools would keep two apart.                      *)
(***************************************************************************)
EXTENDS FigureScripts, FiniteSets, ArtifactCompare

CONSTANTS
    OnlyKeys,      \* what may follow --only
    ByHand,        \* the scripts started by hand
    Barren,        \* revisions at which no run of the simulator commits anything
    MaxEdits, MaxCommands, MaxFaults   \* bounds of the model

ASSUME PipelineAssumption ==
    /\ ByHand \subseteq Scripts
    /\ Barren \subseteq Nat
    /\ MaxEdits \in Nat /\ MaxCommands \in Nat /\ MaxFaults \in Nat

VARIABLES
    rev,           \* revision of the sources
    results,       \* results_<p>.csv and snapshots_<p>.csv, which one run writes
    sweeps,        \* the two sweep_summary.csv
    last_writer,   \* last line of results/PROVENANCE.txt
    artifacts,     \* artifact -> the simulator outputs it was drawn from
    manifest,      \* MANIFEST.sha256
    paper,         \* paper/figures
    sha,           \* "Pre-generation source revision" of progress_README.md
    cmd,           \* the command in progress
    script,        \* the script it is running, if any
    steps,         \* regen: the places in STEPS of the steps still to come
    todo,          \* what the running script still has to do
    frame,         \* the simulator outputs it has read
    failed_steps,
    drawn,         \* history: artifacts written by this command
    lost,          \* history: main.rs ignored an export error in this command
    report,        \* the last command and how it ended
    commands, faults

disk == <<results, sweeps, last_writer, artifacts, manifest, paper, sha>>
process == <<cmd, script, steps, todo, frame, failed_steps, drawn, lost>>
budget == <<rev, commands, faults>>
vars == <<disk, process, budget, report>>

Csvs == {"scalability", "topology"}
Artifacts == Figures \cup Evidence
Protocol == ToSet(Protocols)

\* A simulator output: the configuration and seed it was run with, at which
\* revision, and whether the file is complete.
Output(toml, p, s, r, whole) ==
    [toml |-> toml, protocol |-> p, seed |-> s, rev |-> r, whole |-> whole]
SweepOutput(csv, r, whole) == Output(csv, "all", 0, r, whole)
Missing == Output(None, "all", 0, 0, FALSE)

Idle == [kind |-> "idle", force |-> FALSE, selected |-> {}, start |-> 0]
Selected(only) ==
    {STEPS[i].script : i \in {j \in DOMAIN STEPS :
        only = {} \/ {STEPS[j].dir, STEPS[j].script} \cap only # {}}}
NoReport == [cmd |-> Idle, ok |-> FALSE]

\* A fresh checkout: the sweep summaries are committed files, unless somebody
\* removed them.
Init ==
    /\ rev = 0 /\ sha = {}
    /\ results = [p \in Protocol |-> Missing]
    /\ \/ sweeps = [c \in Csvs |-> SweepOutput(c, 0, TRUE)]
       \/ sweeps = [c \in Csvs |-> Missing]
    /\ last_writer = None
    /\ artifacts = [a \in Artifacts |-> {}]
    /\ manifest = [a \in Figures |-> {}]
    /\ paper = [f \in DOMAIN MAPPING |-> [of |-> None, from |-> {}]]
    /\ cmd = Idle /\ script = None /\ steps = {} /\ todo = <<>> /\ frame = {} /\ failed_steps = {}
    /\ drawn = {} /\ lost = FALSE
    /\ report = NoReport /\ commands = 0 /\ faults = 0

----------------------------------------------------------------------------
(***************************************************************************)
(* Commands.                                                               *)
(***************************************************************************)
Start(kind, force, selected) ==
    /\ cmd = Idle /\ commands < MaxCommands
    /\ commands' = commands + 1
    /\ cmd' = [kind |-> kind, force |-> force, selected |-> selected, start |-> rev]
    /\ frame' = {} /\ failed_steps' = {} /\ drawn' = {} /\ lost' = FALSE
    /\ report' = NoReport
    /\ UNCHANGED <<disk, rev, faults>>

\* main and the head of run_steps in regen_figures.py; no_run only fingerprints.
\* What --only names must match some step.
Regen(only, force, no_run) ==
    /\ no_run \/ Selected(only) # {}
    /\ Start("regen", force, IF no_run THEN {} ELSE Selected(only))
    /\ steps' = {i \in DOMAIN STEPS : ~no_run /\ STEPS[i].script \in Selected(only)}
    /\ script' = None /\ todo' = <<>>

RunByHand(s, force) ==
    /\ force => \E i \in DOMAIN STEPS : STEPS[i].script = s /\ STEPS[i].accepts_force
    /\ Start("script", force, {s})
    /\ script' = s /\ todo' = Program(s) /\ steps' = {}

\* cmd_copy copies what exists and fails when something is missing.
Collect ==
    /\ cmd = Idle
    /\ LET present == {f \in DOMAIN MAPPING : artifacts[MAPPING[f]] # {}} IN
         /\ paper' = [f \in DOMAIN MAPPING |->
                        IF f \in present
                        THEN [of |-> MAPPING[f], from |-> artifacts[MAPPING[f]]]
                        ELSE paper[f]]
         /\ report' = [cmd |-> [Idle EXCEPT !.kind = "collect", !.start = rev],
                       ok |-> present = DOMAIN MAPPING]
    /\ UNCHANGED <<budget, process, results, sweeps, last_writer, artifacts, manifest, sha>>

Edit ==
    /\ rev < MaxEdits
    /\ rev' = rev + 1
    /\ UNCHANGED <<disk, process, report, commands, faults>>

----------------------------------------------------------------------------
(***************************************************************************)
(* The steps of the running script.                                        *)
(***************************************************************************)
Doing(op) == todo # <<>> /\ Head(todo).op = op
Arg == Head(todo).arg
Advance == todo' = Tail(todo) /\ UNCHANGED <<cmd, script, steps, failed_steps>>

\* A mutation of Raise: the step's exit code is not looked at.
RaiseUnseen == todo' = <<>> /\ frame' = {} /\ UNCHANGED <<cmd, script, steps, failed_steps>>

\* An exception, or a child's non-zero exit under check=True, ends the script.
Raise ==
    /\ todo' = <<>> /\ frame' = {}
    /\ failed_steps' = failed_steps \cup {script}
    /\ UNCHANGED <<cmd, script, steps>>

Fault == faults < MaxFaults /\ faults' = faults + 1

\* --force reaches only the steps that accept it.
Forced ==
    cmd.force /\ (cmd.kind = "regen" =>
        \E i \in DOMAIN STEPS : STEPS[i].script = script /\ STEPS[i].accepts_force)

\* A mutation of NeedsSweep: --force is not passed on.
NeedsSweepOnce(csv) == sweeps[csv] = Missing
NeedsSweep(csv) == sweeps[csv] = Missing \/ Forced

\* run_sweep_if_needed.  The simulator creates sweep_summary.csv before the
\* first cell and fills it after the last: a sweep that dies leaves a header.
DoSweep ==
    /\ Doing("sweep")
    /\ \/ /\ sweeps' = IF NeedsSweep(Arg)
                       THEN [sweeps EXCEPT ![Arg] = SweepOutput(Arg, rev, TRUE)] ELSE sweeps
          /\ Advance /\ UNCHANGED <<frame, faults>>
       \/ /\ NeedsSweep(Arg) /\ Fault
          /\ \/ sweeps' = [sweeps EXCEPT ![Arg] = SweepOutput(Arg, rev, FALSE)]
             \/ UNCHANGED sweeps
          /\ Raise
    /\ UNCHANGED <<results, last_writer, artifacts, manifest, paper, sha, drawn, lost,
                   rev, commands, report>>

\* A summary that holds a header only is read, and plotted or not as the
\* plotting library likes an empty frame.
DoReadSweep ==
    /\ Doing("read_sweep")
    /\ \/ sweeps[Arg] # Missing /\ frame' = {sweeps[Arg]} /\ Advance
       \/ ~sweeps[Arg].whole /\ Raise
    /\ UNCHANGED <<disk, drawn, lost, budget, report>>

\* run_config: the line in PROVENANCE.txt first, then the simulator, which
\* exits with 0 also when it could not write its CSVs.
DoRunConfig ==
    /\ Doing("run_config")
    /\ \/ /\ last_writer' = Arg.writer
          /\ \/ results' = [results EXCEPT ![Arg.protocol] =
                              Output(Arg.toml, Arg.protocol, Arg.seed, rev, TRUE)]
                /\ UNCHANGED <<lost, faults>>
             \/ lost' = TRUE /\ Fault /\ UNCHANGED results
          /\ frame' = frame \cup ({results'[Arg.protocol]} \ {Missing})
          /\ Advance
       \/ /\ Fault /\ Raise
          /\ last_writer' \in {last_writer, Arg.writer}
          /\ UNCHANGED <<results, lost>>
    /\ UNCHANGED <<sweeps, artifacts, manifest, paper, sha, drawn, rev, commands, report>>

\* A warning on stderr when the last line names another script, which
\* regen_figures.py captures and shows only on failure: the script goes on.
DoCheckProvenance ==
    /\ Doing("check_provenance")
    /\ Advance
    /\ UNCHANGED <<disk, frame, drawn, lost, budget, report>>

DoReadResults ==
    /\ Doing("read_results")
    /\ LET present == {results[p] : p \in Protocol} \ {Missing} IN
       IF Arg /\ Missing \in {results[p] : p \in Protocol}
       THEN Raise
       ELSE frame' = present /\ Advance
    /\ UNCHANGED <<disk, drawn, lost, budget, report>>

\* Does nothing the script read hold a committed proposal?
NothingCommitted == \A o \in frame : o.rev \in Barren

Written(files, n) ==
    /\ artifacts' = [a \in Artifacts |->
                       IF a \in {files[i] : i \in 1 .. n} THEN frame ELSE artifacts[a]]
    /\ drawn' = drawn \cup {files[i] : i \in 1 .. n}

\* The figures and tables are written one after the other.  What was read is
\* gone afterwards.
DoSavefig ==
    /\ Doing("savefig")
    /\ LET files == Arg.files
           quiet == frame = {} \/ (NothingCommitted /\ Arg.empty = "quiet")
           refuse == frame # {} /\ NothingCommitted /\ Arg.empty = "refuse"
       IN \/ quiet /\ Advance /\ frame' = {} /\ UNCHANGED <<artifacts, drawn, sha, faults>>
          \/ refuse /\ Raise /\ UNCHANGED <<artifacts, drawn, sha, faults>>
          \/ /\ ~quiet /\ ~refuse
             /\ \/ Written(files, Len(files)) /\ Advance /\ frame' = {} /\ UNCHANGED faults
                \/ \E n \in 0 .. Len(files) - 1 : Written(files, n) /\ Fault /\ Raise
             /\ sha' = IF "progress_README" \in drawn' \ drawn /\ sha = {}
                       THEN {cmd.start} ELSE sha
    /\ UNCHANGED <<results, sweeps, last_writer, manifest, paper, lost, rev, commands,
                   report>>

----------------------------------------------------------------------------
(***************************************************************************)
(* The loop of run_steps, and the end of a command.                        *)
(***************************************************************************)
\* A mutation of NextStep: depends_on is not looked at.
NextStepRegardless ==
    /\ cmd.kind = "regen" /\ todo = <<>> /\ steps # {}
    /\ LET step == STEPS[Min(steps)]
       IN script' = step.script /\ todo' = Program(step.script)
    /\ steps' = steps \ {Min(steps)} /\ frame' = {}
    /\ UNCHANGED <<disk, cmd, failed_steps, drawn, lost, budget, report>>

NextStep ==
    /\ cmd.kind = "regen" /\ todo = <<>> /\ steps # {}
    /\ LET step == STEPS[Min(steps)] IN
       IF step.depends_on \in failed_steps
       THEN failed_steps' = failed_steps \cup {step.script} /\ UNCHANGED <<script, todo>>
       ELSE /\ script' = step.script /\ todo' = Program(step.script)
            /\ UNCHANGED failed_steps
    /\ steps' = steps \ {Min(steps)} /\ frame' = {}
    /\ UNCHANGED <<disk, cmd, drawn, lost, budget, report>>

End(ok) ==
    /\ report' = [cmd |-> cmd, ok |-> ok]
    /\ cmd' = Idle /\ script' = None /\ steps' = {} /\ todo' = <<>> /\ frame' = {}
    /\ UNCHANGED <<failed_steps, drawn, lost, rev, commands>>

\* regen_figures.py fingerprints every artifact on disk, whatever failed.
Finish ==
    /\ cmd # Idle /\ todo = <<>> /\ steps = {}
    /\ manifest' = IF cmd.kind = "regen" THEN [a \in Figures |-> artifacts[a]] ELSE manifest
    /\ End(failed_steps = {})
    /\ UNCHANGED <<results, sweeps, last_writer, artifacts, paper, sha, faults>>

\* Ctrl-C, or a failed cargo build before the first step: no manifest.
Interrupt ==
    /\ cmd # Idle /\ Fault
    /\ End(FALSE)
    /\ \/ UNCHANGED sweeps
       \/ /\ Doing("sweep") /\ NeedsSweep(Arg)
          /\ sweeps' = [sweeps EXCEPT ![Arg] = SweepOutput(Arg, rev, FALSE)]
    /\ UNCHANGED <<results, last_writer, artifacts, manifest, paper, sha>>

ScriptStep ==
    \/ DoSweep \/ DoReadSweep \/ DoRunConfig \/ DoCheckProvenance \/ DoReadResults
    \/ DoSavefig

Next ==
    \/ \E only \in SUBSET OnlyKeys, force \in BOOLEAN : Regen(only, force, FALSE)
    \/ Regen({}, FALSE, TRUE)
    \/ \E s \in ByHand, force \in BOOLEAN : RunByHand(s, force)
    \/ Collect \/ Edit \/ ScriptStep \/ NextStep \/ Finish \/ Interrupt

Spec == Init /\ [][Next]_vars
----------------------------------------------------------------------------
(***************************************************************************)
(* Properties.                                                             *)
(***************************************************************************)
Places(s, op) == {i \in DOMAIN Program(s) : Program(s)[i].op = op}
FiguresOf(s) == UNION {ToSet(Program(s)[i].arg.files) : i \in Places(s, "savefig")}
SweepReaders ==
    [csv \in Csvs |-> UNION {FiguresOf(s) :
        s \in {t \in AllSteps : \E i \in Places(t, "read_sweep") : Program(t)[i].arg = csv}}]
Runs(toml, s, r) == {Output(toml, p, s, r, TRUE) : p \in Protocol}
LastSeed == Seeds[Len(Seeds)]

\* What a figure is drawn from when all is well, at each revision.
ExpectedFrom(a, r) ==
    CASE a \in SweepReaders["scalability"] -> {SweepOutput("scalability", r, TRUE)}
      [] a \in SweepReaders["topology"] -> {SweepOutput("topology", r, TRUE)}
      [] a \in ToSet(ProgressFigures \o ProgressLogFigures) -> Runs("progress", RetiredSeed, r)
      [] a \in ToSet(StackedBarFigures) -> UNION {Runs("per_prop", s, r) : s \in ToSet(Seeds)}
      [] a \in ToSet(PaperEnergyFigures) -> Runs("per_prop", LastSeed, r)
      [] a \in ToSet(KdeFigures) -> Runs("awake", RetiredSeed, r)
Expected == [r \in 0 .. MaxEdits |-> [a \in Figures |-> ExpectedFrom(a, r)]]

Regenerated(rep) ==
    /\ rep.ok /\ ~lost /\ rep.cmd.kind = "regen" /\ rep.cmd.selected = AllSteps
    /\ rep.cmd.start = rev

(***************************************************************************)
(* When regen_figures.py --force has run every step with exit code 0 and   *)
(* nobody edited the sources meanwhile, every figure, and the manifest, is *)
(* what the sources at that revision give and nothing else: no cached      *)
(* sweep, no file another script or an earlier failed run left under       *)
(* results/ and no figure a script kept quiet about has any influence.     *)
(***************************************************************************)
ForcedRegenIsCanonical ==
    Regenerated(report) /\ report.cmd.force =>
        \A a \in Figures : {artifacts[a], manifest[a]} = {Expected[rev][a]}

(***************************************************************************)
(* Exit code 0 of a command means what its reader takes it to mean.        *)
(*                                                                         *)
(* regen_figures.py: every figure of every selected step was drawn by this *)
(* very command, and the figures of one sweep all show the summary now on  *)
(* disk.  Steps that end quietly when nothing was committed are caught by  *)
(* plot_paper_energy.py, if that was selected with plot_stacked_bar.py.    *)
(*                                                                         *)
(* audit_sources_210b.py: unless somebody edited the sources meanwhile,    *)
(* its progress and energy evidence is of this revision, and the slots per *)
(* decision are those of the summary on disk.                              *)
(*                                                                         *)
(* collect_paper_figures.py: paper/figures shows what plots/ shows.        *)
(***************************************************************************)
RegenIsHonest ==
    LET selected == report.cmd.selected
        due == UNION {FiguresOf(s) : s \in selected}
    IN ("plot_stacked_bar" \in selected => "plot_paper_energy" \in selected)
         => /\ due \subseteq drawn
            /\ \A c \in Csvs : \A a \in SweepReaders[c] \cap due : artifacts[a] = {sweeps[c]}
AuditIsHonest ==
    /\ report.cmd.start = rev =>
         /\ \A a \in ToSet(ProgressEvidence) : artifacts[a] = Runs("progress", RetiredSeed, rev)
         /\ \A a \in ToSet(EnergyEvidence) :
              artifacts[a] = UNION {Runs("per_prop", s, rev) : s \in ToSet(Seeds)}
    /\ \A a \in ToSet(SlotsEvidence) : artifacts[a] = {sweeps["scalability"]}
CollectIsHonest ==
    \A f \in DOMAIN MAPPING : paper[f].from = artifacts[MAPPING[f]] /\ paper[f].from # {}
ExitCodeIsHonest ==
    report.ok /\ ~lost =>
        /\ report.cmd.kind = "regen" => RegenIsHonest
        /\ "audit_sources_210b" \in report.cmd.selected => AuditIsHonest
        /\ report.cmd.kind = "collect" => CollectIsHonest

(***************************************************************************)
(* Whenever regen_figures.py runs both energy scripts, whatever fails      *)
(* meanwhile, no energy figure is drawn from anything but the runs its     *)
(* plot_stacked_bar.py has just left, one for every protocol.              *)
(***************************************************************************)
EnergyFromThisRun ==
    "plot_stacked_bar" \in (IF cmd = Idle THEN report.cmd ELSE cmd).selected
      /\ (IF cmd = Idle THEN report.cmd ELSE cmd).kind = "regen" /\ ~lost
    => \A a \in drawn \cap ToSet(PaperEnergyFigures) :
         /\ Cardinality(artifacts[a]) = Len(Protocols)
         /\ \A o \in artifacts[a] :
              /\ o.toml = "per_prop" /\ o.seed = LastSeed
              /\ o.rev >= (IF cmd = Idle THEN report.cmd ELSE cmd).start

(***************************************************************************)
(* check_provenance finding the expected name in PROVENANCE.txt means that *)
(* every CSV under results/ is of that script's configuration, as long as  *)
(* no run of the simulator has failed or been interrupted: a later script  *)
(* that stops half-way is not noticed, because only its name is compared.  *)
(***************************************************************************)
ProvenanceIsRight ==
    [][DoCheckProvenance /\ last_writer = Arg /\ faults = 0 =>
         \A p \in Protocol :
           results[p].toml = IF Arg = "plot_stacked_bar.py" THEN "per_prop" ELSE "awake"]_vars

(***************************************************************************)
(* What --compare finds on disk, and a saved set with the figures of       *)
(* revision r and, in the repository's layout, the sweep summaries.        *)
(***************************************************************************)
File(dir, name, hash) == [dir |-> dir, name |-> name, hash |-> hash]
FigureFiles(dir, shown) ==
    [i \in DOMAIN AllFigures |-> File(dir, AllFigures[i], shown[AllFigures[i]])]
Summaries(shown) ==
    [i \in 1 .. 2 |-> LET csv == <<"scalability", "topology">>[i]
                     IN File(csv, "sweep_summary.csv", {shown[csv]} \ {Missing})]
Disk == FigureFiles("plots", artifacts) \o Summaries(sweeps)
SavedRepo(r) ==
    FigureFiles("plots", Expected[r]) \o Summaries([c \in Csvs |-> SweepOutput(c, r, TRUE)])
SavedFolder(r) == FigureFiles("", Expected[r])

(***************************************************************************)
(* regen_figures.py --compare ends with 0 exactly when every figure, and   *)
(* every summary if they were saved, is on disk as it was saved: for plots *)
(* saved in the repository's layout and for a flat folder of figures.      *)
(* --compare itself changes nothing, so it is evaluated here on the disks  *)
(* on which a --no-run command ends.                                       *)
(***************************************************************************)
CompareIsExact ==
    [][cmd.kind = "regen" /\ cmd.selected = {} /\ Finish => \A r \in 0 .. MaxEdits :
        LET same_figures == \A a \in Figures : artifacts[a] = Expected[r][a]
            same_sweeps == \A c \in Csvs : sweeps[c] = SweepOutput(c, r, TRUE)
        IN /\ CompareCode(Disk, SavedRepo(r)) = 0 <=> same_figures /\ same_sweeps
           /\ CompareCode(Disk, SavedFolder(r)) = 0 <=> same_figures]_vars

----------------------------------------------------------------------------
(***************************************************************************)
(* plots/README.md, "Reproducibility": "The same command produces          *)
(* byte-identical output on the same machine."  While nobody edits the     *)
(* sources, a complete regeneration that ends with 0 draws the same        *)
(* figures every time.  It does not after an interrupted sweep.            *)
(***************************************************************************)
SameCommandSameOutput ==
    Regenerated(report) /\ rev = 0 => \A a \in Figures : artifacts[a] = Expected[0][a]

(***************************************************************************)
(* The evidence file names the revision its numbers were generated from    *)
(* (tools/audit_sources_210b.py:58, "Pre-generation source revision").     *)
(* The code keeps the revision an earlier file names.                      *)
(***************************************************************************)
EvidenceNamesItsRevision ==
    report.ok /\ report.cmd.start = rev /\ "audit_sources_210b" \in report.cmd.selected
      => sha = {rev}
=============================================================================
