---------------------------- MODULE FigureScripts ----------------------------
(***************************************************************************)
(* What each figure script of plots/ does to the disk, as the sequence of  *)
(* its steps: sweeps and single runs of the simulator, the files it reads  *)
(* back, and the artifacts it draws from what it read.  A step is a record *)
(* [op, arg]; the actions of FigurePipeline execute them.  Plotting itself *)
(* (axes, colours, legends) is left out: an artifact is the set of the     *)
(* simulator outputs it was drawn from.                                    *)
(***************************************************************************)
EXTENDS Naturals, Sequences, SequencesExt

CONSTANTS
    Protocols,   \* the protocol/PHY combinations, in the order of PROTOCOLS
    Seeds        \* the published seeds, in the order of SEEDS

ASSUME ScriptsAssumption ==
    /\ Protocols \in Seq(STRING) /\ Len(Protocols) > 0 /\ IsInjective(Protocols)
    /\ Seeds \in Seq(Nat) /\ Len(Seeds) > 0

None == "none"
RetiredSeed == 99       \* sim_*_progress.toml, generate_toml of plot_kde_awake.py

(***************************************************************************)
(* The steps.  "empty" says what a script does when no run it read has     *)
(* committed anything: "draw" all the same, return "quiet"ly with exit     *)
(* code 0, or "refuse" with an error.                                      *)
(***************************************************************************)
RunSweep(csv) == [op |-> "sweep", arg |-> csv]
ReadSweep(csv) == [op |-> "read_sweep", arg |-> csv]
RunConfig(writer, toml, p, s) ==
    [op |-> "run_config", arg |-> [writer |-> writer, toml |-> toml, protocol |-> p, seed |-> s]]
CheckProvenance(expected) == [op |-> "check_provenance", arg |-> expected]
ReadResults(strict) == [op |-> "read_results", arg |-> strict]
Savefig(files, empty) == [op |-> "savefig", arg |-> [files |-> files, empty |-> empty]]

\* One run of every protocol at one seed, each loaded before the next starts.
OneRunEach(writer, toml, s) ==
    [i \in 1 .. Len(Protocols) |-> RunConfig(writer, toml, Protocols[i], s)]

----------------------------------------------------------------------------
(***************************************************************************)
(* The artifacts of each script, in the order they are written.            *)
(***************************************************************************)
ScalabilityFigures == <<"throughput_vs_nodes", "latency_vs_nodes", "throughput_vs_loss">>
EfficiencyFigures == <<"efficiency_vs_nodes">>
SummaryFigures == <<"table_summary_csv", "table_summary_tex", "commit_rate_vs_loss",
                    "commit_rate_vs_nodes">>
TopologyFigures == <<"thr_vs_topology", "lat_vs_topology", "energy_vs_topology",
                     "efficiency_vs_topology", "table_topology_csv", "table_topology_tex">>
ProgressFigures == <<"progress_over_time">>
ProgressLogFigures == <<"progress_over_time_log">>
StackedBarFigures == <<"stacked_bar_per_proposal_energy">>
PaperEnergyFigures == <<"energy_per_proposal", "energy_summary", "fig_energy_boxplot",
                        "fig_energy_mean_ci_ce", "fig_latency_vs_energy", "fig_energy_stacked">>
KdeFigures == <<"pmf_awake_nodes", "duty_cycle_extremes">>

----------------------------------------------------------------------------
PlotScalability == <<RunSweep("scalability"), ReadSweep("scalability"),
                     Savefig(ScalabilityFigures, "draw")>>
PlotEfficiency == <<ReadSweep("scalability"), Savefig(EfficiencyFigures, "draw")>>
PlotSummaryCommit == <<ReadSweep("scalability"), Savefig(SummaryFigures, "draw")>>
PlotTopology == <<RunSweep("topology"), ReadSweep("topology"), Savefig(TopologyFigures, "draw")>>

PlotProgress ==
    Append(OneRunEach("plot_progress.py", "progress", RetiredSeed),
           Savefig(ProgressFigures, "draw"))
\* A mutation of PlotProgressLog: the script borrows another one's name.
PlotProgressLogAsEnergy ==
    Append(OneRunEach("plot_stacked_bar.py", "progress", RetiredSeed),
           Savefig(ProgressLogFigures, "draw"))
PlotProgressLog ==
    Append(OneRunEach("plot_progress_log.py", "progress", RetiredSeed),
           Savefig(ProgressLogFigures, "draw"))

\* run_simulation_and_extract_per_proposal: every seed of a protocol, one over
\* the other in the same two files, before the next protocol.
PerProposalRuns(writer) ==
    FlattenSeq([i \in 1 .. Len(Protocols) |->
        [j \in 1 .. Len(Seeds) |-> RunConfig(writer, "per_prop", Protocols[i], Seeds[j])]])
PlotStackedBar ==
    Append(PerProposalRuns("plot_stacked_bar.py"), Savefig(StackedBarFigures, "quiet"))

\* load_amortized only reads what is left in results/.
PlotPaperEnergy == <<CheckProvenance("plot_stacked_bar.py"), ReadResults(TRUE),
                     Savefig(PaperEnergyFigures, "refuse")>>

PlotKdeAwake ==
    Append(OneRunEach("plot_kde_awake.py", "awake", RetiredSeed), Savefig(KdeFigures, "draw"))
PlotKdeNoRun == <<CheckProvenance("plot_kde_awake.py"), ReadResults(FALSE),
                  Savefig(KdeFigures, "draw")>>

(***************************************************************************)
(* tools/audit_sources_210b.py runs both progress scripts, reads their     *)
(* results, takes the slots per decision from the sweep on disk, and runs  *)
(* the extraction of plot_stacked_bar.py under its own name.               *)
(***************************************************************************)
ProgressEvidence == <<"progress_snapshots", "progress_README">>
SlotsEvidence == <<"slots_per_decision">>
EnergyEvidence == <<"per_decision_energy", "distribution_stats", "integer_multiple_check">>
AuditSources ==
    PlotProgress \o PlotProgressLog
      \o <<ReadResults(TRUE), Savefig(ProgressEvidence, "draw"),
           ReadSweep("scalability"), Savefig(SlotsEvidence, "draw")>>
      \o PerProposalRuns("audit_sources_210b.py")
      \o <<Savefig(EnergyEvidence, "refuse")>>

----------------------------------------------------------------------------
(***************************************************************************)
(* STEPS of tools/regen_figures.py, in its order, with the directory that  *)
(* --only may name instead of the script.                                  *)
(***************************************************************************)
Step(dir, script, accepts_force, depends_on) ==
    [dir |-> dir, script |-> script, accepts_force |-> accepts_force, depends_on |-> depends_on]

STEPS ==
    <<Step("scalability", "plot_scalability", TRUE, None),
      Step("scalability", "plot_efficiency", FALSE, None),
      Step("scalability", "plot_summary_commit", FALSE, None),
      Step("topology", "plot_topology", TRUE, None),
      Step("progress", "plot_progress", FALSE, None),
      Step("progress", "plot_progress_log", FALSE, None),
      Step("energy", "plot_stacked_bar", FALSE, None),
      Step("energy", "plot_paper_energy", FALSE, "plot_stacked_bar"),
      Step("duty_cycle", "plot_kde_awake", FALSE, None)>>

\* plot_kde_no_run is plot_kde_awake.py --no-run, which nothing but a reader runs.
AllSteps == {STEPS[i].script : i \in DOMAIN STEPS}
Scripts == AllSteps \cup {"plot_kde_no_run", "audit_sources_210b"}

Program(script) ==
    CASE script = "plot_scalability" -> PlotScalability
      [] script = "plot_efficiency" -> PlotEfficiency
      [] script = "plot_summary_commit" -> PlotSummaryCommit
      [] script = "plot_topology" -> PlotTopology
      [] script = "plot_progress" -> PlotProgress
      [] script = "plot_progress_log" -> PlotProgressLog
      [] script = "plot_stacked_bar" -> PlotStackedBar
      [] script = "plot_paper_energy" -> PlotPaperEnergy
      [] script = "plot_kde_awake" -> PlotKdeAwake
      [] script = "plot_kde_no_run" -> PlotKdeNoRun
      [] script = "audit_sources_210b" -> AuditSources

\* The files of MAPPING in tools/collect_paper_figures.py: name in the paper,
\* artifact it is copied from.
MAPPING ==
    [throughput_vs_nodes |-> "throughput_vs_nodes", latency_vs_nodes |-> "latency_vs_nodes",
     throughput_vs_loss |-> "throughput_vs_loss", efficiency_vs_nodes |-> "efficiency_vs_nodes",
     progress_over_time |-> "progress_over_time",
     progress_over_time_log |-> "progress_over_time_log",
     energy_mean_ci_ce |-> "fig_energy_mean_ci_ce", energy_boxplot |-> "fig_energy_boxplot",
     latency_vs_energy |-> "fig_latency_vs_energy",
     throughput_vs_topology |-> "thr_vs_topology", latency_vs_topology |-> "lat_vs_topology"]

AllFigures ==
    ScalabilityFigures \o EfficiencyFigures \o SummaryFigures \o TopologyFigures
      \o ProgressFigures \o ProgressLogFigures \o StackedBarFigures \o PaperEnergyFigures
      \o KdeFigures
Figures == ToSet(AllFigures)
Evidence == ToSet(ProgressEvidence \o SlotsEvidence \o EnergyEvidence)
=============================================================================
