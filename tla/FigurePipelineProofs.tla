------------------------- MODULE FigurePipelineProofs -------------------------
(***************************************************************************)
(* Theorems about FigurePipeline for every list of protocols and seeds,    *)
(* every number of edits, commands and faults, every set of scripts run by *)
(* hand and every revision at which nothing is committed.                  *)
(*                                                                         *)
(* First, what the programs of the eleven scripts are like (Shape): where  *)
(* they run, read, check and draw, and from what they draw.  Then the      *)
(* invariant FigureInv: where the command is, what the script has read,    *)
(* what its runs have left on disk, what is drawn already, and from what.  *)
(* From it follow the invariants that the runs check.  Last, that the      *)
(* comparison of two sets of artifacts tells them apart.                   *)
(***************************************************************************)
EXTENDS FigurePipeline, FiniteIntegerSets

\* Names for the parts of FigureScripts that the proofs speak of most.
n == Len(Protocols)
ScriptAt(c) == STEPS[c].script
Audit == "audit_sources_210b"
Ops == {"sweep", "read_sweep", "run_config", "check_provenance", "read_results", "savefig"}

\* STEPS of regen_figures.py, place by place.
LEMMA StepsTable ==
    /\ DOMAIN STEPS = 1 .. 9
    /\ ScriptAt(1) = "plot_scalability" /\ ScriptAt(2) = "plot_efficiency"
    /\ ScriptAt(3) = "plot_summary_commit" /\ ScriptAt(4) = "plot_topology"
    /\ ScriptAt(5) = "plot_progress" /\ ScriptAt(6) = "plot_progress_log"
    /\ ScriptAt(7) = "plot_stacked_bar" /\ ScriptAt(8) = "plot_paper_energy"
    /\ ScriptAt(9) = "plot_kde_awake"
    /\ \A i \in 1 .. 9 : /\ STEPS[i].accepts_force <=> i \in {1, 4}
                         /\ STEPS[i].depends_on = IF i = 8 THEN "plot_stacked_bar" ELSE None
BY DEF STEPS, Step, ScriptAt

\* No script is listed twice in STEPS, and each is a script.
LEMMA PlacesAreDistinct ==
    /\ \A i, j \in 1 .. 9 : ScriptAt(i) = ScriptAt(j) => i = j
    /\ \A i \in 1 .. 9 : /\ ScriptAt(i) # None /\ ScriptAt(i) # Audit
                         /\ ScriptAt(i) # "plot_kde_no_run"
<1>1. \A i \in 1 .. 9 : i = 1 \/ i = 2 \/ i = 3 \/ i = 4 \/ i = 5 \/ i = 6 \/ i = 7 \/ i = 8 \/ i = 9
  OBVIOUS
<1>2. \A i, j \in 1 .. 9 : ScriptAt(i) = ScriptAt(j) => i = j
  <2> SUFFICES ASSUME NEW i \in 1 .. 9, NEW j \in 1 .. 9, i # j
               PROVE  ScriptAt(i) # ScriptAt(j)
    OBVIOUS
  <2>1. CASE i = 1 \/ i = 2 \/ i = 3
    BY <1>1, <2>1, StepsTable
  <2>2. CASE i = 4 \/ i = 5 \/ i = 6
    BY <1>1, <2>2, StepsTable
  <2>3. CASE i = 7 \/ i = 8 \/ i = 9
    BY <1>1, <2>3, StepsTable
  <2> QED
    BY <1>1, <2>1, <2>2, <2>3
<1>3. \A i \in 1 .. 9 : /\ ScriptAt(i) # None /\ ScriptAt(i) # Audit
                         /\ ScriptAt(i) # "plot_kde_no_run"
  BY <1>1, StepsTable DEF None, Audit
<1> QED
  BY <1>2, <1>3

\* The scripts, by name.
LEMMA ScriptsAre ==
    /\ AllSteps = {"plot_scalability", "plot_efficiency", "plot_summary_commit", "plot_topology", "plot_progress",
                   "plot_progress_log", "plot_stacked_bar", "plot_paper_energy", "plot_kde_awake"}
    /\ AllSteps = {ScriptAt(i) : i \in 1 .. 9}
    /\ Scripts = AllSteps \cup {"plot_kde_no_run", Audit}
    /\ None \notin Scripts
<1>1. \A i \in 1 .. 9 : i = 1 \/ i = 2 \/ i = 3 \/ i = 4 \/ i = 5 \/ i = 6 \/ i = 7 \/ i = 8 \/ i = 9
  OBVIOUS
<1>2. AllSteps = {ScriptAt(i) : i \in 1 .. 9}
  BY StepsTable DEF AllSteps, ScriptAt
<1>3. AllSteps = {"plot_scalability", "plot_efficiency", "plot_summary_commit", "plot_topology", "plot_progress",
                   "plot_progress_log", "plot_stacked_bar", "plot_paper_energy", "plot_kde_awake"}
  BY <1>1, <1>2, StepsTable
<1> QED
  BY <1>2, <1>3 DEF Scripts, None, Audit

\* The program of each script.
LEMMA ProgramIs ==
    /\ Program("plot_scalability") = PlotScalability
    /\ Program("plot_efficiency") = PlotEfficiency
    /\ Program("plot_summary_commit") = PlotSummaryCommit
    /\ Program("plot_topology") = PlotTopology
    /\ Program("plot_progress") = PlotProgress
    /\ Program("plot_progress_log") = PlotProgressLog
    /\ Program("plot_stacked_bar") = PlotStackedBar
    /\ Program("plot_paper_energy") = PlotPaperEnergy
    /\ Program("plot_kde_awake") = PlotKdeAwake
    /\ Program("plot_kde_no_run") = PlotKdeNoRun
    /\ Program(Audit) = AuditSources
BY DEF Program, Audit

\* PROTOCOLS and SEEDS are lists that are not empty, PROTOCOLS without repetitions.
LEMMA ConfigFacts ==
    /\ n \in Nat /\ n > 0 /\ Protocols \in Seq(STRING) /\ DOMAIN Protocols = 1 .. n
    /\ Protocol = {Protocols[i] : i \in 1 .. n} /\ Protocol # {} /\ Protocol \subseteq STRING
    /\ \A i, j \in 1 .. n : Protocols[i] = Protocols[j] => i = j
    /\ Len(Seeds) \in Nat /\ Len(Seeds) > 0 /\ Seeds \in Seq(Nat) /\ DOMAIN Seeds = 1 .. Len(Seeds)
    /\ ToSet(Seeds) = {Seeds[i] : i \in 1 .. Len(Seeds)} /\ LastSeed \in ToSet(Seeds) /\ ToSet(Seeds) \subseteq Nat
<1>1. n \in Nat /\ n > 0 /\ Protocols \in Seq(STRING) /\ DOMAIN Protocols = 1 .. n /\ Protocols \in [1 .. n -> STRING]
  BY ScriptsAssumption, LenProperties DEF n
<1>2. Len(Seeds) \in Nat /\ Len(Seeds) > 0 /\ Seeds \in Seq(Nat) /\ DOMAIN Seeds = 1 .. Len(Seeds) /\ Seeds \in [1 .. Len(Seeds) -> Nat]
  BY ScriptsAssumption, LenProperties
<1>3. Protocol = {Protocols[i] : i \in 1 .. n}
  BY <1>1 DEF Protocol, ToSet
<1>4. Protocols[1] \in Protocol
  BY <1>1, <1>3
<1>5. Protocol \subseteq STRING
  BY <1>1, <1>3
<1>6. ToSet(Seeds) = {Seeds[i] : i \in 1 .. Len(Seeds)} 
  BY <1>2 DEF ToSet
<1>7. LastSeed \in ToSet(Seeds) /\ ToSet(Seeds) \subseteq Nat
  BY <1>2, <1>6 DEF LastSeed
<1>8. \A i, j \in 1 .. n : Protocols[i] = Protocols[j] => i = j
  BY <1>1, ScriptsAssumption DEF IsInjective
<1> QED
  BY <1>1, <1>2, <1>3, <1>4, <1>5, <1>6, <1>7, <1>8

\* What the constructors of the steps build.
LEMMA StepFields ==
    /\ \A csv : RunSweep(csv).op = "sweep" /\ RunSweep(csv).arg = csv
    /\ \A csv : ReadSweep(csv).op = "read_sweep" /\ ReadSweep(csv).arg = csv
    /\ \A w, t, p, s : LET x == RunConfig(w, t, p, s) IN
         /\ x.op = "run_config" /\ x.arg.writer = w /\ x.arg.toml = t
         /\ x.arg.protocol = p /\ x.arg.seed = s
    /\ \A e : CheckProvenance(e).op = "check_provenance" /\ CheckProvenance(e).arg = e
    /\ \A b : ReadResults(b).op = "read_results" /\ ReadResults(b).arg = b
    /\ \A f, e : /\ Savefig(f, e).op = "savefig" /\ Savefig(f, e).arg.files = f
                  /\ Savefig(f, e).arg.empty = e
BY DEF RunSweep, ReadSweep, RunConfig, CheckProvenance, ReadResults, Savefig

\* The loop over PROTOCOLS runs each once, in order.
LEMMA OneRunEachFacts ==
    ASSUME NEW writer, NEW toml, NEW s
    PROVE  LET P == OneRunEach(writer, toml, s) IN
           /\ Len(P) = n /\ DOMAIN P = 1 .. n
           /\ \A i \in 1 .. n : P[i] = RunConfig(writer, toml, Protocols[i], s)
           /\ P \in Seq({RunConfig(writer, toml, p, s) : p \in Protocol})
<1> DEFINE P == OneRunEach(writer, toml, s)
<1>1. P = [i \in 1 .. n |-> RunConfig(writer, toml, Protocols[i], s)]
  BY DEF OneRunEach, n
<1>2. P \in [1 .. n -> {RunConfig(writer, toml, p, s) : p \in Protocol}]
  BY <1>1, ConfigFacts
<1>3. P \in Seq({RunConfig(writer, toml, p, s) : p \in Protocol}) /\ Len(P) = n
  <2> DEFINE Y == {RunConfig(writer, toml, p, s) : p \in Protocol}
  <2> HIDE DEF P, Y
  <2>1. P \in [1 .. n -> Y] /\ n \in Nat
    BY <1>2, ConfigFacts DEF Y
  <2>2. P \in Seq(Y) /\ Len(P) = n
    BY <2>1
  <2> QED
    BY <2>2 DEF Y
<1> QED
  BY <1>1, <1>2, <1>3 DEF P

\* The runs of plot_stacked_bar.py: every protocol at every seed, and the last run of a
\* protocol is at the last seed.
AllRuns(writer) == {RunConfig(writer, "per_prop", p, s) : p \in Protocol, s \in ToSet(Seeds)}
\* Place i of P runs p for the last time, at the last seed.
SettlesAt(P, i, p) ==
    /\ P[i].arg.protocol = p /\ P[i].arg.seed = LastSeed
    /\ \A j \in i + 1 .. Len(P) : P[j].arg.protocol # p
\* The two nested loops run every protocol at every seed, and leave each at the last seed.
LEMMA PerProposalFacts ==
    ASSUME NEW writer
    PROVE  LET P == PerProposalRuns(writer) IN
           /\ P \in Seq(AllRuns(writer))
           /\ \A x \in AllRuns(writer) : \E i \in DOMAIN P : P[i] = x
           /\ \A p \in Protocol : \E i \in DOMAIN P : SettlesAt(P, i, p)
<1> DEFINE X == AllRuns(writer)
           m == Len(Seeds)
           Block(i) == [j \in 1 .. m |-> RunConfig(writer, "per_prop", Protocols[i], Seeds[j])]
           s == [i \in 1 .. n |-> Block(i)]
           P == PerProposalRuns(writer)
<1>1. n \in Nat /\ n > 0 /\ m \in Nat /\ m > 0
  BY ConfigFacts
<1>2. P = FlattenSeq(s)
  BY DEF PerProposalRuns, n
<1>3. \A i \in 1 .. n : /\ Block(i) \in Seq(X) /\ Len(Block(i)) = m
                       /\ \A j \in 1 .. m : Block(i)[j] = RunConfig(writer, "per_prop", Protocols[i], Seeds[j])
  <2> SUFFICES ASSUME NEW i \in 1 .. n
               PROVE  Block(i) \in Seq(X) /\ Len(Block(i)) = m
    OBVIOUS
  <2>1. \A j \in 1 .. m : RunConfig(writer, "per_prop", Protocols[i], Seeds[j]) \in X
    <3> SUFFICES ASSUME NEW j \in 1 .. m
                 PROVE  RunConfig(writer, "per_prop", Protocols[i], Seeds[j]) \in X
      OBVIOUS
    <3>1. Protocols[i] \in Protocol /\ Seeds[j] \in ToSet(Seeds)
      BY ConfigFacts
    <3> QED
      BY <3>1 DEF AllRuns
  <2> HIDE DEF X
  <2>2. Block(i) \in [1 .. m -> X]
    BY <2>1
  <2> QED
    BY <1>1, <2>2
<1> HIDE DEF Block, X, P
<1>4. s \in Seq(Seq(X)) /\ Len(s) = n /\ \A i \in 1 .. n : s[i] = Block(i)
  <2>1. s \in [1 .. n -> Seq(X)]
    BY <1>3
  <2> QED
    BY <1>1, <2>1
<1> HIDE DEF s
<1>5. PICK w : /\ FlattenSeq(s) = w[Len(s)]
               /\ \A i \in 1 .. Len(s) : w[i] = IF i = 1 THEN s[i] ELSE w[i-1] \o s[i]
  <2> DEFINE Unfolds(w) == /\ FlattenSeq(s) = w[Len(s)]
                           /\ \A i \in 1 .. Len(s) : w[i] = IF i = 1 THEN s[i] ELSE w[i-1] \o s[i]
  <2>1. \E w : Unfolds(w)
    BY <1>1, <1>4, FlattenUnfolds
  <2> QED
    BY <2>1
<1> DEFINE Has(t, k) == \A i \in 1 .. k : \A j \in 1 .. m : \E x \in 1 .. Len(t) : t[x] = Block(i)[j]
           Settled(t, k) == \A i \in 1 .. k : \E x \in 1 .. Len(t) : SettlesAt(t, x, Protocols[i])
           Good == {k \in 0 .. n : k > 0 => w[k] \in Seq(X) /\ Has(w[k], k) /\ Settled(w[k], k)}
<1> HIDE DEF Has, Settled
<1>6. 0 \in Good
  BY <1>1
<1>7. ASSUME NEW k \in 0 .. n - 1, k \in Good
      PROVE  k + 1 \in Good
  <2> DEFINE t == w[k+1]
             b == Block(k+1)
  <2>1. k + 1 \in 1 .. n /\ (k + 1) - 1 = k /\ (k = 0 \/ k \in 1 .. n)
    BY <1>1
  <2>2. b \in Seq(X) /\ Len(b) = m /\ \A j \in 1 .. m : b[j] = RunConfig(writer, "per_prop", Protocols[k+1], Seeds[j])
    BY <1>3, <2>1
  <2> DEFINE u == IF k = 0 THEN <<>> ELSE w[k]
  <2>3. u \in Seq(X) /\ Has(u, k) /\ Settled(u, k)
    <3>1. CASE k = 0
      BY <3>1 DEF Has, Settled
    <3>2. CASE k # 0
      BY <1>7, <3>2
    <3> QED
      BY <3>1, <3>2
  <2>4. t = u \o b
    <3>1. CASE k = 0
      <4>1. t = b
        BY <1>4, <1>5, <2>1, <3>1
      <4>2. u = <<>>
        BY <3>1
      <4> HIDE DEF t, u, b
      <4> QED
        BY <2>2, <4>1, <4>2, ConcatEmptySeq
    <3>2. CASE k # 0
      <4>1. t = w[(k+1)-1] \o s[k+1] /\ s[k+1] = b
        <5>1. k + 1 \in 1 .. Len(s) /\ k + 1 # 1
          BY <1>1, <1>4, <2>1, <3>2
        <5>2. w[k+1] = w[(k+1)-1] \o s[k+1]
          BY <1>5, <5>1
        <5> QED
          BY <1>4, <2>1, <5>2
      <4> QED
        BY <2>1, <3>2, <4>1
    <3> QED
      BY <3>1, <3>2
  <2> HIDE DEF t, u, b
  <2>5. /\ t \in Seq(X) /\ Len(t) = Len(u) + m /\ Len(u) \in Nat
        /\ \A x \in 1 .. Len(u) : t[x] = u[x]
        /\ \A j \in 1 .. m : t[Len(u) + j] = b[j]
    <3>1. /\ u \o b \in Seq(X) /\ Len(u \o b) = Len(u) + Len(b) /\ Len(u) \in Nat
          /\ \A x \in 1 .. Len(u) + Len(b) : (u \o b)[x] = IF x <= Len(u) THEN u[x] ELSE b[x - Len(u)]
      BY <2>2, <2>3, ConcatProperties, LenProperties
    <3> QED
      BY <1>1, <2>2, <2>4, <3>1
  <2>6. Has(t, k+1)
    <3> SUFFICES ASSUME NEW i \in 1 .. k + 1, NEW j \in 1 .. m
                 PROVE  \E x \in 1 .. Len(t) : t[x] = Block(i)[j]
      BY DEF Has
    <3>1. CASE i = k + 1
      <4>1. Len(u) + j \in 1 .. Len(t) /\ t[Len(u) + j] = b[j]
        BY <1>1, <2>5
      <4> QED
        BY <3>1, <4>1 DEF b
    <3>2. CASE i \in 1 .. k
      <4>1. PICK x \in 1 .. Len(u) : u[x] = Block(i)[j]
        BY <2>3, <3>2 DEF Has
      <4>2. x \in 1 .. Len(t) /\ t[x] = u[x]
        BY <1>1, <2>5
      <4> QED
        BY <4>1, <4>2
    <3> QED
      BY <3>1, <3>2
  <2>7. Settled(t, k+1)
    <3> SUFFICES ASSUME NEW i \in 1 .. k + 1
                 PROVE  \E x \in 1 .. Len(t) : SettlesAt(t, x, Protocols[i])
      BY DEF Settled
    <3>0. \A j \in 1 .. m : t[Len(u) + j].arg.protocol = Protocols[k+1] /\ t[Len(u) + j].arg.seed = Seeds[j]
      <4>1. \A j \in 1 .. m : t[Len(u) + j] = RunConfig(writer, "per_prop", Protocols[k+1], Seeds[j])
        BY <2>2, <2>5
      <4> QED
        BY <4>1, StepFields
    <3>1. CASE i = k + 1
      <4>1. Len(u) + m \in 1 .. Len(t) /\ m \in 1 .. m
        BY <1>1, <2>5
      <4>2. \A j \in Len(u) + m + 1 .. Len(t) : FALSE
        BY <1>1, <2>5
      <4>3. SettlesAt(t, Len(u) + m, Protocols[i])
        BY <3>0, <3>1, <4>1, <4>2 DEF SettlesAt, LastSeed
      <4> QED
        BY <4>1, <4>3
    <3>2. CASE i \in 1 .. k
      <4>1. PICK x \in 1 .. Len(u) : SettlesAt(u, x, Protocols[i])
        BY <2>3, <3>2 DEF Settled
      <4>2. x \in 1 .. Len(t) /\ t[x] = u[x]
        BY <1>1, <2>5
      <4>3. Protocols[i] # Protocols[k+1]
        BY <2>1, <3>2, ConfigFacts
      <4>4. \A j \in x + 1 .. Len(t) : t[j].arg.protocol # Protocols[i]
        <5> SUFFICES ASSUME NEW j \in x + 1 .. Len(t)
                     PROVE  t[j].arg.protocol # Protocols[i]
          OBVIOUS
        <5>1. CASE j <= Len(u)
          <6>1. j \in x + 1 .. Len(u) /\ j \in 1 .. Len(u)
            BY <2>5, <5>1
          <6> QED
            BY <2>5, <4>1, <6>1 DEF SettlesAt
        <5>2. CASE ~(j <= Len(u))
          <6>1. j - Len(u) \in 1 .. m /\ Len(u) + (j - Len(u)) = j
            BY <1>1, <2>5, <5>2
          <6> QED
            BY <3>0, <4>3, <6>1
        <5> QED
          BY <5>1, <5>2
      <4>5. SettlesAt(t, x, Protocols[i])
        BY <4>1, <4>2, <4>4 DEF SettlesAt
      <4> QED
        BY <4>2, <4>5
    <3> QED
      BY <3>1, <3>2
  <2> QED
    BY <2>1, <2>5, <2>6, <2>7 DEF t
<1>8. n \in Good
  <2> HIDE DEF Good
  <2>1. 0 .. n \subseteq Good
    BY <1>1, <1>6, <1>7, UpToN
  <2> QED
    BY <1>1, <2>1
<1>9. P \in Seq(X) /\ Has(P, n) /\ Settled(P, n)
  <2>1. P = w[n]
    BY <1>2, <1>4, <1>5
  <2> QED
    BY <1>1, <1>8, <2>1
<1> HIDE DEF Good
<1>10. DOMAIN P = 1 .. Len(P)
  BY <1>9
<1>11. \A x \in X : \E i \in DOMAIN P : P[i] = x
  <2> SUFFICES ASSUME NEW x \in X
               PROVE  \E i \in DOMAIN P : P[i] = x
    OBVIOUS
  <2>1. PICK i \in 1 .. n, j \in 1 .. m : x = RunConfig(writer, "per_prop", Protocols[i], Seeds[j])
    BY ConfigFacts DEF X, AllRuns
  <2>2. x = Block(i)[j]
    BY <1>3, <2>1
  <2> QED
    BY <1>9, <1>10, <2>2 DEF Has
<1>12. \A p \in Protocol : \E i \in DOMAIN P : SettlesAt(P, i, p)
  <2>1. \A i \in 1 .. n : \E x \in DOMAIN P : SettlesAt(P, x, Protocols[i])
    BY <1>9, <1>10 DEF Settled
  <2>2. \A p \in Protocol : \E i \in 1 .. n : p = Protocols[i]
    BY ConfigFacts
  <2> QED
    BY <2>1, <2>2
<1> QED
  BY <1>9, <1>11, <1>12 DEF X, P

----------------------------------------------------------------------------
(***************************************************************************)
(* The steps of the programs, and the lists of files they write.           *)
(***************************************************************************)
WriterNames == {"plot_progress.py", "plot_progress_log.py", "plot_stacked_bar.py",
                "plot_kde_awake.py", "audit_sources_210b.py"}
Tomls == {"progress", "per_prop", "awake"}
AllRunConfigs == {RunConfig(w, t, p, s) : w \in WriterNames, t \in Tomls, p \in Protocol, s \in Nat}
AnyStep ==
    {RunSweep(csv) : csv \in Csvs} \cup {ReadSweep(csv) : csv \in Csvs} \cup AllRunConfigs
      \cup {CheckProvenance(e) : e \in WriterNames} \cup {ReadResults(b) : b \in BOOLEAN}
      \cup {Savefig(f, e) : f \in Seq(Artifacts), e \in {"draw", "quiet", "refuse"}}

\* The artifacts, by what they are drawn from.
ScalabilityArtifacts ==
    {"throughput_vs_nodes", "latency_vs_nodes", "throughput_vs_loss", "efficiency_vs_nodes",
     "table_summary_csv", "table_summary_tex", "commit_rate_vs_loss", "commit_rate_vs_nodes",
     "slots_per_decision"}
TopologyArtifacts ==
    {"thr_vs_topology", "lat_vs_topology", "energy_vs_topology", "efficiency_vs_topology",
     "table_topology_csv", "table_topology_tex"}
ProgressArtifacts ==
    {"progress_over_time", "progress_over_time_log", "progress_snapshots", "progress_README"}
StackedArtifacts ==
    {"stacked_bar_per_proposal_energy", "per_decision_energy", "distribution_stats",
     "integer_multiple_check"}
PaperArtifacts ==
    {"energy_per_proposal", "energy_summary", "fig_energy_boxplot", "fig_energy_mean_ci_ce",
     "fig_latency_vs_energy", "fig_energy_stacked"}
KdeArtifacts == {"pmf_awake_nodes", "duty_cycle_extremes"}
Lists == {ScalabilityFigures, EfficiencyFigures, SummaryFigures, TopologyFigures, ProgressFigures,
          ProgressLogFigures, StackedBarFigures, PaperEnergyFigures, KdeFigures,
          ProgressEvidence, SlotsEvidence, EnergyEvidence}

\* The lists of files, as sets.
LEMMA FileSets ==
    /\ ToSet(ScalabilityFigures) = {"throughput_vs_nodes", "latency_vs_nodes", "throughput_vs_loss"}
    /\ ToSet(EfficiencyFigures) = {"efficiency_vs_nodes"}
    /\ ToSet(SummaryFigures) = {"table_summary_csv", "table_summary_tex", "commit_rate_vs_loss",
                                "commit_rate_vs_nodes"}
    /\ ToSet(TopologyFigures) = TopologyArtifacts
    /\ ToSet(ProgressFigures) = {"progress_over_time"}
    /\ ToSet(ProgressLogFigures) = {"progress_over_time_log"}
    /\ ToSet(StackedBarFigures) = {"stacked_bar_per_proposal_energy"}
    /\ ToSet(PaperEnergyFigures) = PaperArtifacts
    /\ ToSet(KdeFigures) = KdeArtifacts
    /\ ToSet(ProgressEvidence) = {"progress_snapshots", "progress_README"}
    /\ ToSet(SlotsEvidence) = {"slots_per_decision"}
    /\ ToSet(EnergyEvidence) = {"per_decision_energy", "distribution_stats", "integer_multiple_check"}
<1>1. ToSet(ScalabilityFigures) = {"throughput_vs_nodes", "latency_vs_nodes", "throughput_vs_loss"}
  BY DEF ToSet, ScalabilityFigures
<1>2. ToSet(EfficiencyFigures) = {"efficiency_vs_nodes"}
  BY DEF ToSet, EfficiencyFigures
<1>3. ToSet(SummaryFigures) = {"table_summary_csv", "table_summary_tex", "commit_rate_vs_loss",
                                "commit_rate_vs_nodes"}
  BY DEF ToSet, SummaryFigures
<1>4. ToSet(TopologyFigures) = TopologyArtifacts
  BY DEF ToSet, TopologyFigures, TopologyArtifacts
<1>5. ToSet(ProgressFigures) = {"progress_over_time"}
  BY DEF ToSet, ProgressFigures
<1>6. ToSet(ProgressLogFigures) = {"progress_over_time_log"}
  BY DEF ToSet, ProgressLogFigures
<1>7. ToSet(StackedBarFigures) = {"stacked_bar_per_proposal_energy"}
  BY DEF ToSet, StackedBarFigures
<1>8. ToSet(PaperEnergyFigures) = PaperArtifacts
  BY DEF ToSet, PaperEnergyFigures, PaperArtifacts
<1>9. ToSet(KdeFigures) = KdeArtifacts
  BY DEF ToSet, KdeFigures, KdeArtifacts
<1>10. ToSet(ProgressEvidence) = {"progress_snapshots", "progress_README"}
  BY DEF ToSet, ProgressEvidence
<1>11. ToSet(SlotsEvidence) = {"slots_per_decision"}
  BY DEF ToSet, SlotsEvidence
<1>12. ToSet(EnergyEvidence) = {"per_decision_energy", "distribution_stats", "integer_multiple_check"}
  BY DEF ToSet, EnergyEvidence
<1> QED
  BY <1>1, <1>2, <1>3, <1>4, <1>5, <1>6, <1>7, <1>8, <1>9, <1>10, <1>11, <1>12

\* The artifacts are those of the six classes, and the figures are those of STEPS.
LEMMA ArtifactsAre ==
    /\ Figures = (ScalabilityArtifacts \ {"slots_per_decision"}) \cup TopologyArtifacts
         \cup {"progress_over_time", "progress_over_time_log", "stacked_bar_per_proposal_energy"}
         \cup PaperArtifacts \cup KdeArtifacts
    /\ Artifacts = ScalabilityArtifacts \cup TopologyArtifacts \cup ProgressArtifacts
         \cup StackedArtifacts \cup PaperArtifacts \cup KdeArtifacts
<1>1. ToSet(AllFigures) = ToSet(ScalabilityFigures) \cup ToSet(EfficiencyFigures)
         \cup ToSet(SummaryFigures) \cup ToSet(TopologyFigures) \cup ToSet(ProgressFigures)
         \cup ToSet(ProgressLogFigures) \cup ToSet(StackedBarFigures) \cup ToSet(PaperEnergyFigures)
         \cup ToSet(KdeFigures)
  BY DEF AllFigures, ToSet, ScalabilityFigures, EfficiencyFigures, SummaryFigures, TopologyFigures,
         ProgressFigures, ProgressLogFigures, StackedBarFigures, PaperEnergyFigures, KdeFigures
<1>2. Evidence = {"progress_snapshots", "progress_README", "slots_per_decision",
                  "per_decision_energy", "distribution_stats", "integer_multiple_check"}
  BY DEF Evidence, ToSet, ProgressEvidence, SlotsEvidence, EnergyEvidence
<1>3. Figures = (ScalabilityArtifacts \ {"slots_per_decision"}) \cup TopologyArtifacts
         \cup {"progress_over_time", "progress_over_time_log", "stacked_bar_per_proposal_energy"}
         \cup PaperArtifacts \cup KdeArtifacts
  <2>1. ScalabilityArtifacts \ {"slots_per_decision"} =
          {"throughput_vs_nodes", "latency_vs_nodes", "throughput_vs_loss", "efficiency_vs_nodes",
           "table_summary_csv", "table_summary_tex", "commit_rate_vs_loss", "commit_rate_vs_nodes"}
    BY DEF ScalabilityArtifacts
  <2> QED
    BY <1>1, <2>1, FileSets DEF Figures
<1>4. Artifacts = ScalabilityArtifacts \cup TopologyArtifacts \cup ProgressArtifacts
         \cup StackedArtifacts \cup PaperArtifacts \cup KdeArtifacts
  BY <1>2, <1>3 DEF Artifacts, ScalabilityArtifacts, ProgressArtifacts, StackedArtifacts
<1> QED
  BY <1>3, <1>4

\* No artifact is in two of the classes.
LEMMA ClassesAreDisjoint ==
    /\ ScalabilityArtifacts \cap (TopologyArtifacts \cup ProgressArtifacts \cup StackedArtifacts
         \cup PaperArtifacts \cup KdeArtifacts) = {}
    /\ TopologyArtifacts \cap (ProgressArtifacts \cup StackedArtifacts \cup PaperArtifacts
         \cup KdeArtifacts) = {}
    /\ ProgressArtifacts \cap (StackedArtifacts \cup PaperArtifacts \cup KdeArtifacts) = {}
    /\ StackedArtifacts \cap (PaperArtifacts \cup KdeArtifacts) = {}
    /\ PaperArtifacts \cap KdeArtifacts = {}
BY DEF ScalabilityArtifacts, TopologyArtifacts, ProgressArtifacts, StackedArtifacts, PaperArtifacts,
       KdeArtifacts

\* Every list of files is a list of artifacts that is not empty.
LEMMA ListsAre ==
    \A f \in Lists : f \in Seq(Artifacts) /\ Len(f) > 0 /\ ToSet(f) = {f[i] : i \in 1 .. Len(f)}
<1>1. \A f \in Lists : ToSet(f) \subseteq Artifacts
  BY FileSets, ArtifactsAre DEF Lists, ScalabilityArtifacts, ProgressArtifacts, StackedArtifacts
<1> DEFINE IsList(f) == DOMAIN f = 1 .. Len(f) /\ Len(f) \in Nat /\ Len(f) > 0
                        /\ f \in [1 .. Len(f) -> ToSet(f)]
<1>2. IsList(ScalabilityFigures) /\ IsList(EfficiencyFigures) /\ IsList(SummaryFigures)
  BY DEF ScalabilityFigures, EfficiencyFigures, SummaryFigures, ToSet
<1>3. IsList(TopologyFigures) /\ IsList(ProgressFigures) /\ IsList(ProgressLogFigures)
  BY DEF TopologyFigures, ProgressFigures, ProgressLogFigures, ToSet
<1>4. IsList(StackedBarFigures) /\ IsList(PaperEnergyFigures) /\ IsList(KdeFigures)
  BY DEF StackedBarFigures, PaperEnergyFigures, KdeFigures, ToSet
<1>5. IsList(ProgressEvidence) /\ IsList(SlotsEvidence) /\ IsList(EnergyEvidence)
  BY DEF ProgressEvidence, SlotsEvidence, EnergyEvidence, ToSet
<1>6. \A f \in Lists : IsList(f)
  BY <1>2, <1>3, <1>4, <1>5 DEF Lists
<1> SUFFICES ASSUME NEW f \in Lists
             PROVE  f \in Seq(Artifacts) /\ Len(f) > 0 /\ ToSet(f) = {f[i] : i \in 1 .. Len(f)}
  OBVIOUS
<1>7. f \in [1 .. Len(f) -> Artifacts] /\ Len(f) \in Nat /\ Len(f) > 0 /\ DOMAIN f = 1 .. Len(f)
  BY <1>1, <1>6
<1> QED
  BY <1>7 DEF ToSet

\* Two sequences one after the other.
LEMMA Joined ==
    ASSUME NEW X, NEW u \in Seq(X), NEW v \in Seq(X)
    PROVE  /\ u \o v \in Seq(X) /\ Len(u \o v) = Len(u) + Len(v)
           /\ \A i \in 1 .. Len(u) : (u \o v)[i] = u[i]
           /\ \A j \in 1 .. Len(v) : (u \o v)[Len(u) + j] = v[j]
<1>1. Len(u) \in Nat /\ Len(v) \in Nat
  BY LenProperties
<1> QED
  BY <1>1, ConcatProperties

----------------------------------------------------------------------------
(***************************************************************************)
(* Every program, step by step.                                            *)
(***************************************************************************)
\* The programs with no loop.
LEMMA ShortPrograms ==
    /\ Len(PlotScalability) = 3 /\ PlotScalability[1] = RunSweep("scalability")
    /\ PlotScalability[2] = ReadSweep("scalability")
    /\ PlotScalability[3] = Savefig(ScalabilityFigures, "draw")
    /\ Len(PlotEfficiency) = 2 /\ PlotEfficiency[1] = ReadSweep("scalability")
    /\ PlotEfficiency[2] = Savefig(EfficiencyFigures, "draw")
    /\ Len(PlotSummaryCommit) = 2 /\ PlotSummaryCommit[1] = ReadSweep("scalability")
    /\ PlotSummaryCommit[2] = Savefig(SummaryFigures, "draw")
    /\ Len(PlotTopology) = 3 /\ PlotTopology[1] = RunSweep("topology")
    /\ PlotTopology[2] = ReadSweep("topology") /\ PlotTopology[3] = Savefig(TopologyFigures, "draw")
    /\ Len(PlotPaperEnergy) = 3 /\ PlotPaperEnergy[1] = CheckProvenance("plot_stacked_bar.py")
    /\ PlotPaperEnergy[2] = ReadResults(TRUE)
    /\ PlotPaperEnergy[3] = Savefig(PaperEnergyFigures, "refuse")
    /\ Len(PlotKdeNoRun) = 3 /\ PlotKdeNoRun[1] = CheckProvenance("plot_kde_awake.py")
    /\ PlotKdeNoRun[2] = ReadResults(FALSE) /\ PlotKdeNoRun[3] = Savefig(KdeFigures, "draw")
BY DEF PlotScalability, PlotEfficiency, PlotSummaryCommit, PlotTopology, PlotPaperEnergy, PlotKdeNoRun

\* What the constructors build is a step.
LEMMA StepsAreSteps ==
    /\ \A csv \in Csvs : RunSweep(csv) \in AnyStep /\ ReadSweep(csv) \in AnyStep
    /\ AllRunConfigs \subseteq AnyStep
    /\ \A e \in WriterNames : CheckProvenance(e) \in AnyStep
    /\ \A b \in BOOLEAN : ReadResults(b) \in AnyStep
    /\ \A f \in Lists : \A e \in {"draw", "quiet", "refuse"} : Savefig(f, e) \in AnyStep
BY ListsAre DEF AnyStep

\* The programs with no loop are programs.
LEMMA ShortProgramsAreTyped ==
    /\ PlotScalability \in Seq(AnyStep) /\ PlotEfficiency \in Seq(AnyStep)
    /\ PlotSummaryCommit \in Seq(AnyStep) /\ PlotTopology \in Seq(AnyStep)
    /\ PlotPaperEnergy \in Seq(AnyStep) /\ PlotKdeNoRun \in Seq(AnyStep)
<1>1. "scalability" \in Csvs /\ "topology" \in Csvs /\ "plot_stacked_bar.py" \in WriterNames
      /\ "plot_kde_awake.py" \in WriterNames
  BY DEF Csvs, WriterNames
<1>2. \A x \in AnyStep, y \in AnyStep, z \in AnyStep : <<x, y>> \in Seq(AnyStep) /\ <<x, y, z>> \in Seq(AnyStep)
  OBVIOUS
<1>3. /\ RunSweep("scalability") \in AnyStep /\ ReadSweep("scalability") \in AnyStep
      /\ RunSweep("topology") \in AnyStep /\ ReadSweep("topology") \in AnyStep
      /\ CheckProvenance("plot_stacked_bar.py") \in AnyStep
      /\ CheckProvenance("plot_kde_awake.py") \in AnyStep
      /\ ReadResults(TRUE) \in AnyStep /\ ReadResults(FALSE) \in AnyStep
  BY <1>1, StepsAreSteps
<1>4. \A f \in Lists : Savefig(f, "draw") \in AnyStep /\ Savefig(f, "refuse") \in AnyStep
  BY StepsAreSteps
<1>5. ScalabilityFigures \in Lists /\ EfficiencyFigures \in Lists /\ SummaryFigures \in Lists
      /\ TopologyFigures \in Lists /\ PaperEnergyFigures \in Lists /\ KdeFigures \in Lists
  BY DEF Lists
<1> QED
  BY <1>2, <1>3, <1>4, <1>5
     DEF PlotScalability, PlotEfficiency, PlotSummaryCommit, PlotTopology, PlotPaperEnergy, PlotKdeNoRun
----------------------------------------------------------------------------
(***************************************************************************)
(* What the actions rely on in a program.                                  *)
(***************************************************************************)
\* The configuration of an output, of a run, and of the runs of a loop.
Conf(o) == <<o.toml, o.protocol, o.seed>>
ConfOf(step) == <<step.arg.toml, step.arg.protocol, step.arg.seed>>
Confs(toml, seeds) == {<<toml, p, s>> : p \in Protocol, s \in seeds}
\* The places before k of the runs whose output is still in the frame, and those that are the
\* last of their protocol.
Burst(P, k) == {i \in 1 .. k - 1 : \A j \in i .. k - 1 : P[j].op = "run_config"}
LastRun(P, k, i) ==
    /\ P[i].op = "run_config"
    /\ \A j \in i + 1 .. k - 1 :
         P[j].op = "run_config" => P[j].arg.protocol # P[i].arg.protocol
AllSettled(P, k, toml, seed) ==
    \A p \in Protocol : \E i \in 1 .. k - 1 : LastRun(P, k, i) /\ ConfOf(P[i]) = <<toml, p, seed>>

\* What a savefig step draws, and from what.
FromSweep(P, k, csv) == k > 1 /\ P[k-1].op = "read_sweep" /\ P[k-1].arg = csv
FromBurst(P, k, C) ==
    k > 1 /\ P[k-1].op = "run_config" /\ {ConfOf(P[i]) : i \in Burst(P, k)} = C
FromResults(P, k) == k > 1 /\ P[k-1].op = "read_results" /\ P[k-1].arg = TRUE
SavefigShape(s, P, k) ==
    LET F == ToSet(P[k].arg.files) IN
    \/ F \subseteq ScalabilityArtifacts /\ FromSweep(P, k, "scalability")
    \/ F \subseteq TopologyArtifacts /\ FromSweep(P, k, "topology")
    \/ /\ F \subseteq ProgressArtifacts
       /\ \/ FromBurst(P, k, Confs("progress", {RetiredSeed}))
          \/ FromResults(P, k) /\ AllSettled(P, k, "progress", RetiredSeed)
    \/ F \subseteq StackedArtifacts /\ FromBurst(P, k, Confs("per_prop", ToSet(Seeds)))
    \/ F \subseteq PaperArtifacts /\ FromResults(P, k) /\ s = "plot_paper_energy"
    \/ /\ F \subseteq KdeArtifacts
       /\ FromBurst(P, k, Confs("awake", {RetiredSeed})) \/ s = "plot_kde_no_run"

\* The scripts whose name check_provenance is asked for and the TOML they run, the scripts of
\* STEPS that read a sweep, and the place of the one that runs it.
Writers == [plot_stacked_bar |-> "plot_stacked_bar.py", plot_kde_awake |-> "plot_kde_awake.py"]
TomlOf == [plot_stacked_bar |-> "per_prop", plot_kde_awake |-> "awake"]
Readers(csv) == IF csv = "scalability" THEN {"plot_scalability", "plot_efficiency", "plot_summary_commit"}
                ELSE {"plot_topology"}
SweeperOf == [scalability |-> 1, topology |-> 4]

\* What a step of the program P of script s is like: where runs, sweeps and checks stand, what a
\* savefig is drawn from, and that a script of STEPS draws in its last step.
StepShape(s, P, k) ==
    /\ P[k].op \in Ops
    /\ P[k].op = "run_config" =>
         /\ k > 1 => P[k-1].op \in {"run_config", "savefig"}
         /\ s \in DOMAIN Writers => P[k].arg.writer = Writers[s] /\ P[k].arg.toml = TomlOf[s]
         /\ \A t \in DOMAIN Writers : t # s => P[k].arg.writer # Writers[t]
    /\ P[k].op \in {"sweep", "check_provenance"} => k = 1
    /\ P[k].op = "sweep" => P[k].arg \in Csvs /\ s = ScriptAt(SweeperOf[P[k].arg])
    /\ P[k].op = "read_sweep" => P[k].arg \in Csvs /\ (s \in AllSteps => s \in Readers(P[k].arg))
    /\ P[k].op = "read_results" => P[k].arg \in BOOLEAN
    /\ P[k].op = "check_provenance" =>
         s \notin DOMAIN Writers /\ P[k].arg \in {"plot_stacked_bar.py", "plot_kde_awake.py"}
    /\ P[k].op = "savefig" =>
         /\ SavefigShape(s, P, k) /\ P[k].arg.files \in Lists
         /\ P[k].arg.empty = "quiet" => s = "plot_stacked_bar"
         /\ s = "plot_stacked_bar" => Burst(P, k) = 1 .. k - 1
         /\ s = "plot_paper_energy" => P[k].arg.empty = "refuse" /\ FromResults(P, k)
    /\ s \in DOMAIN Writers => /\ P[k].op \in {"run_config", "savefig"}
                               /\ P[k].op = "savefig" => P[k].arg.empty # "refuse"
    /\ s \in AllSteps => (P[k].op = "savefig" <=> k = Len(P))
Shape(s, P) ==
    /\ P \in Seq(AnyStep) /\ Len(P) > 0
    /\ \A k \in 1 .. Len(P) : StepShape(s, P, k)
    /\ \A csv \in Csvs : s = ScriptAt(SweeperOf[csv]) => P[1].op = "sweep" /\ P[1].arg = csv
    /\ s \in DOMAIN Writers => \A p \in Protocol : \E k \in 1 .. Len(P) :
         P[k].op = "run_config" /\ P[k].arg.protocol = p
    /\ s = "plot_stacked_bar" => AllSettled(P, Len(P) + 1, "per_prop", LastSeed)

\* The tables of the two scripts that write PROVENANCE.txt for others, and of the sweeps.
LEMMA TablesAre ==
    /\ DOMAIN Writers = {"plot_stacked_bar", "plot_kde_awake"} /\ DOMAIN TomlOf = DOMAIN Writers
    /\ Writers["plot_stacked_bar"] = "plot_stacked_bar.py"
    /\ Writers["plot_kde_awake"] = "plot_kde_awake.py"
    /\ TomlOf["plot_stacked_bar"] = "per_prop" /\ TomlOf["plot_kde_awake"] = "awake"
    /\ Csvs = {"scalability", "topology"}
    /\ SweeperOf["scalability"] = 1 /\ SweeperOf["topology"] = 4
BY DEF Writers, TomlOf, SweeperOf, Csvs

\* A row of runs: every protocol at every one of the seeds, the last run of a protocol at the
\* seed "last".
RunsOf(writer, toml, seeds) == {RunConfig(writer, toml, p, s) : p \in Protocol, s \in seeds}
RunsAll(R, writer, toml, seeds, last) ==
    /\ R \in Seq(RunsOf(writer, toml, seeds)) /\ Len(R) > 0
    /\ \A x \in RunsOf(writer, toml, seeds) : \E i \in 1 .. Len(R) : R[i] = x
    /\ \A p \in Protocol : \E i \in 1 .. Len(R) :
         /\ R[i].arg.protocol = p /\ R[i].arg.seed = last
         /\ \A j \in i + 1 .. Len(R) : R[j].arg.protocol # p

\* The fields of a run of such a row.
LEMMA RunsOfFacts ==
    ASSUME NEW writer, NEW toml, NEW seeds, NEW x \in RunsOf(writer, toml, seeds)
    PROVE  /\ x.op = "run_config" /\ x.arg.writer = writer /\ x.arg.toml = toml
           /\ x.arg.protocol \in Protocol /\ x.arg.seed \in seeds
<1>1. PICK p \in Protocol, s \in seeds : x = RunConfig(writer, toml, p, s)
  BY DEF RunsOf
<1> QED
  BY <1>1, StepFields

\* The items of such a row.
LEMMA RowItems ==
    ASSUME NEW R, NEW writer, NEW toml, NEW seeds, NEW last, RunsAll(R, writer, toml, seeds, last)
    PROVE  /\ Len(R) \in Nat /\ Len(R) > 0
           /\ \A i \in 1 .. Len(R) :
                /\ R[i] \in RunsOf(writer, toml, seeds)
                /\ R[i].op = "run_config" /\ R[i].arg.writer = writer /\ R[i].arg.toml = toml
                /\ R[i].arg.protocol \in Protocol /\ R[i].arg.seed \in seeds
<1>1. R \in Seq(RunsOf(writer, toml, seeds)) /\ Len(R) \in Nat /\ Len(R) > 0
  BY LenProperties DEF RunsAll
<1>2. \A i \in 1 .. Len(R) : R[i] \in RunsOf(writer, toml, seeds)
  BY <1>1, ElementOfSeq
<1> QED
  BY <1>1, <1>2, RunsOfFacts

\* One run of each protocol is such a row.
LEMMA OneRunEachIsARow ==
    ASSUME NEW writer, NEW toml, NEW s
    PROVE  RunsAll(OneRunEach(writer, toml, s), writer, toml, {s}, s)
<1> DEFINE R == OneRunEach(writer, toml, s)
           Y == RunsOf(writer, toml, {s})
<1>1. /\ Len(R) = n /\ DOMAIN R = 1 .. n
      /\ \A i \in 1 .. n : R[i] = RunConfig(writer, toml, Protocols[i], s)
  BY OneRunEachFacts
<1>2. R \in Seq(Y)
  <2>1. {RunConfig(writer, toml, p, s) : p \in Protocol} = Y
    BY DEF RunsOf
  <2> QED
    BY <2>1, OneRunEachFacts
<1> HIDE DEF R
<1>3. \A x \in Y : \E i \in 1 .. Len(R) : R[i] = x
  <2> SUFFICES ASSUME NEW x \in Y
               PROVE  \E i \in 1 .. Len(R) : R[i] = x
    OBVIOUS
  <2>1. PICK p \in Protocol : x = RunConfig(writer, toml, p, s)
    BY DEF RunsOf
  <2>2. PICK i \in 1 .. n : p = Protocols[i]
    BY ConfigFacts
  <2> QED
    BY <1>1, <2>1, <2>2
<1>4. \A p \in Protocol : \E i \in 1 .. Len(R) :
         /\ R[i].arg.protocol = p /\ R[i].arg.seed = s
         /\ \A j \in i + 1 .. Len(R) : R[j].arg.protocol # p
  <2> SUFFICES ASSUME NEW p \in Protocol
               PROVE  \E i \in 1 .. Len(R) :
                         /\ R[i].arg.protocol = p /\ R[i].arg.seed = s
                         /\ \A j \in i + 1 .. Len(R) : R[j].arg.protocol # p
    OBVIOUS
  <2>1. PICK i \in 1 .. n : p = Protocols[i]
    BY ConfigFacts
  <2>2. \A j \in 1 .. n : R[j].arg.protocol = Protocols[j] /\ R[j].arg.seed = s
    BY <1>1, StepFields
  <2>3. \A j \in i + 1 .. n : j \in 1 .. n /\ j # i
    BY ConfigFacts
  <2>4. \A j \in i + 1 .. n : Protocols[j] # Protocols[i]
    BY <2>3, ConfigFacts
  <2> QED
    BY <1>1, <2>1, <2>2, <2>3, <2>4
<1>5. n > 0
  BY ConfigFacts
<1> HIDE DEF Y
<1>6. Len(R) > 0
  BY <1>1, <1>5
<1> QED
  BY <1>2, <1>3, <1>4, <1>6 DEF RunsAll, R, Y

\* So are the runs of plot_stacked_bar.py.
LEMMA PerProposalIsARow ==
    ASSUME NEW writer
    PROVE  RunsAll(PerProposalRuns(writer), writer, "per_prop", ToSet(Seeds), LastSeed)
<1> DEFINE R == PerProposalRuns(writer)
           Y == RunsOf(writer, "per_prop", ToSet(Seeds))
<1>1. AllRuns(writer) = Y
  BY DEF AllRuns, RunsOf
<1>2. R \in Seq(Y) /\ (\A x \in Y : \E i \in DOMAIN R : R[i] = x)
      /\ \A p \in Protocol : \E i \in DOMAIN R : SettlesAt(R, i, p)
  BY <1>1, PerProposalFacts
<1> HIDE DEF R, Y
<1>3. DOMAIN R = 1 .. Len(R) /\ Len(R) \in Nat
  BY <1>2, LenProperties
<1>4. Len(R) > 0
  <2>1. PICK p \in Protocol : TRUE
    BY ConfigFacts
  <2>2. PICK i \in DOMAIN R : SettlesAt(R, i, p)
    BY <1>2, <2>1
  <2> QED
    BY <1>3, <2>2
<1> QED
  BY <1>2, <1>3, <1>4 DEF RunsAll, SettlesAt, R, Y

\* A row in a program behind place a, and the place k right behind the row.
RowAt(P, a, k, R, writer, toml, seeds, last) ==
    /\ RunsAll(R, writer, toml, seeds, last)
    /\ a \in Nat /\ k = a + Len(R) + 1
    /\ \A i \in 1 .. Len(R) : P[a + i] = R[i]
    /\ a > 0 => P[a].op # "run_config"
\* Right behind a row the frame is to hold the outputs of that row and of nothing else.
LEMMA BehindARow ==
    ASSUME NEW P, NEW a, NEW k, NEW R, NEW writer, NEW toml, NEW seeds, NEW last,
           RowAt(P, a, k, R, writer, toml, seeds, last)
    PROVE  /\ Burst(P, k) = a + 1 .. k - 1
           /\ FromBurst(P, k, Confs(toml, seeds))
           /\ AllSettled(P, k, toml, last)
<1> DEFINE r == Len(R)
<1>0. /\ RunsAll(R, writer, toml, seeds, last) /\ a \in Nat /\ k = a + Len(R) + 1
      /\ \A i \in 1 .. Len(R) : P[a + i] = R[i]
      /\ a > 0 => P[a].op # "run_config"
  BY DEF RowAt
<1>1. r \in Nat /\ r > 0 /\ k \in Nat /\ k - 1 = a + r
  BY <1>0, RowItems
<1>2. \A j \in a + 1 .. k - 1 : j - a \in 1 .. r /\ a + (j - a) = j
  BY <1>0, <1>1
<1>3. \A j \in a + 1 .. k - 1 : P[j] = R[j - a]
  BY <1>0, <1>2
<1>4. \A j \in a + 1 .. k - 1 :
        /\ P[j].op = "run_config" /\ P[j].arg.toml = toml
        /\ P[j].arg.protocol \in Protocol /\ P[j].arg.seed \in seeds
  BY <1>0, <1>2, <1>3, RowItems
<1>5. Burst(P, k) = a + 1 .. k - 1
  <2>1. ASSUME NEW i \in 1 .. k - 1, \A j \in i .. k - 1 : P[j].op = "run_config"
        PROVE  i \in a + 1 .. k - 1
    <3>1. CASE i <= a
      <4>1. a \in i .. k - 1 /\ a > 0
        BY <1>0, <1>1, <3>1
      <4> QED
        BY <1>0, <2>1, <4>1
    <3> QED
      BY <1>0, <1>1, <3>1
  <2>2. ASSUME NEW i \in a + 1 .. k - 1
        PROVE  i \in 1 .. k - 1 /\ \A j \in i .. k - 1 : P[j].op = "run_config"
    <3>1. i \in 1 .. k - 1 /\ \A j \in i .. k - 1 : j \in a + 1 .. k - 1
      BY <1>0, <1>1
    <3> QED
      BY <1>4, <3>1
  <2> QED
    BY <2>1, <2>2 DEF Burst
<1>6. {ConfOf(P[i]) : i \in a + 1 .. k - 1} = Confs(toml, seeds)
  <2>1. ASSUME NEW i \in a + 1 .. k - 1
        PROVE  ConfOf(P[i]) \in Confs(toml, seeds)
    BY <1>4 DEF ConfOf, Confs
  <2>2. ASSUME NEW p \in Protocol, NEW s \in seeds
        PROVE  \E i \in a + 1 .. k - 1 : ConfOf(P[i]) = <<toml, p, s>>
    <3>1. RunConfig(writer, toml, p, s) \in RunsOf(writer, toml, seeds)
      BY DEF RunsOf
    <3>2. PICK i \in 1 .. r : R[i] = RunConfig(writer, toml, p, s)
      BY <1>0, <3>1 DEF RunsAll
    <3>3. a + i \in a + 1 .. k - 1 /\ P[a + i] = R[i]
      BY <1>0, <1>1
    <3>4. ConfOf(P[a+i]) = <<toml, p, s>>
      BY <3>2, <3>3, StepFields DEF ConfOf
    <3> QED
      BY <3>3, <3>4
  <2>3. Confs(toml, seeds) \subseteq {ConfOf(P[i]) : i \in a + 1 .. k - 1}
    <3> SUFFICES ASSUME NEW x \in Confs(toml, seeds)
                 PROVE  \E i \in a + 1 .. k - 1 : ConfOf(P[i]) = x
      OBVIOUS
    <3>1. PICK p \in Protocol, s \in seeds : x = <<toml, p, s>>
      BY DEF Confs
    <3> QED
      BY <2>2, <3>1
  <2> QED
    BY <2>1, <2>3
<1>7. FromBurst(P, k, Confs(toml, seeds))
  <2>1. k > 1 /\ k - 1 \in a + 1 .. k - 1
    BY <1>0, <1>1
  <2> QED
    BY <1>4, <1>5, <1>6, <2>1 DEF FromBurst
<1>8. AllSettled(P, k, toml, last)
  <2> SUFFICES ASSUME NEW p \in Protocol
               PROVE  \E i \in 1 .. k - 1 : LastRun(P, k, i) /\ ConfOf(P[i]) = <<toml, p, last>>
    BY DEF AllSettled
  <2>1. PICK i \in 1 .. r : /\ R[i].arg.protocol = p /\ R[i].arg.seed = last
                            /\ \A j \in i + 1 .. r : R[j].arg.protocol # p
    BY <1>0 DEF RunsAll
  <2>2. a + i \in a + 1 .. k - 1 /\ a + i \in 1 .. k - 1 /\ P[a + i] = R[i]
    BY <1>0, <1>1
  <2>3. \A j \in a + i + 1 .. k - 1 : P[j].arg.protocol # p
    <3> SUFFICES ASSUME NEW j \in a + i + 1 .. k - 1
                 PROVE  P[j].arg.protocol # p
      OBVIOUS
    <3>1. j \in a + 1 .. k - 1 /\ j - a \in i + 1 .. r
      BY <1>0, <1>1
    <3> QED
      BY <1>3, <2>1, <3>1
  <2>4. P[a+i].op = "run_config" /\ P[a+i].arg.toml = toml /\ P[a+i].arg.protocol = p /\ P[a+i].arg.seed = last
    BY <1>4, <2>1, <2>2
  <2>5. LastRun(P, k, a + i)
    BY <2>3, <2>4 DEF LastRun
  <2> QED
    BY <2>2, <2>4, <2>5 DEF ConfOf
<1> QED
  BY <1>5, <1>7, <1>8

\* Steps that run nothing leave the last runs the last.
LEMMA StillSettled ==
    ASSUME NEW P, NEW k \in Nat, NEW m \in Nat, k <= m, NEW toml, NEW seed,
           \A j \in k .. m - 1 : P[j].op # "run_config", AllSettled(P, k, toml, seed)
    PROVE  AllSettled(P, m, toml, seed)
<1> SUFFICES ASSUME NEW p \in Protocol
             PROVE  \E i \in 1 .. m - 1 : LastRun(P, m, i) /\ ConfOf(P[i]) = <<toml, p, seed>>
  BY DEF AllSettled
<1>1. PICK i \in 1 .. k - 1 : LastRun(P, k, i) /\ ConfOf(P[i]) = <<toml, p, seed>>
  BY DEF AllSettled
<1>2. i \in 1 .. m - 1 /\ \A j \in i + 1 .. m - 1 : j \in i + 1 .. k - 1 \/ j \in k .. m - 1
  OBVIOUS
<1>3. LastRun(P, m, i)
  BY <1>1, <1>2 DEF LastRun
<1> QED
  BY <1>1, <1>2, <1>3

\* The two scripts that may run a sweep.
LEMMA SweepersAre ==
    ScriptAt(SweeperOf["scalability"]) = "plot_scalability" /\ ScriptAt(SweeperOf["topology"]) = "plot_topology"
BY TablesAre, StepsTable

\* A program that runs a sweep, reads it and draws from it has the shape.
LEMMA SweepingShape ==
    ASSUME NEW s, NEW csv, NEW f, NEW C, NEW P,
           \/ csv = "scalability" /\ s = "plot_scalability" /\ C = ScalabilityArtifacts
           \/ csv = "topology" /\ s = "plot_topology" /\ C = TopologyArtifacts,
           P \in Seq(AnyStep), Len(P) = 3, P[1] = RunSweep(csv), P[2] = ReadSweep(csv), P[3] = Savefig(f, "draw"),
           f \in Lists, ToSet(f) \subseteq C
    PROVE  Shape(s, P)
<1>1. /\ P[1].op = "sweep" /\ P[1].arg = csv /\ P[2].op = "read_sweep" /\ P[2].arg = csv
      /\ P[3].op = "savefig" /\ P[3].arg.files = f /\ P[3].arg.empty = "draw"
  BY StepFields
<1>2. s \notin DOMAIN Writers /\ s \in AllSteps /\ csv \in Csvs /\ s = ScriptAt(SweeperOf[csv])
      /\ s # "plot_stacked_bar" /\ s # "plot_paper_energy"
  BY TablesAre, ScriptsAre, SweepersAre
<1>3. SavefigShape(s, P, 3)
  BY <1>1 DEF SavefigShape, FromSweep
<1>4. StepShape(s, P, 1)
  BY <1>1, <1>2 DEF StepShape, Ops, Readers
<1>5. StepShape(s, P, 2)
  BY <1>1, <1>2 DEF StepShape, Ops, Readers
<1>6. StepShape(s, P, 3)
  BY <1>1, <1>2, <1>3 DEF StepShape, Ops
<1>7. \A k \in 1 .. Len(P) : StepShape(s, P, k)
  BY <1>4, <1>5, <1>6
<1>8. \A c \in Csvs : s = ScriptAt(SweeperOf[c]) => P[1].op = "sweep" /\ P[1].arg = c
  BY <1>1, TablesAre, SweepersAre
<1> QED
  BY <1>2, <1>7, <1>8 DEF Shape

\* A program that only reads a sweep and draws from it has the shape.
LEMMA ReadingShape ==
    ASSUME NEW s \in {"plot_efficiency", "plot_summary_commit"}, NEW f, NEW P,
           P \in Seq(AnyStep), Len(P) = 2, P[1] = ReadSweep("scalability"), P[2] = Savefig(f, "draw"),
           f \in Lists, ToSet(f) \subseteq ScalabilityArtifacts
    PROVE  Shape(s, P)
<1>1. /\ P[1].op = "read_sweep" /\ P[1].arg = "scalability"
      /\ P[2].op = "savefig" /\ P[2].arg.files = f /\ P[2].arg.empty = "draw"
  BY StepFields
<1>2. s \notin DOMAIN Writers /\ s \in AllSteps /\ "scalability" \in Csvs
      /\ s # "plot_stacked_bar" /\ s # "plot_paper_energy" /\ \A c \in Csvs : s # ScriptAt(SweeperOf[c])
  BY TablesAre, ScriptsAre, SweepersAre
<1>3. SavefigShape(s, P, 2)
  BY <1>1 DEF SavefigShape, FromSweep
<1>4. StepShape(s, P, 1)
  BY <1>1, <1>2 DEF StepShape, Ops, Readers
<1>5. StepShape(s, P, 2)
  BY <1>1, <1>2, <1>3 DEF StepShape, Ops
<1>6. \A k \in 1 .. Len(P) : StepShape(s, P, k)
  BY <1>4, <1>5
<1> QED
  BY <1>2, <1>6 DEF Shape

\* A program that draws from what another script has left has the shape.
LEMMA LeftoversShape ==
    ASSUME NEW s, NEW e, NEW b \in BOOLEAN, NEW f, NEW empty, NEW P,
           \/ s = "plot_paper_energy" /\ e = "plot_stacked_bar.py" /\ b = TRUE
                /\ f = PaperEnergyFigures /\ empty = "refuse"
           \/ s = "plot_kde_no_run" /\ e = "plot_kde_awake.py" /\ b = FALSE
                /\ f = KdeFigures /\ empty = "draw",
           P \in Seq(AnyStep), Len(P) = 3, P[1] = CheckProvenance(e), P[2] = ReadResults(b), P[3] = Savefig(f, empty)
    PROVE  Shape(s, P)
<1>1. /\ P[1].op = "check_provenance" /\ P[1].arg = e /\ P[2].op = "read_results" /\ P[2].arg = b
      /\ P[3].op = "savefig" /\ P[3].arg.files = f /\ P[3].arg.empty = empty
  BY StepFields
<1>2. s \notin DOMAIN Writers /\ f \in Lists /\ s # "plot_stacked_bar" /\ empty # "quiet"
      /\ e \in {"plot_stacked_bar.py", "plot_kde_awake.py"} /\ \A c \in Csvs : s # ScriptAt(SweeperOf[c])
  BY TablesAre, SweepersAre DEF Lists
<1>3. s = "plot_paper_energy" => empty = "refuse" /\ FromResults(P, 3)
  <2> SUFFICES ASSUME s = "plot_paper_energy"
               PROVE  empty = "refuse" /\ FromResults(P, 3)
    OBVIOUS
  <2>1. empty = "refuse" /\ b = TRUE
    OBVIOUS
  <2>2. 3 > 1 /\ 3 - 1 = 2 /\ P[2].arg = TRUE
    BY <1>1, <2>1
  <2>3. FromResults(P, 3)
    BY <1>1, <2>2 DEF FromResults
  <2> QED
    BY <2>1, <2>3
<1>4. SavefigShape(s, P, 3)
  BY <1>1, <1>3, FileSets DEF SavefigShape
<1>5. StepShape(s, P, 1)
  BY <1>1, <1>2 DEF StepShape, Ops
<1>6. StepShape(s, P, 2)
  BY <1>1, <1>2 DEF StepShape, Ops
<1>7. StepShape(s, P, 3)
  BY <1>1, <1>2, <1>3, <1>4 DEF StepShape, Ops
<1>8. \A k \in 1 .. Len(P) : StepShape(s, P, k)
  BY <1>5, <1>6, <1>7
<1> QED
  BY <1>2, <1>8 DEF Shape

\* A program that runs a row and draws from it has the shape.
LEMMA DrawingShape ==
    ASSUME NEW s, NEW R, NEW toml, NEW seeds \in SUBSET Nat, NEW last, NEW writer, NEW f, NEW empty, NEW P,
           RunsAll(R, writer, toml, seeds, last),
           \/ s = "plot_progress" /\ writer = "plot_progress.py" /\ toml = "progress"
                /\ f = ProgressFigures /\ empty = "draw" /\ seeds = {RetiredSeed}
           \/ s = "plot_progress_log" /\ writer = "plot_progress_log.py" /\ toml = "progress"
                /\ f = ProgressLogFigures /\ empty = "draw" /\ seeds = {RetiredSeed}
           \/ s = "plot_stacked_bar" /\ writer = "plot_stacked_bar.py" /\ toml = "per_prop"
                /\ f = StackedBarFigures /\ empty = "quiet" /\ seeds = ToSet(Seeds) /\ last = LastSeed
           \/ s = "plot_kde_awake" /\ writer = "plot_kde_awake.py" /\ toml = "awake"
                /\ f = KdeFigures /\ empty = "draw" /\ seeds = {RetiredSeed},
           P = Append(R, Savefig(f, empty))
    PROVE  Shape(s, P)
<1> DEFINE r == Len(R)
           X == RunsOf(writer, toml, seeds)
<1>1. r \in Nat /\ r > 0 /\ R \in Seq(X)
  BY RowItems DEF RunsAll
<1>2. X \subseteq AnyStep
  <2>1. writer \in WriterNames /\ toml \in Tomls
    BY DEF WriterNames, Tomls
  <2> QED
    BY <2>1, StepsAreSteps DEF RunsOf, AllRunConfigs
<1>3. f \in Lists /\ Savefig(f, empty) \in AnyStep
  BY StepsAreSteps DEF Lists
<1>4. P \in Seq(AnyStep) /\ Len(P) = r + 1 /\ P[r+1] = Savefig(f, empty) /\ \A i \in 1 .. r : P[i] = R[i]
  <2> DEFINE x == Savefig(f, empty)
  <2> HIDE DEF x, X
  <2>1. R \in Seq(AnyStep) /\ x \in AnyStep /\ P = Append(R, x)
    BY <1>1, <1>2, <1>3, SeqMonotonic DEF x
  <2> QED
    BY <1>1, <2>1 DEF x
<1> HIDE DEF X
<1>5. /\ P[r+1].op = "savefig" /\ P[r+1].arg.files = f /\ P[r+1].arg.empty = empty
  BY <1>4, StepFields
<1>6. \A i \in 1 .. r : /\ P[i].op = "run_config" /\ P[i].arg.writer = writer /\ P[i].arg.toml = toml
                       /\ P[i].arg.protocol \in Protocol
  BY <1>4, RowItems
<1>7. /\ Burst(P, r+1) = 1 .. r /\ FromBurst(P, r+1, Confs(toml, seeds)) /\ AllSettled(P, r+1, toml, last)
  <2> DEFINE a == 0
             k == r + 1
  <2>1. /\ Burst(P, k) = a + 1 .. k - 1 /\ FromBurst(P, k, Confs(toml, seeds))
        /\ AllSettled(P, k, toml, last)
    <3>1. \A i \in 1 .. Len(R) : P[a + i] = R[i]
      BY <1>4
    <3>2. k = a + Len(R) + 1 /\ a \in Nat /\ ~(a > 0)
      BY <1>1
    <3>3. RowAt(P, a, k, R, writer, toml, seeds, last)
      BY <3>1, <3>2 DEF RowAt
    <3> HIDE DEF r, a, k
    <3> QED
      BY <3>3, BehindARow
  <2> QED
    BY <1>1, <2>1
<1>8. s \in AllSteps /\ (\A c \in Csvs : s # ScriptAt(SweeperOf[c])) /\ s # "plot_paper_energy"
  BY TablesAre, ScriptsAre, SweepersAre
<1>9. s \in DOMAIN Writers => writer = Writers[s] /\ toml = TomlOf[s] /\ empty # "refuse"
  BY TablesAre
<1>10. \A t \in DOMAIN Writers : t # s => writer # Writers[t]
  BY TablesAre
<1>11. ASSUME NEW k \in 1 .. r
       PROVE  StepShape(s, P, k)
  <2>1. k > 1 => k - 1 \in 1 .. r
    BY <1>1
  <2>2. P[k].op = "run_config" /\ (k > 1 => P[k-1].op = "run_config") /\ k # Len(P)
    BY <1>1, <1>4, <1>6, <2>1
  <2> QED
    BY <1>6, <1>8, <1>9, <1>10, <2>2 DEF StepShape, Ops
<1>12. SavefigShape(s, P, r+1)
  <2>1. ToSet(f) \subseteq ProgressArtifacts \/ ToSet(f) \subseteq StackedArtifacts \/ ToSet(f) \subseteq KdeArtifacts
    BY FileSets DEF ProgressArtifacts, StackedArtifacts
  <2>2. CASE s = "plot_progress" \/ s = "plot_progress_log"
    <3>1. ToSet(f) \subseteq ProgressArtifacts /\ toml = "progress" /\ seeds = {RetiredSeed}
      BY <2>2, FileSets DEF ProgressArtifacts
    <3> QED
      BY <1>5, <1>7, <3>1 DEF SavefigShape
  <2>3. CASE s = "plot_stacked_bar"
    <3>1. ToSet(f) \subseteq StackedArtifacts /\ toml = "per_prop" /\ seeds = ToSet(Seeds)
      BY <2>3, FileSets DEF StackedArtifacts
    <3> QED
      BY <1>5, <1>7, <3>1 DEF SavefigShape
  <2>4. CASE s = "plot_kde_awake"
    <3>1. ToSet(f) \subseteq KdeArtifacts /\ toml = "awake" /\ seeds = {RetiredSeed}
      BY <2>4, FileSets
    <3> QED
      BY <1>5, <1>7, <3>1 DEF SavefigShape
  <2> QED
    BY <2>2, <2>3, <2>4
<1>13. StepShape(s, P, r+1)
  <2>1. empty = "quiet" => s = "plot_stacked_bar"
    OBVIOUS
  <2>2. Burst(P, r+1) = 1 .. (r+1) - 1
    BY <1>1, <1>7
  <2> QED
    BY <1>3, <1>4, <1>5, <1>8, <1>9, <1>12, <2>1, <2>2 DEF StepShape, Ops
<1>14. \A k \in 1 .. Len(P) : StepShape(s, P, k)
  BY <1>1, <1>4, <1>11, <1>13
<1>15. \A p \in Protocol : \E k \in 1 .. Len(P) : P[k].op = "run_config" /\ P[k].arg.protocol = p
  <2> SUFFICES ASSUME NEW p \in Protocol
               PROVE  \E k \in 1 .. Len(P) : P[k].op = "run_config" /\ P[k].arg.protocol = p
    OBVIOUS
  <2>1. PICK i \in 1 .. r : R[i].arg.protocol = p
    BY DEF RunsAll
  <2>2. i \in 1 .. Len(P) /\ P[i] = R[i]
    BY <1>1, <1>4
  <2> QED
    BY <1>6, <2>1, <2>2
<1>16. s = "plot_stacked_bar" => AllSettled(P, Len(P) + 1, "per_prop", LastSeed)
  <2> SUFFICES ASSUME s = "plot_stacked_bar"
               PROVE  AllSettled(P, Len(P) + 1, "per_prop", LastSeed)
    OBVIOUS
  <2>1. toml = "per_prop" /\ last = LastSeed
    OBVIOUS
  <2>2. \A j \in r + 1 .. (Len(P) + 1) - 1 : P[j].op # "run_config"
    BY <1>1, <1>4, <1>5
  <2>3. r + 1 \in Nat /\ Len(P) + 1 \in Nat /\ r + 1 <= Len(P) + 1
    BY <1>1, <1>4
  <2> HIDE DEF r
  <2> QED
    BY <1>7, <2>1, <2>2, <2>3, StillSettled
<1>17. Len(P) > 0
  BY <1>1, <1>4
<1> QED
  BY <1>4, <1>8, <1>14, <1>15, <1>16, <1>17 DEF Shape

\* A row of runs is a program.
LEMMA RowsAreTyped ==
    ASSUME NEW R, NEW writer \in WriterNames, NEW toml \in Tomls, NEW seeds \in SUBSET Nat, NEW last,
           RunsAll(R, writer, toml, seeds, last)
    PROVE  R \in Seq(AnyStep)
<1>1. RunsOf(writer, toml, seeds) \subseteq AnyStep
  BY StepsAreSteps DEF RunsOf, AllRunConfigs
<1>2. R \in Seq(RunsOf(writer, toml, seeds))
  BY DEF RunsAll
<1> QED
  BY <1>1, <1>2, SeqMonotonic

\* The program of audit_sources_210b.py, item by item.
LEMMA AuditItems ==
    LET R1 == OneRunEach("plot_progress.py", "progress", RetiredSeed)
        R2 == OneRunEach("plot_progress_log.py", "progress", RetiredSeed)
        R3 == PerProposalRuns("audit_sources_210b.py")
        r == Len(R3)
        A == AuditSources
    IN     /\ A \in Seq(AnyStep) /\ Len(A) = 2 * n + 7 + r
           /\ \A i \in 1 .. n : A[i] = R1[i] /\ A[(n + 1) + i] = R2[i]
           /\ A[n + 1] = Savefig(ProgressFigures, "draw")
           /\ A[2 * n + 2] = Savefig(ProgressLogFigures, "draw")
           /\ A[2 * n + 3] = ReadResults(TRUE) /\ A[2 * n + 4] = Savefig(ProgressEvidence, "draw")
           /\ A[2 * n + 5] = ReadSweep("scalability") /\ A[2 * n + 6] = Savefig(SlotsEvidence, "draw")
           /\ \A i \in 1 .. r : A[(2 * n + 6) + i] = R3[i]
           /\ A[2 * n + 7 + r] = Savefig(EnergyEvidence, "refuse")
<1> DEFINE R1 == OneRunEach("plot_progress.py", "progress", RetiredSeed)
           R2 == OneRunEach("plot_progress_log.py", "progress", RetiredSeed)
           R3 == PerProposalRuns("audit_sources_210b.py")
           r == Len(R3)
           A == AuditSources
<1> DEFINE x1 == Savefig(ProgressFigures, "draw")
           x2 == Savefig(ProgressLogFigures, "draw")
           m1 == ReadResults(TRUE)
           m2 == Savefig(ProgressEvidence, "draw")
           m3 == ReadSweep("scalability")
           m4 == Savefig(SlotsEvidence, "draw")
           x3 == Savefig(EnergyEvidence, "refuse")
           p1 == Append(R1, x1)
           p2 == Append(R2, x2)
           M == <<m1, m2, m3, m4>>
           E == <<x3>>
           T == AnyStep
<1>1. n \in Nat /\ n > 0 /\ Len(R1) = n /\ Len(R2) = n
  BY ConfigFacts, OneRunEachFacts
<1>2. /\ RunsAll(R1, "plot_progress.py", "progress", {RetiredSeed}, RetiredSeed)
      /\ RunsAll(R2, "plot_progress_log.py", "progress", {RetiredSeed}, RetiredSeed)
      /\ RunsAll(R3, "audit_sources_210b.py", "per_prop", ToSet(Seeds), LastSeed)
  BY OneRunEachIsARow, PerProposalIsARow
<1>3. r \in Nat
  BY <1>2, RowItems
<1>4. R1 \in Seq(T) /\ R2 \in Seq(T) /\ R3 \in Seq(T)
  <2>1. /\ "plot_progress.py" \in WriterNames /\ "plot_progress_log.py" \in WriterNames
        /\ "audit_sources_210b.py" \in WriterNames /\ "progress" \in Tomls /\ "per_prop" \in Tomls
    BY DEF WriterNames, Tomls
  <2>2. {RetiredSeed} \in SUBSET Nat /\ ToSet(Seeds) \in SUBSET Nat
    BY ConfigFacts DEF RetiredSeed
  <2> HIDE DEF T
  <2>3. R1 \in Seq(AnyStep)
    BY <1>2, <2>1, <2>2, RowsAreTyped
  <2>4. R2 \in Seq(AnyStep)
    BY <1>2, <2>1, <2>2, RowsAreTyped
  <2>5. R3 \in Seq(AnyStep)
    BY <1>2, <2>1, <2>2, RowsAreTyped
  <2> QED
    BY <2>3, <2>4, <2>5 DEF T
<1>5. x1 \in T /\ x2 \in T /\ m1 \in T /\ m2 \in T /\ m3 \in T /\ m4 \in T /\ x3 \in T
  <2>1. /\ ProgressFigures \in Lists /\ ProgressLogFigures \in Lists /\ ProgressEvidence \in Lists
        /\ SlotsEvidence \in Lists /\ EnergyEvidence \in Lists /\ "scalability" \in Csvs
    BY DEF Lists, Csvs
  <2> QED
    BY <2>1, StepsAreSteps
<1>6. A = (((p1 \o p2) \o M) \o R3) \o E
  BY DEF AuditSources, PlotProgress, PlotProgressLog
<1> HIDE DEF R1, R2, R3, r, A
<1> HIDE DEF x1, x2, m1, m2, m3, m4, x3, T
<1>7. M \in Seq(T) /\ E \in Seq(T) /\ Len(M) = 4 /\ Len(E) = 1 /\ M[1] = m1 /\ M[2] = m2 /\ M[3] = m3
      /\ M[4] = m4 /\ E[1] = x3
  BY <1>5
<1>8. /\ p1 \in Seq(T) /\ Len(p1) = n + 1 /\ p1[n+1] = x1 /\ \A i \in 1 .. n : p1[i] = R1[i]
      /\ p2 \in Seq(T) /\ Len(p2) = n + 1 /\ p2[n+1] = x2 /\ \A i \in 1 .. n : p2[i] = R2[i]
  BY <1>1, <1>4, <1>5
<1> HIDE DEF p1, p2, M, E
<1> DEFINE u1 == p1 \o p2
           u2 == u1 \o M
           u3 == u2 \o R3
<1>9. /\ u1 \in Seq(T) /\ Len(u1) = 2 * n + 2
      /\ \A i \in 1 .. n : u1[i] = R1[i] /\ u1[(n + 1) + i] = R2[i]
      /\ u1[n + 1] = x1 /\ u1[2 * n + 2] = x2
  <2>9. p1 \in Seq(T) /\ p2 \in Seq(T)
    BY <1>8
  <2>1. /\ u1 \in Seq(T) /\ Len(u1) = Len(p1) + Len(p2)
        /\ \A i \in 1 .. Len(p1) : u1[i] = p1[i]
        /\ \A j \in 1 .. Len(p2) : u1[Len(p1) + j] = p2[j]
    BY <2>9, Joined
  <2> HIDE DEF u1
  <2>2. \A i \in 1 .. n : u1[i] = p1[i] /\ u1[(n + 1) + i] = p2[i]
    <3> SUFFICES ASSUME NEW i \in 1 .. n
                 PROVE  u1[i] = p1[i] /\ u1[(n + 1) + i] = p2[i]
      OBVIOUS
    <3>1. i \in 1 .. Len(p1) /\ i \in 1 .. Len(p2)
      BY <1>1, <1>8
    <3>2. u1[i] = p1[i] /\ u1[Len(p1) + i] = p2[i]
      BY <2>1, <3>1
    <3> QED
      BY <1>8, <3>2
  <2>3. n + 1 \in 1 .. n + 1 /\ (n + 1) + (n + 1) = 2 * n + 2
    BY <1>1
  <2>4. u1[n+1] = p1[n+1] /\ u1[(n+1) + (n+1)] = p2[n+1]
    BY <1>8, <2>1, <2>3
  <2> QED
    BY <1>8, <2>1, <2>2, <2>3, <2>4
<1> HIDE DEF u1
<1>10. /\ u2 \in Seq(T) /\ Len(u2) = 2 * n + 6
       /\ \A i \in 1 .. 2 * n + 2 : u2[i] = u1[i]
       /\ u2[2 * n + 3] = m1 /\ u2[2 * n + 4] = m2 /\ u2[2 * n + 5] = m3 /\ u2[2 * n + 6] = m4
  <2>9. u1 \in Seq(T) /\ M \in Seq(T)
    BY <1>7, <1>9
  <2>1. /\ u2 \in Seq(T) /\ Len(u2) = Len(u1) + Len(M)
        /\ \A i \in 1 .. Len(u1) : u2[i] = u1[i]
        /\ \A j \in 1 .. Len(M) : u2[Len(u1) + j] = M[j]
    BY <2>9, Joined
  <2> HIDE DEF u2
  <2>2. \A j \in 1 .. 4 : u2[(2 * n + 2) + j] = M[j]
    BY <1>7, <1>9, <2>1
  <2>3. u2[(2 * n + 2) + 1] = m1 /\ u2[(2 * n + 2) + 2] = m2 /\ u2[(2 * n + 2) + 3] = m3 /\ u2[(2 * n + 2) + 4] = m4
    BY <1>7, <2>2
  <2>4. /\ (2 * n + 2) + 1 = 2 * n + 3 /\ (2 * n + 2) + 2 = 2 * n + 4 /\ (2 * n + 2) + 3 = 2 * n + 5
        /\ (2 * n + 2) + 4 = 2 * n + 6
    BY <1>1
  <2> QED
    BY <1>7, <1>9, <2>1, <2>3, <2>4
<1> HIDE DEF u2
<1>11. /\ u3 \in Seq(T) /\ Len(u3) = 2 * n + 6 + r
       /\ \A i \in 1 .. 2 * n + 6 : u3[i] = u2[i]
       /\ \A i \in 1 .. r : u3[(2 * n + 6) + i] = R3[i]
  <2>9. u2 \in Seq(T) /\ R3 \in Seq(T)
    BY <1>4, <1>10
  <2>1. /\ u3 \in Seq(T) /\ Len(u3) = Len(u2) + Len(R3)
        /\ \A i \in 1 .. Len(u2) : u3[i] = u2[i]
        /\ \A j \in 1 .. Len(R3) : u3[Len(u2) + j] = R3[j]
    BY <2>9, Joined
  <2> HIDE DEF u3
  <2> QED
    BY <1>3, <1>10, <2>1 DEF r
<1> HIDE DEF u3
<1>12. /\ A \in Seq(T) /\ Len(A) = 2 * n + 7 + r
       /\ \A i \in 1 .. 2 * n + 6 + r : A[i] = u3[i]
       /\ A[2 * n + 7 + r] = x3
  <2>0. A = u3 \o E
    BY <1>6 DEF u1, u2, u3
  <2>9. u3 \in Seq(T) /\ E \in Seq(T)
    BY <1>7, <1>11
  <2>1. /\ A \in Seq(T) /\ Len(A) = Len(u3) + Len(E)
        /\ \A i \in 1 .. Len(u3) : A[i] = u3[i]
        /\ \A j \in 1 .. Len(E) : A[Len(u3) + j] = E[j]
    BY <2>0, <2>9, Joined
  <2>2. A[(2 * n + 6 + r) + 1] = E[1] /\ (2 * n + 6 + r) + 1 = 2 * n + 7 + r
    BY <1>1, <1>3, <1>7, <1>11, <2>1
  <2> QED
    BY <1>7, <1>11, <2>1, <2>2
<1>13. \A i \in 1 .. 2 * n + 2 : A[i] = u1[i]
  <2> SUFFICES ASSUME NEW i \in 1 .. 2 * n + 2
               PROVE  A[i] = u1[i]
    OBVIOUS
  <2>1. i \in 1 .. 2 * n + 6 /\ i \in 1 .. 2 * n + 6 + r
    BY <1>1, <1>3
  <2> QED
    BY <1>10, <1>11, <1>12, <2>1
<1>14. \A i \in 1 .. n : A[i] = R1[i] /\ A[(n + 1) + i] = R2[i]
  <2> SUFFICES ASSUME NEW i \in 1 .. n
               PROVE  A[i] = R1[i] /\ A[(n + 1) + i] = R2[i]
    OBVIOUS
  <2>1. i \in 1 .. 2 * n + 2 /\ (n + 1) + i \in 1 .. 2 * n + 2
    BY <1>1
  <2> QED
    BY <1>9, <1>13, <2>1
<1>15. A[n + 1] = x1 /\ A[2 * n + 2] = x2
  <2>1. n + 1 \in 1 .. 2 * n + 2 /\ 2 * n + 2 \in 1 .. 2 * n + 2
    BY <1>1
  <2> QED
    BY <1>9, <1>13, <2>1
<1>16. A[2 * n + 3] = m1 /\ A[2 * n + 4] = m2 /\ A[2 * n + 5] = m3 /\ A[2 * n + 6] = m4
  <2>1. \A i \in {2 * n + 3, 2 * n + 4, 2 * n + 5, 2 * n + 6} : i \in 1 .. 2 * n + 6 /\ i \in 1 .. 2 * n + 6 + r
    BY <1>1, <1>3
  <2>2. \A i \in {2 * n + 3, 2 * n + 4, 2 * n + 5, 2 * n + 6} : A[i] = u2[i]
    BY <1>11, <1>12, <2>1
  <2> QED
    BY <1>10, <2>2
<1>17. \A i \in 1 .. r : A[(2 * n + 6) + i] = R3[i]
  <2> SUFFICES ASSUME NEW i \in 1 .. r
               PROVE  A[(2 * n + 6) + i] = R3[i]
    OBVIOUS
  <2>1. (2 * n + 6) + i \in 1 .. 2 * n + 6 + r
    BY <1>1, <1>3
  <2> QED
    BY <1>11, <1>12, <2>1
<1> QED
  BY <1>12, <1>14, <1>15, <1>16, <1>17 DEF x1, x2, m1, m2, m3, m4, x3, T, R1, R2, R3, r, A

\* It has the shape.
LEMMA AuditShape == Shape(Audit, AuditSources)
<1> DEFINE A == AuditSources
           R1 == OneRunEach("plot_progress.py", "progress", RetiredSeed)
           R2 == OneRunEach("plot_progress_log.py", "progress", RetiredSeed)
           R3 == PerProposalRuns("audit_sources_210b.py")
           r == Len(R3)
<1>1. n \in Nat /\ n > 0 /\ Len(R1) = n /\ Len(R2) = n
  BY ConfigFacts, OneRunEachFacts
<1>2. /\ RunsAll(R1, "plot_progress.py", "progress", {RetiredSeed}, RetiredSeed)
      /\ RunsAll(R2, "plot_progress_log.py", "progress", {RetiredSeed}, RetiredSeed)
      /\ RunsAll(R3, "audit_sources_210b.py", "per_prop", ToSet(Seeds), LastSeed)
  BY OneRunEachIsARow, PerProposalIsARow
<1>3. r \in Nat /\ r > 0
  BY <1>2, RowItems
<1>4. /\ A \in Seq(AnyStep) /\ Len(A) = 2 * n + 7 + r
      /\ \A i \in 1 .. n : A[i] = R1[i] /\ A[(n + 1) + i] = R2[i]
      /\ A[n + 1] = Savefig(ProgressFigures, "draw")
      /\ A[2 * n + 2] = Savefig(ProgressLogFigures, "draw")
      /\ A[2 * n + 3] = ReadResults(TRUE) /\ A[2 * n + 4] = Savefig(ProgressEvidence, "draw")
      /\ A[2 * n + 5] = ReadSweep("scalability") /\ A[2 * n + 6] = Savefig(SlotsEvidence, "draw")
      /\ \A i \in 1 .. r : A[(2 * n + 6) + i] = R3[i]
      /\ A[2 * n + 7 + r] = Savefig(EnergyEvidence, "refuse")
  BY AuditItems
<1> HIDE DEF A, R1, R2, R3, r
<1>5. /\ Audit \notin DOMAIN Writers /\ Audit \notin AllSteps /\ Audit # "plot_stacked_bar"
      /\ Audit # "plot_paper_energy" /\ \A c \in Csvs : Audit # ScriptAt(SweeperOf[c])
  BY TablesAre, ScriptsAre, SweepersAre DEF Audit
\* Where the files are written.
<1> DEFINE Saves(k, f, e) == A[k].op = "savefig" /\ A[k].arg.files = f /\ A[k].arg.empty = e
<1>6. /\ Saves(n + 1, ProgressFigures, "draw") /\ Saves(2 * n + 2, ProgressLogFigures, "draw")
      /\ Saves(2 * n + 4, ProgressEvidence, "draw") /\ Saves(2 * n + 6, SlotsEvidence, "draw")
      /\ Saves(2 * n + 7 + r, EnergyEvidence, "refuse")
      /\ A[2 * n + 3].op = "read_results" /\ A[2 * n + 3].arg = TRUE
      /\ A[2 * n + 5].op = "read_sweep" /\ A[2 * n + 5].arg = "scalability"
  <2>1. Saves(n + 1, ProgressFigures, "draw") /\ Saves(2 * n + 2, ProgressLogFigures, "draw")
    BY <1>4, StepFields
  <2>2. Saves(2 * n + 4, ProgressEvidence, "draw") /\ Saves(2 * n + 6, SlotsEvidence, "draw")
    BY <1>4, StepFields
  <2>3. Saves(2 * n + 7 + r, EnergyEvidence, "refuse")
    BY <1>4, StepFields
  <2>4. /\ A[2 * n + 3].op = "read_results" /\ A[2 * n + 3].arg = TRUE
        /\ A[2 * n + 5].op = "read_sweep" /\ A[2 * n + 5].arg = "scalability"
    <3>1. A[2 * n + 3] = ReadResults(TRUE)
      BY <1>4
    <3>2. ReadResults(TRUE).op = "read_results" /\ ReadResults(TRUE).arg = TRUE
      BY StepFields
    <3>3. A[2 * n + 3].op = "read_results" /\ A[2 * n + 3].arg = TRUE
      BY <3>1, <3>2
    <3>4. A[2 * n + 5].op = "read_sweep" /\ A[2 * n + 5].arg = "scalability"
      BY <1>4, StepFields
    <3> QED
      BY <3>3, <3>4
  <2> QED
    BY <2>1, <2>2, <2>3, <2>4
\* The rows of runs.
<1> DEFINE Runs1(k) == A[k].op = "run_config" /\ A[k].arg.protocol \in Protocol
                       /\ \A t \in DOMAIN Writers : A[k].arg.writer # Writers[t]
<1>7. /\ \A i \in 1 .. n : Runs1(i) /\ Runs1((n + 1) + i)
      /\ \A i \in 1 .. r : Runs1((2 * n + 6) + i)
  <2>1. \A t \in DOMAIN Writers : /\ "plot_progress.py" # Writers[t] /\ "plot_progress_log.py" # Writers[t]
                                  /\ "audit_sources_210b.py" # Writers[t]
    BY TablesAre
  <2>2. \A i \in 1 .. n : R1[i].op = "run_config" /\ R1[i].arg.protocol \in Protocol
                          /\ R1[i].arg.writer = "plot_progress.py"
    BY <1>1, <1>2, RowItems
  <2>3. \A i \in 1 .. n : R2[i].op = "run_config" /\ R2[i].arg.protocol \in Protocol
                          /\ R2[i].arg.writer = "plot_progress_log.py"
    BY <1>1, <1>2, RowItems
  <2>4. \A i \in 1 .. r : R3[i].op = "run_config" /\ R3[i].arg.protocol \in Protocol
                          /\ R3[i].arg.writer = "audit_sources_210b.py"
    BY <1>2, RowItems DEF r
  <2> QED
    BY <1>4, <2>1, <2>2, <2>3, <2>4
<1>8. RowAt(A, 0, n + 1, R1, "plot_progress.py", "progress", {RetiredSeed}, RetiredSeed)
  BY <1>1, <1>2, <1>4, SMTT(30) DEF RowAt
<1>9. RowAt(A, n + 1, 2 * n + 2, R2, "plot_progress_log.py", "progress", {RetiredSeed}, RetiredSeed)
  BY <1>1, <1>2, <1>4, <1>6 DEF RowAt
<1>10. RowAt(A, 2 * n + 6, 2 * n + 7 + r, R3, "audit_sources_210b.py", "per_prop", ToSet(Seeds), LastSeed)
  BY <1>1, <1>2, <1>3, <1>4, <1>6 DEF RowAt, r
<1>11. /\ FromBurst(A, n + 1, Confs("progress", {RetiredSeed}))
       /\ FromBurst(A, 2 * n + 2, Confs("progress", {RetiredSeed}))
       /\ AllSettled(A, 2 * n + 2, "progress", RetiredSeed)
       /\ FromBurst(A, 2 * n + 7 + r, Confs("per_prop", ToSet(Seeds)))
  <2>1. FromBurst(A, n + 1, Confs("progress", {RetiredSeed}))
    BY <1>8, BehindARow
  <2>2. /\ FromBurst(A, 2 * n + 2, Confs("progress", {RetiredSeed}))
        /\ AllSettled(A, 2 * n + 2, "progress", RetiredSeed)
    BY <1>9, BehindARow
  <2>3. FromBurst(A, 2 * n + 7 + r, Confs("per_prop", ToSet(Seeds)))
    BY <1>10, BehindARow
  <2> QED
    BY <2>1, <2>2, <2>3
<1>12. AllSettled(A, 2 * n + 4, "progress", RetiredSeed)
  <2>1. \A j \in 2 * n + 2 .. (2 * n + 4) - 1 : A[j].op # "run_config"
    <3>1. \A j \in 2 * n + 2 .. (2 * n + 4) - 1 : j = 2 * n + 2 \/ j = 2 * n + 3
      BY <1>1
    <3> QED
      BY <1>6, <3>1
  <2>2. 2 * n + 2 \in Nat /\ 2 * n + 4 \in Nat /\ 2 * n + 2 <= 2 * n + 4
    BY <1>1
  <2> QED
    BY <1>11, <2>1, <2>2, StillSettled
<1>13. /\ SavefigShape(Audit, A, n + 1) /\ SavefigShape(Audit, A, 2 * n + 2)
       /\ SavefigShape(Audit, A, 2 * n + 4) /\ SavefigShape(Audit, A, 2 * n + 6)
       /\ SavefigShape(Audit, A, 2 * n + 7 + r)
  <2>1. /\ ToSet(ProgressFigures) \subseteq ProgressArtifacts /\ ToSet(ProgressLogFigures) \subseteq ProgressArtifacts
        /\ ToSet(ProgressEvidence) \subseteq ProgressArtifacts
        /\ ToSet(SlotsEvidence) \subseteq ScalabilityArtifacts /\ ToSet(EnergyEvidence) \subseteq StackedArtifacts
    BY FileSets DEF ProgressArtifacts, ScalabilityArtifacts, StackedArtifacts
  <2>2. SavefigShape(Audit, A, n + 1)
    BY <1>6, <1>11, <2>1 DEF SavefigShape
  <2>3. SavefigShape(Audit, A, 2 * n + 2)
    BY <1>6, <1>11, <2>1 DEF SavefigShape
  <2>4. SavefigShape(Audit, A, 2 * n + 4)
    <3>1. FromResults(A, 2 * n + 4)
      <4>1. 2 * n + 4 > 1 /\ (2 * n + 4) - 1 = 2 * n + 3
        BY <1>1
      <4> QED
        BY <1>6, <4>1 DEF FromResults
    <3> QED
      BY <1>6, <1>12, <2>1, <3>1 DEF SavefigShape
  <2>5. SavefigShape(Audit, A, 2 * n + 6)
    <3>1. FromSweep(A, 2 * n + 6, "scalability")
      <4>1. 2 * n + 6 > 1 /\ (2 * n + 6) - 1 = 2 * n + 5
        BY <1>1
      <4> QED
        BY <1>6, <4>1 DEF FromSweep
    <3> QED
      BY <1>6, <2>1, <3>1 DEF SavefigShape
  <2>6. SavefigShape(Audit, A, 2 * n + 7 + r)
    BY <1>6, <1>11, <2>1 DEF SavefigShape
  <2> QED
    BY <2>2, <2>3, <2>4, <2>5, <2>6
<1>14. ASSUME NEW k \in {n + 1, 2 * n + 2, 2 * n + 4, 2 * n + 6, 2 * n + 7 + r}
       PROVE  StepShape(Audit, A, k)
  <2>1. A[k].op = "savefig" /\ SavefigShape(Audit, A, k) /\ A[k].arg.empty # "quiet"
    BY <1>6, <1>13
  <2>2. A[k].arg.files \in Lists
    <3>1. /\ ProgressFigures \in Lists /\ ProgressLogFigures \in Lists /\ ProgressEvidence \in Lists
          /\ SlotsEvidence \in Lists /\ EnergyEvidence \in Lists
      BY DEF Lists
    <3> QED
      BY <1>6, <3>1
  <2> QED
    BY <1>5, <2>1, <2>2 DEF StepShape, Ops
<1>15. StepShape(Audit, A, 2 * n + 3) /\ StepShape(Audit, A, 2 * n + 5)
  BY <1>5, <1>6, TablesAre DEF StepShape, Ops
<1>16. ASSUME NEW k \in 1 .. Len(A), Runs1(k), k > 1 => A[k-1].op \in {"run_config", "savefig"}
       PROVE  StepShape(Audit, A, k)
  BY <1>5, <1>16 DEF StepShape, Ops
<1>17. ASSUME NEW i \in 1 .. n
       PROVE  StepShape(Audit, A, i) /\ StepShape(Audit, A, (n + 1) + i)
  <2>1. i \in 1 .. Len(A) /\ (n + 1) + i \in 1 .. Len(A)
    BY <1>1, <1>3, <1>4
  <2>2. i > 1 => A[i-1].op = "run_config"
    <3>1. i > 1 => i - 1 \in 1 .. n
      BY <1>1
    <3> QED
      BY <1>7, <3>1
  <2>3. A[((n + 1) + i) - 1].op \in {"run_config", "savefig"}
    <3>1. CASE i = 1
      <4>1. ((n + 1) + i) - 1 = n + 1
        BY <1>1, <3>1
      <4> QED
        BY <1>6, <4>1
    <3>2. CASE i # 1
      <4>1. ((n + 1) + i) - 1 = (n + 1) + (i - 1) /\ i - 1 \in 1 .. n
        BY <1>1, <3>2
      <4>2. Runs1((n + 1) + (i - 1))
        BY <1>7, <4>1
      <4> QED
        BY <4>1, <4>2
    <3> QED
      BY <3>1, <3>2
  <2> QED
    BY <1>7, <1>16, <2>1, <2>2, <2>3
<1>18. ASSUME NEW i \in 1 .. r
       PROVE  StepShape(Audit, A, (2 * n + 6) + i)
  <2>1. (2 * n + 6) + i \in 1 .. Len(A)
    BY <1>1, <1>3, <1>4, SMTT(30)
  <2>2. A[((2 * n + 6) + i) - 1].op \in {"run_config", "savefig"}
    <3>1. CASE i = 1
      <4>1. ((2 * n + 6) + i) - 1 = 2 * n + 6
        BY <1>1, <3>1
      <4> QED
        BY <1>6, <4>1
    <3>2. CASE i # 1
      <4>1. ((2 * n + 6) + i) - 1 = (2 * n + 6) + (i - 1) /\ i - 1 \in 1 .. r
        BY <1>1, <1>3, <3>2
      <4>2. Runs1((2 * n + 6) + (i - 1))
        BY <1>7, <4>1
      <4> QED
        BY <4>1, <4>2
    <3> QED
      BY <3>1, <3>2
  <2> QED
    BY <1>7, <1>16, <2>1, <2>2
<1>19. ASSUME NEW k \in 1 .. Len(A)
       PROVE  StepShape(Audit, A, k)
  <2>1. CASE k <= n
    <3>1. k \in 1 .. n
      BY <1>1, <2>1
    <3> QED
      BY <1>17, <3>1
  <2>2. CASE k > n + 1 /\ k < 2 * n + 2
    <3>1. k - (n + 1) \in 1 .. n /\ (n + 1) + (k - (n + 1)) = k
      BY <1>1, <2>2
    <3>2. StepShape(Audit, A, (n + 1) + (k - (n + 1)))
      BY <1>17, <3>1
    <3> QED
      BY <3>1, <3>2
  <2>3. CASE k > 2 * n + 6 /\ k < 2 * n + 7 + r
    <3>1. k - (2 * n + 6) \in 1 .. r /\ (2 * n + 6) + (k - (2 * n + 6)) = k
      BY <1>1, <1>3, <2>3
    <3>2. StepShape(Audit, A, (2 * n + 6) + (k - (2 * n + 6)))
      BY <1>18, <3>1
    <3> QED
      BY <3>1, <3>2
  <2>4. \/ k <= n \/ (k > n + 1 /\ k < 2 * n + 2) \/ (k > 2 * n + 6 /\ k < 2 * n + 7 + r)
        \/ k \in {n + 1, 2 * n + 2, 2 * n + 4, 2 * n + 6, 2 * n + 7 + r}
        \/ k = 2 * n + 3 \/ k = 2 * n + 5
    BY <1>1, <1>3, <1>4
  <2> QED
    BY <1>14, <1>15, <2>1, <2>2, <2>3, <2>4
<1>20. Len(A) > 0
  BY <1>1, <1>3, <1>4
<1> QED
  BY <1>4, <1>5, <1>19, <1>20 DEF Shape, A

\* So every program has the shape.
LEMMA ProgramsHaveShape == \A s \in Scripts : Shape(s, Program(s))
<1>1. /\ RunsAll(OneRunEach("plot_progress.py", "progress", RetiredSeed), "plot_progress.py", "progress", {RetiredSeed}, RetiredSeed)
      /\ RunsAll(OneRunEach("plot_progress_log.py", "progress", RetiredSeed), "plot_progress_log.py", "progress", {RetiredSeed}, RetiredSeed)
      /\ RunsAll(PerProposalRuns("plot_stacked_bar.py"), "plot_stacked_bar.py", "per_prop", ToSet(Seeds), LastSeed)
      /\ RunsAll(OneRunEach("plot_kde_awake.py", "awake", RetiredSeed), "plot_kde_awake.py", "awake", {RetiredSeed}, RetiredSeed)
  BY OneRunEachIsARow, PerProposalIsARow
<1>2. {RetiredSeed} \in SUBSET Nat /\ ToSet(Seeds) \in SUBSET Nat
  BY ConfigFacts DEF RetiredSeed
<1>3. Shape("plot_progress", PlotProgress)
  BY <1>1, <1>2, DrawingShape DEF PlotProgress
<1>4. Shape("plot_progress_log", PlotProgressLog)
  BY <1>1, <1>2, DrawingShape DEF PlotProgressLog
<1>5. Shape("plot_stacked_bar", PlotStackedBar)
  BY <1>1, <1>2, DrawingShape DEF PlotStackedBar
<1>6. Shape("plot_kde_awake", PlotKdeAwake)
  BY <1>1, <1>2, DrawingShape DEF PlotKdeAwake
<1>7. Shape("plot_paper_energy", PlotPaperEnergy) /\ Shape("plot_kde_no_run", PlotKdeNoRun)
  BY ShortPrograms, ShortProgramsAreTyped, LeftoversShape
<1>8. /\ ScalabilityFigures \in Lists /\ EfficiencyFigures \in Lists /\ SummaryFigures \in Lists
      /\ TopologyFigures \in Lists
      /\ ToSet(ScalabilityFigures) \subseteq ScalabilityArtifacts
      /\ ToSet(EfficiencyFigures) \subseteq ScalabilityArtifacts
      /\ ToSet(SummaryFigures) \subseteq ScalabilityArtifacts
      /\ ToSet(TopologyFigures) \subseteq TopologyArtifacts
  BY FileSets DEF Lists, ScalabilityArtifacts
<1>9. Shape("plot_scalability", PlotScalability) /\ Shape("plot_topology", PlotTopology)
  BY <1>8, ShortPrograms, ShortProgramsAreTyped, SweepingShape
<1>10. Shape("plot_efficiency", PlotEfficiency) /\ Shape("plot_summary_commit", PlotSummaryCommit)
  BY <1>8, ShortPrograms, ShortProgramsAreTyped, ReadingShape
<1> QED
  BY <1>3, <1>4, <1>5, <1>6, <1>7, <1>9, <1>10, AuditShape, ProgramIs, ScriptsAre

----------------------------------------------------------------------------
(***************************************************************************)
(* Which script draws what.                                                *)
(***************************************************************************)
\* The lists of files of the last steps.
LEMMA LastSteps ==
    LET EndOf(P) == P[Len(P)] IN
    /\ EndOf(PlotScalability).arg.files = ScalabilityFigures
    /\ EndOf(PlotEfficiency).arg.files = EfficiencyFigures
    /\ EndOf(PlotSummaryCommit).arg.files = SummaryFigures
    /\ EndOf(PlotTopology).arg.files = TopologyFigures
    /\ EndOf(PlotProgress).arg.files = ProgressFigures
    /\ EndOf(PlotProgressLog).arg.files = ProgressLogFigures
    /\ EndOf(PlotStackedBar).arg.files = StackedBarFigures
    /\ EndOf(PlotPaperEnergy).arg.files = PaperEnergyFigures
    /\ EndOf(PlotKdeAwake).arg.files = KdeFigures
<1>1. ASSUME NEW R, NEW writer, NEW toml, NEW seeds, NEW last, RunsAll(R, writer, toml, seeds, last), NEW x
      PROVE  LET P == Append(R, x) IN P[Len(P)] = x
  <2>1. R \in Seq(RunsOf(writer, toml, seeds))
    BY <1>1 DEF RunsAll
  <2> DEFINE X == RunsOf(writer, toml, seeds) \cup {x}
  <2>2. R \in Seq(X) /\ x \in X
    BY <2>1, SeqMonotonic
  <2> HIDE DEF X
  <2> QED
    BY <2>2, AppendProperties
<1>2. /\ RunsAll(OneRunEach("plot_progress.py", "progress", RetiredSeed), "plot_progress.py", "progress", {RetiredSeed}, RetiredSeed)
      /\ RunsAll(OneRunEach("plot_progress_log.py", "progress", RetiredSeed), "plot_progress_log.py", "progress", {RetiredSeed}, RetiredSeed)
      /\ RunsAll(PerProposalRuns("plot_stacked_bar.py"), "plot_stacked_bar.py", "per_prop", ToSet(Seeds), LastSeed)
      /\ RunsAll(OneRunEach("plot_kde_awake.py", "awake", RetiredSeed), "plot_kde_awake.py", "awake", {RetiredSeed}, RetiredSeed)
  BY OneRunEachIsARow, PerProposalIsARow
<1>3. PlotProgress[Len(PlotProgress)] = Savefig(ProgressFigures, "draw")
  BY <1>1, <1>2 DEF PlotProgress
<1>4. PlotProgressLog[Len(PlotProgressLog)] = Savefig(ProgressLogFigures, "draw")
  BY <1>1, <1>2 DEF PlotProgressLog
<1>5. PlotStackedBar[Len(PlotStackedBar)] = Savefig(StackedBarFigures, "quiet")
  BY <1>1, <1>2 DEF PlotStackedBar
<1>6. PlotKdeAwake[Len(PlotKdeAwake)] = Savefig(KdeFigures, "draw")
  BY <1>1, <1>2 DEF PlotKdeAwake
<1>7. /\ PlotScalability[Len(PlotScalability)] = Savefig(ScalabilityFigures, "draw")
      /\ PlotEfficiency[Len(PlotEfficiency)] = Savefig(EfficiencyFigures, "draw")
      /\ PlotSummaryCommit[Len(PlotSummaryCommit)] = Savefig(SummaryFigures, "draw")
      /\ PlotTopology[Len(PlotTopology)] = Savefig(TopologyFigures, "draw")
      /\ PlotPaperEnergy[Len(PlotPaperEnergy)] = Savefig(PaperEnergyFigures, "refuse")
  BY ShortPrograms
<1> QED
  BY <1>3, <1>4, <1>5, <1>6, <1>7, StepFields

\* What a script of STEPS draws are the files of its last step.
LEMMA DrawsItsLastStep ==
    \A s \in AllSteps : FiguresOf(s) = ToSet(Program(s)[Len(Program(s))].arg.files)
<1> SUFFICES ASSUME NEW s \in AllSteps
             PROVE  FiguresOf(s) = ToSet(Program(s)[Len(Program(s))].arg.files)
  OBVIOUS
<1> DEFINE P == Program(s)
<1>1. Shape(s, P)
  BY ProgramsHaveShape, ScriptsAre
<1> HIDE DEF P
<1>2. Len(P) \in Nat /\ Len(P) > 0 /\ DOMAIN P = 1 .. Len(P)
  BY <1>1, LenProperties DEF Shape
<1>3. \A k \in 1 .. Len(P) : P[k].op = "savefig" <=> k = Len(P)
  BY <1>1 DEF Shape, StepShape
<1>4. Places(s, "savefig") = {Len(P)}
  <2>1. Places(s, "savefig") = {i \in DOMAIN P : P[i].op = "savefig"}
    BY DEF Places, P
  <2>2. Len(P) \in 1 .. Len(P)
    BY <1>2
  <2> QED
    BY <1>2, <1>3, <2>1, <2>2
<1> QED
  BY <1>4 DEF FiguresOf, P

\* The figures of every place in STEPS.
LEMMA FiguresOfAre ==
    /\ FiguresOf(ScriptAt(1)) = ToSet(ScalabilityFigures)
    /\ FiguresOf(ScriptAt(2)) = ToSet(EfficiencyFigures)
    /\ FiguresOf(ScriptAt(3)) = ToSet(SummaryFigures)
    /\ FiguresOf(ScriptAt(4)) = ToSet(TopologyFigures)
    /\ FiguresOf(ScriptAt(5)) = ToSet(ProgressFigures)
    /\ FiguresOf(ScriptAt(6)) = ToSet(ProgressLogFigures)
    /\ FiguresOf(ScriptAt(7)) = ToSet(StackedBarFigures)
    /\ FiguresOf(ScriptAt(8)) = ToSet(PaperEnergyFigures)
    /\ FiguresOf(ScriptAt(9)) = ToSet(KdeFigures)
<1>1. \A i \in 1 .. 9 : ScriptAt(i) \in AllSteps
  BY ScriptsAre
<1>2. \A i \in 1 .. 9 : FiguresOf(ScriptAt(i)) = ToSet(Program(ScriptAt(i))[Len(Program(ScriptAt(i)))].arg.files)
  BY <1>1, DrawsItsLastStep
<1>3. /\ Program(ScriptAt(1)) = PlotScalability /\ Program(ScriptAt(2)) = PlotEfficiency
      /\ Program(ScriptAt(3)) = PlotSummaryCommit /\ Program(ScriptAt(4)) = PlotTopology
      /\ Program(ScriptAt(5)) = PlotProgress /\ Program(ScriptAt(6)) = PlotProgressLog
      /\ Program(ScriptAt(7)) = PlotStackedBar /\ Program(ScriptAt(8)) = PlotPaperEnergy
      /\ Program(ScriptAt(9)) = PlotKdeAwake
  BY StepsTable, ProgramIs
<1>4. FiguresOf(ScriptAt(1)) = ToSet(PlotScalability[Len(PlotScalability)].arg.files)
  BY <1>2, <1>3
<1>5. FiguresOf(ScriptAt(2)) = ToSet(PlotEfficiency[Len(PlotEfficiency)].arg.files)
  BY <1>2, <1>3
<1>6. FiguresOf(ScriptAt(3)) = ToSet(PlotSummaryCommit[Len(PlotSummaryCommit)].arg.files)
  BY <1>2, <1>3
<1>7. FiguresOf(ScriptAt(4)) = ToSet(PlotTopology[Len(PlotTopology)].arg.files)
  BY <1>2, <1>3
<1>8. FiguresOf(ScriptAt(5)) = ToSet(PlotProgress[Len(PlotProgress)].arg.files)
  BY <1>2, <1>3
<1>9. FiguresOf(ScriptAt(6)) = ToSet(PlotProgressLog[Len(PlotProgressLog)].arg.files)
  BY <1>2, <1>3
<1>10. FiguresOf(ScriptAt(7)) = ToSet(PlotStackedBar[Len(PlotStackedBar)].arg.files)
  BY <1>2, <1>3
<1>11. FiguresOf(ScriptAt(8)) = ToSet(PlotPaperEnergy[Len(PlotPaperEnergy)].arg.files)
  BY <1>2, <1>3
<1>12. FiguresOf(ScriptAt(9)) = ToSet(PlotKdeAwake[Len(PlotKdeAwake)].arg.files)
  BY <1>2, <1>3
<1> QED
  BY <1>4, <1>5, <1>6, <1>7, <1>8, <1>9, <1>10, <1>11, <1>12, LastSteps

\* No figure is drawn by two places of STEPS.
LEMMA NoFigureTwice ==
    \A i, j \in 1 .. 9 : i # j => FiguresOf(ScriptAt(i)) \cap FiguresOf(ScriptAt(j)) = {}
<1> DEFINE F(i) == FiguresOf(ScriptAt(i))
<1>1. /\ F(1) = ToSet(ScalabilityFigures) /\ F(2) = ToSet(EfficiencyFigures) /\ F(3) = ToSet(SummaryFigures)
      /\ F(4) = ToSet(TopologyFigures) /\ F(5) = ToSet(ProgressFigures) /\ F(6) = ToSet(ProgressLogFigures)
      /\ F(7) = ToSet(StackedBarFigures) /\ F(8) = ToSet(PaperEnergyFigures) /\ F(9) = ToSet(KdeFigures)
  BY FiguresOfAre
<1> HIDE DEF F
<1>2. /\ F(1) \cap F(2) = {} /\ F(1) \cap F(3) = {} /\ F(1) \cap F(4) = {} /\ F(1) \cap F(5) = {}
      /\ F(1) \cap F(6) = {} /\ F(1) \cap F(7) = {} /\ F(1) \cap F(8) = {} /\ F(1) \cap F(9) = {}
  BY <1>1, FileSets DEF TopologyArtifacts, PaperArtifacts, KdeArtifacts
<1>3. /\ F(2) \cap F(3) = {} /\ F(2) \cap F(4) = {} /\ F(2) \cap F(5) = {} /\ F(2) \cap F(6) = {}
      /\ F(2) \cap F(7) = {} /\ F(2) \cap F(8) = {} /\ F(2) \cap F(9) = {}
  BY <1>1, FileSets DEF TopologyArtifacts, PaperArtifacts, KdeArtifacts
<1>4. /\ F(3) \cap F(4) = {} /\ F(3) \cap F(5) = {} /\ F(3) \cap F(6) = {} /\ F(3) \cap F(7) = {}
      /\ F(3) \cap F(8) = {} /\ F(3) \cap F(9) = {}
  BY <1>1, FileSets DEF TopologyArtifacts, PaperArtifacts, KdeArtifacts
<1>5. /\ F(4) \cap F(5) = {} /\ F(4) \cap F(6) = {} /\ F(4) \cap F(7) = {} /\ F(4) \cap F(8) = {}
      /\ F(4) \cap F(9) = {}
  BY <1>1, FileSets DEF TopologyArtifacts, PaperArtifacts, KdeArtifacts
<1>6. /\ F(5) \cap F(6) = {} /\ F(5) \cap F(7) = {} /\ F(5) \cap F(8) = {} /\ F(5) \cap F(9) = {}
  BY <1>1, FileSets DEF TopologyArtifacts, PaperArtifacts, KdeArtifacts
<1>7. /\ F(6) \cap F(7) = {} /\ F(6) \cap F(8) = {} /\ F(6) \cap F(9) = {}
  BY <1>1, FileSets DEF TopologyArtifacts, PaperArtifacts, KdeArtifacts
<1>8. /\ F(7) \cap F(8) = {} /\ F(7) \cap F(9) = {}
  BY <1>1, FileSets DEF TopologyArtifacts, PaperArtifacts, KdeArtifacts
<1>9. /\ F(8) \cap F(9) = {}
  BY <1>1, FileSets DEF TopologyArtifacts, PaperArtifacts, KdeArtifacts
<1>10. ASSUME NEW i \in 1 .. 9, NEW j \in 1 .. 9, i < j
      PROVE  F(i) \cap F(j) = {}
  <2>1. i = 1 \/ i = 2 \/ i = 3 \/ i = 4 \/ i = 5 \/ i = 6 \/ i = 7 \/ i = 8
    BY <1>10
  <2>2. j = 2 \/ j = 3 \/ j = 4 \/ j = 5 \/ j = 6 \/ j = 7 \/ j = 8 \/ j = 9
    BY <1>10
  <2> QED
    BY <1>10, <2>1, <2>2, <1>2, <1>3, <1>4, <1>5, <1>6, <1>7, <1>8, <1>9
<1> QED
  BY <1>10 DEF F

\* The figures that are drawn from each of the sweeps.
LEMMA SweepReadersAre ==
    /\ SweepReaders["scalability"] = ScalabilityArtifacts \ {"slots_per_decision"}
    /\ SweepReaders["topology"] = TopologyArtifacts
    /\ SweepReaders["scalability"] = FiguresOf(ScriptAt(1)) \cup FiguresOf(ScriptAt(2)) \cup FiguresOf(ScriptAt(3))
    /\ SweepReaders["topology"] = FiguresOf(ScriptAt(4))
<1> DEFINE S(csv) == {t \in AllSteps : \E i \in Places(t, "read_sweep") : Program(t)[i].arg = csv}
<1>1. \A csv \in Csvs : SweepReaders[csv] = UNION {FiguresOf(s) : s \in S(csv)}
  BY DEF SweepReaders
<1>2. \A csv \in Csvs : S(csv) = Readers(csv)
  <2>1. ASSUME NEW csv \in Csvs, NEW t \in AllSteps, NEW i \in Places(t, "read_sweep"), Program(t)[i].arg = csv
        PROVE  t \in Readers(csv)
    <3>1. Shape(t, Program(t))
      BY ProgramsHaveShape, ScriptsAre
    <3>2. i \in 1 .. Len(Program(t)) /\ Program(t)[i].op = "read_sweep"
      BY <3>1, LenProperties DEF Shape, Places
    <3> QED
      BY <2>1, <3>1, <3>2 DEF Shape, StepShape
  <2>2. ASSUME NEW csv \in Csvs, NEW t \in Readers(csv)
        PROVE  t \in AllSteps /\ \E i \in Places(t, "read_sweep") : Program(t)[i].arg = csv
    <3>1. t \in AllSteps
      BY <2>2, ScriptsAre DEF Readers
    <3>2. \E i \in 1 .. Len(Program(t)) : Program(t)[i].op = "read_sweep" /\ Program(t)[i].arg = csv
      <4>1. CASE csv = "scalability" /\ t = "plot_scalability"
        <5>1. 2 \in 1 .. Len(Program(t)) /\ Program(t)[2] = ReadSweep(csv)
          BY <4>1, ShortPrograms, ProgramIs
        <5> QED
          BY <5>1, StepFields
      <4>2. CASE csv = "scalability" /\ t \in {"plot_efficiency", "plot_summary_commit"}
        <5>1. 1 \in 1 .. Len(Program(t)) /\ Program(t)[1] = ReadSweep(csv)
          BY <4>2, ShortPrograms, ProgramIs
        <5> QED
          BY <5>1, StepFields
      <4>3. CASE csv = "topology" /\ t = "plot_topology"
        <5>1. 2 \in 1 .. Len(Program(t)) /\ Program(t)[2] = ReadSweep(csv)
          BY <4>3, ShortPrograms, ProgramIs
        <5> QED
          BY <5>1, StepFields
      <4> QED
        BY <2>2, <4>1, <4>2, <4>3, TablesAre DEF Readers
    <3>3. DOMAIN Program(t) = 1 .. Len(Program(t))
      <4>1. Shape(t, Program(t))
        BY <3>1, ProgramsHaveShape, ScriptsAre
      <4> QED
        BY <4>1, LenProperties DEF Shape
    <3> QED
      BY <3>1, <3>2, <3>3 DEF Places
  <2>3. \A csv \in Csvs : Readers(csv) \subseteq AllSteps
    BY ScriptsAre DEF Readers
  <2> QED
    BY <2>1, <2>2, <2>3
<1> HIDE DEF S
<1>3. SweepReaders["scalability"] = FiguresOf(ScriptAt(1)) \cup FiguresOf(ScriptAt(2)) \cup FiguresOf(ScriptAt(3))
  <2>1. SweepReaders["scalability"] = UNION {FiguresOf(s) : s \in Readers("scalability")}
    BY <1>1, <1>2, TablesAre
  <2>2. Readers("scalability") = {ScriptAt(1), ScriptAt(2), ScriptAt(3)}
    BY StepsTable DEF Readers
  <2> QED
    BY <2>1, <2>2
<1>4. SweepReaders["topology"] = FiguresOf(ScriptAt(4))
  <2>1. SweepReaders["topology"] = UNION {FiguresOf(s) : s \in Readers("topology")}
    BY <1>1, <1>2, TablesAre
  <2>2. Readers("topology") = {ScriptAt(4)}
    BY StepsTable DEF Readers
  <2> QED
    BY <2>1, <2>2
<1> QED
  BY <1>3, <1>4, FiguresOfAre, FileSets DEF ScalabilityArtifacts

----------------------------------------------------------------------------
(***************************************************************************)
(* The inductive invariant, in named parts.                                *)
(***************************************************************************)
\* The program that is running and the place it has come to.
Prog == Program(script)
Pos == Len(Prog) - Len(todo) + 1
CommandType == [kind : {"idle", "regen", "script", "collect"}, force : BOOLEAN,
                selected : SUBSET Scripts, start : Nat]
IsOutput(o) ==
    o = Output(o.toml, o.protocol, o.seed, o.rev, o.whole) /\ o.rev \in Nat /\ o.whole \in BOOLEAN

\* The files on disk, and what was read from them, are of their types.
FilesTypeOK ==
    /\ results = [p \in Protocol |-> results[p]] /\ \A p \in Protocol : IsOutput(results[p])
    /\ sweeps = [c \in Csvs |-> sweeps[c]] /\ \A c \in Csvs : IsOutput(sweeps[c])
    /\ artifacts = [a \in Artifacts |-> artifacts[a]]
    /\ \A o \in frame : IsOutput(o)
    /\ drawn \in SUBSET Artifacts /\ lost \in BOOLEAN
FigureTypeOK ==
    /\ FilesTypeOK
    /\ rev \in 0 .. MaxEdits /\ faults \in Nat
    /\ cmd \in CommandType /\ report.cmd \in CommandType /\ report.ok \in BOOLEAN
    /\ script \in Scripts \cup {None} /\ steps \in SUBSET (1 .. 9) /\ todo \in Seq(AnyStep)
    /\ failed_steps \in SUBSET Scripts

\* The command, and where in STEPS a regeneration is.
StillToCome(c) == {i \in 1 .. 9 : /\ i > c /\ ScriptAt(i) \in cmd.selected
                                  /\ ScriptAt(i) \notin failed_steps}
CommandInv ==
    /\ cmd.start <= rev /\ report.cmd.start <= rev
    /\ cmd.kind # "collect"
    /\ cmd.kind = "idle" => cmd = Idle
    /\ cmd = Idle => script = None /\ steps = {} /\ frame = {}
    /\ cmd # Idle => report = NoReport
    /\ cmd.kind = "script" => steps = {} /\ script # None /\ cmd.selected = {script}
    /\ cmd.kind = "regen" =>
         /\ cmd.selected \subseteq AllSteps
         /\ \E c \in 0 .. 9 :
              /\ IF c = 0 THEN script = None ELSE script = ScriptAt(c) /\ script \in cmd.selected
              /\ steps = StillToCome(c)

\* What is still to do is the rest of the program.
TodoInv ==
    /\ script = None => todo = <<>>
    /\ script # None => /\ Len(todo) <= Len(Prog)
                        /\ \A j \in 1 .. Len(todo) : todo[j] = Prog[Pos - 1 + j]
    /\ script \in failed_steps => todo = <<>>
ControlInv == FigureTypeOK /\ CommandInv /\ TodoInv

\* The frame holds what the last reading steps of the script read, and the last run of a
\* protocol is the one on disk.
Running == script # None /\ script \notin failed_steps
Fresh(o) == o.whole = TRUE /\ o.rev >= cmd.start /\ o.rev <= rev
FrameInv ==
    Running /\ ~lost =>
        /\ Pos = 1 \/ Prog[Pos - 1].op \notin {"read_sweep", "read_results"} =>
             /\ {Conf(o) : o \in frame} = {ConfOf(Prog[i]) : i \in Burst(Prog, Pos)}
             /\ \A o \in frame : Fresh(o)
        /\ Pos > 1 /\ Prog[Pos - 1].op = "read_sweep" => frame = {sweeps[Prog[Pos - 1].arg]}
        /\ Pos > 1 /\ Prog[Pos - 1].op = "read_results" =>
             /\ frame = {results[p] : p \in Protocol} \ {Missing}
             /\ Prog[Pos - 1].arg = TRUE => \A p \in Protocol : results[p] # Missing
ResultsInv ==
    Running /\ ~lost =>
        \A i \in 1 .. Pos - 1 : LastRun(Prog, Pos, i) =>
            LET o == results[Prog[i].arg.protocol] IN
            /\ Conf(o) = ConfOf(Prog[i]) /\ Fresh(o)
            /\ i \in Burst(Prog, Pos) => o \in frame

\* With --force, a sweep of this command is of the sources as they are.
SweepsInv ==
    cmd.kind = "regen" /\ failed_steps = {} /\ cmd.force /\ cmd.start = rev =>
        \A csv \in Csvs :
            /\ ScriptAt(SweeperOf[csv]) \in cmd.selected /\ SweeperOf[csv] \notin steps
            /\ script = ScriptAt(SweeperOf[csv]) => Pos > 1
            => sweeps[csv] = SweepOutput(csv, rev, TRUE)

\* A regeneration has drawn nothing yet of the steps at and behind the running one.
Ahead(i) == (script = ScriptAt(i) => todo # <<>>) /\ \A j \in i + 1 .. 9 : script # ScriptAt(j)
Undrawn ==
    cmd.kind = "regen" =>
        /\ drawn \subseteq Figures
        /\ \A i \in 1 .. 9 : Ahead(i) => FiguresOf(ScriptAt(i)) \cap drawn = {}

\* What this command has drawn is what it should be.
LastRunEach(F) ==
    /\ \A p \in Protocol : \E o \in F : o.protocol = p
    /\ \A o \in F : IsOutput(o) /\ Conf(o) = <<"per_prop", o.protocol, LastSeed>>
                    /\ o.protocol \in Protocol /\ Fresh(o)
    /\ \A o, q \in F : o.protocol = q.protocol => o = q
IsContent(a, F) ==
    /\ a \in ScalabilityArtifacts => F = {sweeps["scalability"]}
    /\ a \in TopologyArtifacts => F = {sweeps["topology"]}
    /\ cmd.start = rev =>
         /\ a \in ProgressArtifacts => F = Runs("progress", RetiredSeed, rev)
         /\ a \in StackedArtifacts => F = UNION {Runs("per_prop", s, rev) : s \in ToSet(Seeds)}
         /\ a \in KdeArtifacts => F = Runs("awake", RetiredSeed, rev)
    /\ a \in PaperArtifacts /\ "plot_stacked_bar" \in cmd.selected => LastRunEach(F)
ContentInv ==
    ~lost /\ (cmd.kind = "regen" \/ script = Audit) => \A a \in drawn : IsContent(a, artifacts[a])

\* When the energy figures are due, plot_stacked_bar.py has just left its last runs.
EnergyReady ==
    /\ cmd.kind = "regen" /\ ~lost /\ "plot_stacked_bar" \in cmd.selected
    /\ script = "plot_paper_energy" /\ todo # <<>>
    => LastRunEach({results[p] : p \in Protocol}) /\ \A p \in Protocol : results[p].protocol = p

\* A step that is done has drawn its figures, except for plot_stacked_bar.py when nothing was
\* committed: then nothing is committed in what plot_paper_energy.py reads next.
Done(s) ==
    /\ cmd.kind = "regen" /\ s \in cmd.selected /\ failed_steps = {}
    /\ \A i \in steps : ScriptAt(i) # s
    /\ s = script => todo = <<>>
QuietInv ==
    /\ ~lost /\ Done("plot_stacked_bar") /\ ~(ToSet(StackedBarFigures) \subseteq drawn)
    /\ "plot_paper_energy" \in cmd.selected
    => /\ script = "plot_stacked_bar" \/ (script = "plot_paper_energy" /\ todo # <<>>)
       /\ \A p \in Protocol : results[p].rev \in Barren
DrawnInv ==
    ~lost =>
        /\ \A s \in AllSteps \ {"plot_stacked_bar"} : Done(s) => FiguresOf(s) \subseteq drawn
        /\ script = Audit /\ failed_steps = {} =>
             \A i \in 1 .. Pos - 1 : Prog[i].op = "savefig" => ToSet(Prog[i].arg.files) \subseteq drawn

\* A script whose name is the last in PROVENANCE.txt, or which is running, has run or will run
\* every protocol whose CSVs are of another configuration.
StillToRun(p) == \E j \in 1 .. Len(todo) : todo[j].op = "run_config" /\ todo[j].arg.protocol = p
ProvenanceInv ==
    faults = 0 => \A s \in DOMAIN Writers : last_writer = Writers[s] \/ script = s =>
        \A p \in Protocol : results[p].toml = TomlOf[s] \/ (script = s /\ StillToRun(p))

IdleInv == cmd = Idle => ForcedRegenIsCanonical /\ ExitCodeIsHonest /\ EnergyFromThisRun

FigureInv ==
    /\ ControlInv /\ FrameInv /\ ResultsInv /\ SweepsInv /\ Undrawn /\ ContentInv /\ EnergyReady
    /\ QuietInv /\ DrawnInv /\ ProvenanceInv /\ IdleInv

----------------------------------------------------------------------------
(***************************************************************************)
(* How the actions move through a program and through STEPS.               *)
(***************************************************************************)
\* A script in progress is at a place of its program.
LEMMA AtStep ==
    ASSUME ControlInv, todo # <<>>
    PROVE  /\ script \in Scripts /\ script # None /\ Running /\ cmd # Idle /\ cmd.kind \in {"regen", "script"}
           /\ Shape(script, Prog) /\ Len(Prog) \in Nat /\ Pos \in 1 .. Len(Prog)
           /\ Len(todo) \in Nat /\ Len(todo) > 0
           /\ Head(todo) = Prog[Pos] /\ Prog[Pos] \in AnyStep /\ StepShape(script, Prog, Pos)
<1>1. todo \in Seq(AnyStep) /\ Len(todo) \in Nat /\ Len(todo) > 0 /\ Head(todo) = todo[1]
  BY DEF ControlInv, FigureTypeOK
<1>2. script # None /\ script \in Scripts /\ script \notin failed_steps
  BY DEF ControlInv, FigureTypeOK, TodoInv
<1>3. Shape(script, Prog)
  BY <1>2, ProgramsHaveShape DEF Prog
<1>4. Prog \in Seq(AnyStep) /\ Len(Prog) \in Nat
  BY <1>3, LenProperties DEF Shape
<1>5. Len(todo) <= Len(Prog) /\ todo[1] = Prog[Pos - 1 + 1]
  <2>1. \A j \in 1 .. Len(todo) : todo[j] = Prog[Pos - 1 + j]
    BY <1>2 DEF ControlInv, TodoInv
  <2>2. 1 \in 1 .. Len(todo)
    BY <1>1
  <2>3. Len(todo) <= Len(Prog)
    BY <1>2 DEF ControlInv, TodoInv
  <2> QED
    BY <2>1, <2>2, <2>3
<1>6. Pos \in 1 .. Len(Prog) /\ Pos - 1 + 1 = Pos
  BY <1>1, <1>4, <1>5 DEF Pos
<1>7. Prog[Pos] \in AnyStep
  BY <1>4, <1>6, ElementOfSeq
<1>8. StepShape(script, Prog, Pos)
  BY <1>3, <1>6 DEF Shape
<1>9. cmd # Idle /\ cmd.kind \in {"regen", "script"}
  <2>1. cmd # Idle
    BY <1>2 DEF ControlInv, CommandInv
  <2>2. cmd.kind \in {"idle", "regen", "script", "collect"}
    BY DEF ControlInv, FigureTypeOK, CommandType
  <2> QED
    BY <2>1, <2>2 DEF ControlInv, CommandInv
<1> QED
  BY <1>1, <1>2, <1>3, <1>4, <1>5, <1>6, <1>7, <1>8, <1>9 DEF Running

\* Going on moves one place further.
LEMMA AdvanceMoves ==
    ASSUME ControlInv, todo # <<>>, Advance
    PROVE  /\ cmd' = cmd /\ script' = script /\ steps' = steps /\ failed_steps' = failed_steps
           /\ Prog' = Prog /\ Pos' = Pos + 1 /\ Running' /\ TodoInv' /\ todo' \in Seq(AnyStep)
           /\ Len(todo') = Len(todo) - 1 /\ \A j \in 1 .. Len(todo') : todo'[j] = todo[j + 1]
           /\ todo' = <<>> <=> Pos = Len(Prog)
<1>1. todo \in Seq(AnyStep) /\ Len(todo) \in Nat /\ Len(todo) > 0 /\ todo' = Tail(todo)
  BY AtStep DEF ControlInv, FigureTypeOK, Advance
<1>2. /\ todo' \in Seq(AnyStep) /\ Len(todo') = Len(todo) - 1
      /\ \A j \in 1 .. Len(todo') : todo'[j] = todo[j + 1]
  BY <1>1
<1>3. cmd' = cmd /\ script' = script /\ steps' = steps /\ failed_steps' = failed_steps
  BY DEF Advance
<1>4. Prog' = Prog /\ Running'
  BY <1>3, AtStep DEF Prog, Running
<1>5. Pos' = Pos + 1
  BY <1>1, <1>2, <1>4, AtStep DEF Pos
<1>6. \A j \in 1 .. Len(todo) : todo[j] = Prog[Pos - 1 + j]
  BY AtStep DEF ControlInv, TodoInv
<1>7. TodoInv'
  <2>1. Len(todo') <= Len(Prog')
    BY <1>1, <1>2, <1>4, AtStep DEF Pos
  <2>2. ASSUME NEW j \in 1 .. Len(todo')
        PROVE  todo'[j] = Prog'[Pos' - 1 + j]
    <3>1. j + 1 \in 1 .. Len(todo) /\ Pos - 1 + (j + 1) = (Pos + 1) - 1 + j
      BY <1>1, <1>2, AtStep
    <3>2. todo[j+1] = Prog[Pos - 1 + (j + 1)]
      BY <1>6, <3>1
    <3> QED
      BY <1>2, <1>4, <1>5, <3>1, <3>2
  <2>3. script' # None /\ script' \notin failed_steps'
    BY <1>4 DEF Running
  <2> QED
    BY <2>1, <2>2, <2>3 DEF TodoInv
<1>8. todo' = <<>> <=> Pos = Len(Prog)
  <2>1. todo' = <<>> <=> Len(todo') = 0
    BY <1>2
  <2> QED
    BY <1>1, <1>2, <2>1, AtStep DEF Pos
<1> QED
  BY <1>2, <1>3, <1>4, <1>5, <1>7, <1>8

\* Raising ends the script and marks it as failed.
LEMMA RaiseMoves ==
    ASSUME ControlInv, todo # <<>>, Raise
    PROVE  /\ cmd' = cmd /\ script' = script /\ steps' = steps /\ todo' = <<>> /\ frame' = {}
           /\ failed_steps' = failed_steps \cup {script} /\ failed_steps' # {} /\ ~Running' /\ TodoInv'
           /\ failed_steps' \in SUBSET Scripts /\ todo' \in Seq(AnyStep)
<1>1. /\ cmd' = cmd /\ script' = script /\ steps' = steps /\ todo' = <<>> /\ frame' = {}
      /\ failed_steps' = failed_steps \cup {script}
  BY DEF Raise
<1>2. script' \in failed_steps' /\ ~Running'
  BY <1>1 DEF Running
<1>3. script \in Scripts /\ failed_steps' \in SUBSET Scripts
  BY <1>1, AtStep DEF ControlInv, FigureTypeOK
<1>4. Prog' = Prog /\ Len(Prog) \in Nat
  BY <1>1, AtStep DEF Prog
<1>5. todo' \in Seq(AnyStep) /\ Len(todo') = 0
  BY <1>1
<1>6. TodoInv'
  BY <1>1, <1>4, <1>5 DEF TodoInv
<1> QED
  BY <1>1, <1>2, <1>3, <1>5, <1>6

\* The next place of STEPS is the first of those that are left.
LEMMA FirstOfSteps ==
    ASSUME FigureTypeOK, steps # {}
    PROVE  Min(steps) \in steps /\ Min(steps) \in 1 .. 9 /\ \A i \in steps : Min(steps) <= i
<1>1. 1 \in Int /\ 9 \in Int
  OBVIOUS
<1>2. IsFiniteSet(1 .. 9)
  BY ONLY <1>1, FS_Interval, Zenon
<1>3. steps \in SUBSET (1 .. 9) /\ steps \in SUBSET Int
  BY DEF FigureTypeOK
<1>4. IsFiniteSet(steps)
  BY <1>2, <1>3, FS_Subset
<1> QED
  BY <1>3, <1>4, MinOfFinite

\* Where a regeneration is.
LEMMA Regenerating ==
    ASSUME ControlInv, cmd.kind = "regen"
    PROVE  /\ cmd.selected \subseteq AllSteps
           /\ script # None => script \in AllSteps /\ script \in cmd.selected
           /\ \A i \in steps : i \in 1 .. 9 /\ ScriptAt(i) \in cmd.selected /\ ScriptAt(i) \notin failed_steps
                               /\ ScriptAt(i) # script
           /\ \A c \in 1 .. 9 : script = ScriptAt(c) => steps = StillToCome(c)
           /\ script = None => steps = StillToCome(0)
<1>1. PICK c \in 0 .. 9 : /\ IF c = 0 THEN script = None ELSE script = ScriptAt(c) /\ script \in cmd.selected
                          /\ steps = StillToCome(c)
  BY DEF ControlInv, CommandInv
<1>2. cmd.selected \subseteq AllSteps
  BY DEF ControlInv, CommandInv
<1>3. \A d \in 1 .. 9 : script = ScriptAt(d) => d = c
  BY <1>1, PlacesAreDistinct
<1>4. script = None => c = 0
  BY <1>1, PlacesAreDistinct
<1>5. \A i \in steps : i \in 1 .. 9 /\ i > c /\ ScriptAt(i) \in cmd.selected /\ ScriptAt(i) \notin failed_steps
  BY <1>1 DEF StillToCome
<1>6. \A i \in steps : ScriptAt(i) # script
  <2> SUFFICES ASSUME NEW i \in steps
               PROVE  ScriptAt(i) # script
    OBVIOUS
  <2>1. i \in 1 .. 9 /\ i > c
    BY <1>5
  <2>2. CASE c = 0
    BY <1>1, <2>1, <2>2, PlacesAreDistinct
  <2>3. CASE c # 0
    <3>1. c \in 1 .. 9 /\ script = ScriptAt(c) /\ i # c
      BY <1>1, <2>1, <2>3
    <3> QED
      BY <2>1, <3>1, PlacesAreDistinct
  <2> QED
    BY <2>2, <2>3
<1>7. script # None => script \in AllSteps /\ script \in cmd.selected
  BY <1>1, <1>2
<1>8. \A d \in 1 .. 9 : script = ScriptAt(d) => steps = StillToCome(d)
  BY <1>1, <1>3
<1> QED
  BY <1>1, <1>2, <1>4, <1>5, <1>6, <1>7, <1>8

\* The state between commands is of its type.
LEMMA IdleIsTyped == Idle \in CommandType /\ Idle.kind = "idle" /\ Idle.selected = {} /\ NoReport.cmd = Idle /\ ~NoReport.ok
BY DEF Idle, CommandType, NoReport

\* The first state satisfies the control part.
LEMMA InitControl == Init => ControlInv
<1> SUFFICES ASSUME Init
             PROVE  ControlInv
  OBVIOUS
<1>1. IsOutput(Missing) /\ \A c : IsOutput(SweepOutput(c, 0, TRUE))
  BY DEF IsOutput, Missing, SweepOutput, Output
<1>2. FigureTypeOK
  <2>1. rev \in 0 .. MaxEdits /\ faults \in Nat
    BY PipelineAssumption DEF Init
  <2>2. results = [p \in Protocol |-> results[p]] /\ \A p \in Protocol : IsOutput(results[p])
    BY <1>1 DEF Init
  <2>3. sweeps = [c \in Csvs |-> sweeps[c]] /\ \A c \in Csvs : IsOutput(sweeps[c])
    BY <1>1 DEF Init
  <2>4. artifacts = [a \in Artifacts |-> artifacts[a]]
    BY DEF Init
  <2>5. cmd \in CommandType /\ report.cmd \in CommandType /\ report.ok \in BOOLEAN
    BY IdleIsTyped DEF Init, NoReport
  <2>6. script = None /\ steps = {} /\ todo = <<>> /\ frame = {} /\ failed_steps = {} /\ drawn = {} /\ lost = FALSE
    BY DEF Init
  <2>8. todo \in Seq(AnyStep)
    BY <2>6
  <2>7. \A o \in frame : IsOutput(o)
    BY <2>6
  <2>9. FilesTypeOK
    BY <2>2, <2>3, <2>4, <2>6, <2>7 DEF FilesTypeOK
  <2> QED
    BY <2>1, <2>5, <2>6, <2>8, <2>9 DEF FigureTypeOK
<1>3. CommandInv
  BY IdleIsTyped DEF Init, CommandInv, Idle, NoReport
<1>4. TodoInv
  BY ScriptsAre DEF Init, TodoInv
<1> QED
  BY <1>2, <1>3, <1>4 DEF ControlInv

\* --only selects scripts of STEPS.
LEMMA SelectedAreSteps == \A only : Selected(only) \subseteq AllSteps
BY StepsTable, ScriptsAre DEF Selected, AllSteps

\* What the head of every command leaves behind.
LEMMA StartMoves ==
    ASSUME ControlInv, NEW kind, NEW force, NEW selected, Start(kind, force, selected)
    PROVE  /\ cmd = Idle /\ script = None /\ todo = <<>>
           /\ cmd' = [kind |-> kind, force |-> force, selected |-> selected, start |-> rev]
           /\ frame' = {} /\ failed_steps' = {} /\ drawn' = {} /\ lost' = FALSE /\ report' = NoReport
           /\ UNCHANGED <<disk, rev, faults>>
BY DEF Start, ControlInv, CommandInv, TodoInv

\* regen_figures.py starts at the head of STEPS.
LEMMA RegenControl ==
    ASSUME ControlInv, NEW only, NEW force \in BOOLEAN, NEW no_run \in BOOLEAN, Regen(only, force, no_run)
    PROVE  /\ ControlInv'
           /\ cmd'.kind = "regen" /\ script' = None /\ \A s \in cmd'.selected : \E i \in steps' : ScriptAt(i) = s
<1> DEFINE sel == IF no_run THEN {} ELSE Selected(only)
<1>1. /\ Start("regen", force, sel) /\ script' = None /\ todo' = <<>>
      /\ steps' = {i \in DOMAIN STEPS : ~no_run /\ STEPS[i].script \in Selected(only)}
  BY DEF Regen
<1>2. sel \subseteq AllSteps /\ sel \subseteq Scripts
  BY SelectedAreSteps, ScriptsAre
<1>3. steps' = {i \in 1 .. 9 : ScriptAt(i) \in sel}
  BY <1>1, StepsTable DEF ScriptAt
<1> HIDE DEF sel
<1>4. /\ cmd' = [kind |-> "regen", force |-> force, selected |-> sel, start |-> rev]
      /\ frame' = {} /\ failed_steps' = {} /\ drawn' = {} /\ lost' = FALSE /\ report' = NoReport
      /\ UNCHANGED <<disk, rev, faults>>
  BY <1>1, StartMoves
<1>5. FigureTypeOK'
  <2>1. cmd' \in CommandType
    BY <1>2, <1>4 DEF ControlInv, FigureTypeOK, CommandType
  <2>2. report'.cmd \in CommandType /\ report'.ok \in BOOLEAN
    BY <1>4, IdleIsTyped DEF NoReport
  <2>3. todo' \in Seq(AnyStep) /\ steps' \in SUBSET (1 .. 9) /\ script' \in Scripts \cup {None}
    BY <1>1, <1>3
  <2>4. FilesTypeOK'
    BY <1>4 DEF ControlInv, FigureTypeOK, FilesTypeOK, IsOutput, disk
  <2> QED
    BY <1>4, <2>1, <2>2, <2>3, <2>4 DEF ControlInv, FigureTypeOK
<1>6. CommandInv'
  <2>1. cmd'.kind = "regen" /\ cmd'.selected = sel /\ cmd'.start = rev
    BY <1>4
  <2>2. steps' = StillToCome(0)'
    BY <1>3, <1>4, <2>1 DEF StillToCome
  <2>3. cmd' # Idle
    BY <2>1, IdleIsTyped
  <2>4. rev' = rev /\ rev \in Nat /\ report'.cmd.start <= rev'
    BY <1>4 DEF ControlInv, FigureTypeOK, NoReport, Idle
  <2> QED
    BY <1>1, <1>2, <1>4, <2>1, <2>2, <2>3, <2>4 DEF CommandInv
<1>7. TodoInv'
  BY <1>1, <1>4, ScriptsAre DEF TodoInv
<1>8. \A s \in sel : \E i \in 1 .. 9 : ScriptAt(i) = s
  BY <1>2, ScriptsAre
<1> QED
  BY <1>1, <1>3, <1>4, <1>5, <1>6, <1>7, <1>8 DEF ControlInv

\* A script starts with its whole program to do.
LEMMA ProgramIsTodo ==
    ASSUME script' \in Scripts, todo' = Prog'
    PROVE  /\ todo' \in Seq(AnyStep) /\ todo' # <<>> /\ Pos' = 1 /\ Len(todo') > 0
           /\ \A j \in 1 .. Len(todo') : todo'[j] = Prog'[Pos' - 1 + j]
<1>1. Shape(script', Prog')
  BY ProgramsHaveShape DEF Prog
<1>2. Prog' \in Seq(AnyStep) /\ Len(Prog') > 0 /\ Len(Prog') \in Nat
  BY <1>1, LenProperties DEF Shape
<1>3. Pos' = 1
  BY <1>2 DEF Pos
<1>4. todo' # <<>>
  BY <1>2
<1> QED
  BY <1>2, <1>3, <1>4

\* A script run by hand is the only one selected.
LEMMA RunByHandControl ==
    ASSUME ControlInv, NEW s \in ByHand, NEW force \in BOOLEAN, RunByHand(s, force)
    PROVE  /\ ControlInv' /\ cmd'.kind = "script" /\ script' = s /\ Pos' = 1 /\ todo' = Prog' /\ s \in Scripts
<1>1. Start("script", force, {s}) /\ script' = s /\ todo' = Program(s) /\ steps' = {} /\ s \in Scripts
  BY PipelineAssumption DEF RunByHand
<1>2. /\ cmd' = [kind |-> "script", force |-> force, selected |-> {s}, start |-> rev]
      /\ frame' = {} /\ failed_steps' = {} /\ drawn' = {} /\ lost' = FALSE /\ report' = NoReport
      /\ UNCHANGED <<disk, rev, faults>>
  BY <1>1, StartMoves
<1>3. todo' = Prog'
  BY <1>1 DEF Prog
<1>4. /\ todo' \in Seq(AnyStep) /\ todo' # <<>> /\ Pos' = 1
      /\ \A j \in 1 .. Len(todo') : todo'[j] = Prog'[Pos' - 1 + j]
  BY <1>1, <1>3, ProgramIsTodo
<1>5. FigureTypeOK'
  <2>1. cmd' \in CommandType
    BY <1>1, <1>2 DEF ControlInv, FigureTypeOK, CommandType
  <2>2. report'.cmd \in CommandType /\ report'.ok \in BOOLEAN
    BY <1>2, IdleIsTyped DEF NoReport
  <2>3. FilesTypeOK'
    BY <1>2 DEF ControlInv, FigureTypeOK, FilesTypeOK, IsOutput, disk
  <2> QED
    BY <1>1, <1>2, <1>4, <2>1, <2>2, <2>3 DEF ControlInv, FigureTypeOK
<1>6. CommandInv'
  <2>1. cmd'.kind = "script" /\ cmd'.selected = {s} /\ cmd'.start = rev
    BY <1>2
  <2>2. cmd' # Idle
    BY <2>1, IdleIsTyped
  <2>3. rev' = rev /\ rev \in Nat /\ report'.cmd.start <= rev'
    BY <1>2 DEF ControlInv, FigureTypeOK, NoReport, Idle
  <2> QED
    BY <1>1, <1>2, <2>1, <2>2, <2>3, ScriptsAre DEF CommandInv
<1>7. TodoInv'
  <2>1. script' # None /\ script' \notin failed_steps' /\ Len(todo') <= Len(Prog')
    BY <1>1, <1>2, <1>3, <1>4, ScriptsAre, LenProperties
  <2> QED
    BY <1>4, <2>1 DEF TodoInv
<1> QED
  BY <1>1, <1>2, <1>3, <1>4, <1>5, <1>6, <1>7 DEF ControlInv

\* A step of the running script: the control part only depends on how the script goes on.
LEMMA StepControl ==
    ASSUME ControlInv, todo # <<>>, Advance \/ Raise, UNCHANGED <<rev, report>>, faults' \in Nat, FilesTypeOK'
    PROVE  ControlInv'
<1>1. FigureTypeOK /\ CommandInv /\ TodoInv /\ cmd # Idle /\ script # None /\ report = NoReport
  BY AtStep DEF ControlInv, CommandInv
<1>2. /\ cmd' = cmd /\ script' = script /\ steps' = steps /\ failed_steps \subseteq failed_steps'
      /\ failed_steps' \subseteq failed_steps \cup {script}
      /\ failed_steps' \in SUBSET Scripts /\ todo' \in Seq(AnyStep) /\ TodoInv'
  BY <1>1, AdvanceMoves, RaiseMoves DEF FigureTypeOK
<1>3. FigureTypeOK'
  BY <1>1, <1>2 DEF FigureTypeOK
<1>4. CommandInv'
  <2>1. CASE cmd.kind = "regen"
    <3>1. /\ cmd.selected \subseteq AllSteps
          /\ \A i \in steps : i \in 1 .. 9 /\ ScriptAt(i) # script
      BY <2>1, Regenerating
    <3>2. PICK c \in 0 .. 9 : /\ IF c = 0 THEN script = None ELSE script = ScriptAt(c) /\ script \in cmd.selected
                              /\ steps = StillToCome(c)
      BY <1>1, <2>1 DEF CommandInv
    <3>3. steps' = StillToCome(c)'
      BY <1>2, <3>1, <3>2 DEF StillToCome
    <3>4. \E d \in 0 .. 9 : /\ IF d = 0 THEN script' = None ELSE script' = ScriptAt(d) /\ script' \in cmd'.selected
                            /\ steps' = StillToCome(d)'
      BY <1>2, <3>2, <3>3
    <3> QED
      BY <1>1, <1>2, <2>1, <3>1, <3>4 DEF CommandInv
  <2>2. CASE cmd.kind # "regen"
    BY <1>1, <1>2, <2>2 DEF CommandInv
  <2> QED
    BY <2>1, <2>2
<1> QED
  BY <1>2, <1>3, <1>4 DEF ControlInv

\* The fields of a run.
LEMMA RunConfigIsTyped ==
    \A x \in AnyStep : x.op = "run_config" =>
        x.arg.protocol \in Protocol /\ x.arg.seed \in Nat /\ x.arg.writer \in WriterNames /\ x.arg.toml \in Tomls
<1> SUFFICES ASSUME NEW x \in AnyStep, x.op = "run_config"
             PROVE  x.arg.protocol \in Protocol /\ x.arg.seed \in Nat /\ x.arg.writer \in WriterNames /\ x.arg.toml \in Tomls
  OBVIOUS
<1>1. x \in AllRunConfigs
  BY StepFields DEF AnyStep
<1>2. PICK w \in WriterNames, t \in Tomls, p \in Protocol, s \in Nat : x = RunConfig(w, t, p, s)
  BY <1>1 DEF AllRunConfigs
<1> QED
  BY <1>2, StepFields

\* The fields of an output.
LEMMA OutputFields ==
    \A t, p, s, r, w : LET o == Output(t, p, s, r, w) IN
        /\ o.toml = t /\ o.protocol = p /\ o.seed = s /\ o.rev = r /\ (w \in BOOLEAN => o.whole = w)
        /\ r \in Nat /\ w \in BOOLEAN => IsOutput(o)
        /\ Conf(o) = <<t, p, s>>
BY DEF Output, IsOutput, Conf

\* A missing file is the output of nothing.
LEMMA MissingIs == IsOutput(Missing) /\ Missing.toml = None /\ Missing.whole = FALSE
BY DEF Missing, IsOutput, Output

\* What is done is the step of the program that the script has reached.
LEMMA Doings ==
    ASSUME ControlInv, NEW op, Doing(op)
    PROVE  todo # <<>> /\ Prog[Pos].op = op /\ Arg = Prog[Pos].arg
<1>1. todo # <<>> /\ Head(todo).op = op
  BY DEF Doing
<1>2. Head(todo) = Prog[Pos]
  BY <1>1, AtStep
<1> QED
  BY <1>1, <1>2 DEF Arg

\* The actions of a script keep the control part, one lemma each.
LEMMA SweepControl == ASSUME ControlInv, DoSweep PROVE ControlInv'
<1>1. todo # <<>> /\ Arg \in Csvs
  BY Doings, AtStep DEF DoSweep, StepShape
<1>2. FigureTypeOK /\ FilesTypeOK /\ rev \in Nat
  BY DEF ControlInv, FigureTypeOK
<1>3. IsOutput(SweepOutput(Arg, rev, TRUE)) /\ IsOutput(SweepOutput(Arg, rev, FALSE))
  BY <1>2, OutputFields DEF SweepOutput
<1>4. sweeps' \in {sweeps, [sweeps EXCEPT ![Arg] = SweepOutput(Arg, rev, TRUE)],
                           [sweeps EXCEPT ![Arg] = SweepOutput(Arg, rev, FALSE)]}
  BY DEF DoSweep
<1>5. UNCHANGED <<results, artifacts, drawn, lost, rev, report>> /\ frame' \subseteq frame
      /\ (Advance \/ Raise) /\ faults' \in Nat
  <2>1. UNCHANGED <<results, artifacts, drawn, lost, rev, report>> /\ frame' \subseteq frame /\ (Advance \/ Raise)
    BY DEF DoSweep, Raise
  <2>2. faults' = faults \/ faults' = faults + 1
    BY DEF DoSweep, Fault
  <2> QED
    BY <1>2, <2>1, <2>2 DEF FigureTypeOK
<1>6. sweeps' = [c \in Csvs |-> sweeps'[c]] /\ \A c \in Csvs : IsOutput(sweeps'[c])
  BY <1>1, <1>2, <1>3, <1>4 DEF FilesTypeOK
<1>7. FilesTypeOK'
  <2>1. \A o \in frame' : IsOutput(o)
    BY <1>2, <1>5 DEF FilesTypeOK
  <2> QED
    BY <1>2, <1>5, <1>6, <2>1 DEF FilesTypeOK, IsOutput
<1> QED
  BY <1>1, <1>5, <1>7, StepControl

LEMMA ReadSweepControl == ASSUME ControlInv, DoReadSweep PROVE ControlInv'
<1>1. todo # <<>> /\ Arg \in Csvs
  BY Doings, AtStep DEF DoReadSweep, StepShape
<1>2. FigureTypeOK /\ FilesTypeOK
  BY DEF ControlInv, FigureTypeOK
<1>3. frame' \in {{sweeps[Arg]}, {}} /\ (Advance \/ Raise) /\ UNCHANGED <<disk, drawn, lost, rev, faults, report>>
  BY DEF DoReadSweep, Raise, budget
<1>4. FilesTypeOK'
  BY <1>1, <1>2, <1>3 DEF FilesTypeOK, IsOutput, disk
<1> QED
  BY <1>1, <1>2, <1>3, <1>4, StepControl DEF FigureTypeOK

LEMMA RunConfigControl == ASSUME ControlInv, DoRunConfig PROVE ControlInv'
<1>1. todo # <<>> /\ Arg.protocol \in Protocol
  BY Doings, AtStep, RunConfigIsTyped DEF DoRunConfig
<1>2. FigureTypeOK /\ FilesTypeOK /\ rev \in Nat
  BY DEF ControlInv, FigureTypeOK
<1> DEFINE o == Output(Arg.toml, Arg.protocol, Arg.seed, rev, TRUE)
<1>3. IsOutput(o)
  BY <1>2, OutputFields
<1>4. /\ results' \in {results, [results EXCEPT ![Arg.protocol] = o]}
      /\ frame' \subseteq frame \cup {results'[Arg.protocol]}
      /\ lost' \in {lost, TRUE} /\ (Advance \/ Raise)
      /\ UNCHANGED <<sweeps, artifacts, drawn, rev, report>>
  BY DEF DoRunConfig, Raise
<1>5. faults' \in Nat
  <2>1. faults' = faults \/ faults' = faults + 1
    BY DEF DoRunConfig, Fault
  <2> QED
    BY <1>2, <2>1 DEF FigureTypeOK
<1> HIDE DEF o
<1>6. results' = [p \in Protocol |-> results'[p]] /\ \A p \in Protocol : IsOutput(results'[p])
  BY <1>1, <1>2, <1>3, <1>4 DEF FilesTypeOK
<1>7. \A q \in frame' : IsOutput(q)
  BY <1>1, <1>2, <1>4, <1>6 DEF FilesTypeOK
<1>8. FilesTypeOK'
  BY <1>2, <1>4, <1>6, <1>7 DEF FilesTypeOK, IsOutput
<1> QED
  BY <1>1, <1>4, <1>5, <1>8, StepControl

LEMMA CheckControl == ASSUME ControlInv, DoCheckProvenance PROVE ControlInv'
<1>1. todo # <<>>
  BY Doings DEF DoCheckProvenance
<1>2. UNCHANGED <<disk, frame, drawn, lost, rev, faults, report>> /\ Advance
  BY DEF DoCheckProvenance, budget
<1>3. FilesTypeOK' /\ faults' \in Nat
  BY <1>2 DEF ControlInv, FigureTypeOK, FilesTypeOK, IsOutput, disk
<1> QED
  BY <1>1, <1>2, <1>3, StepControl

LEMMA ReadResultsControl == ASSUME ControlInv, DoReadResults PROVE ControlInv'
<1>1. todo # <<>>
  BY Doings DEF DoReadResults
<1>2. /\ UNCHANGED <<disk, drawn, lost, rev, faults, report>> /\ (Advance \/ Raise)
      /\ frame' \subseteq {results[p] : p \in Protocol}
  BY DEF DoReadResults, Raise, budget
<1>3. FilesTypeOK' /\ faults' \in Nat
  BY <1>2 DEF ControlInv, FigureTypeOK, FilesTypeOK, IsOutput, disk
<1> QED
  BY <1>1, <1>2, <1>3, StepControl

\* The files named by a savefig step are written up to some place; all of them if the script goes
\* on, unless it is quiet about what it read.
Wrote(m) ==
    LET files == Arg.files
        written == {files[i] : i \in 1 .. m}
    IN /\ drawn' = drawn \cup written /\ written \subseteq ToSet(files)
       /\ \A a \in written : artifacts'[a] = frame
       /\ \A a \in Artifacts \ written : artifacts'[a] = artifacts[a]
Quiet == frame = {} \/ (NothingCommitted /\ Arg.empty = "quiet")
Refused == frame # {} /\ NothingCommitted /\ Arg.empty = "refuse"

\* What a savefig step does, whatever fails.
LEMMA SavefigMoves ==
    ASSUME ControlInv, DoSavefig
    PROVE  /\ todo # <<>> /\ Prog[Pos].op = "savefig" /\ Arg = Prog[Pos].arg /\ Arg.files \in Lists
           /\ UNCHANGED <<results, sweeps, last_writer, manifest, paper, lost, rev, report>>
           /\ artifacts' = [a \in Artifacts |-> artifacts'[a]]
           /\ (faults' = faults \/ Fault)
           /\ \E m \in 0 .. Len(Arg.files) :
                /\ Wrote(m)
                /\ \/ Advance /\ frame' = {} /\ faults' = faults
                      /\ ~Refused /\ (~Quiet => m = Len(Arg.files))
                   \/ Raise /\ (Fault \/ (Refused /\ faults' = faults))
<1>1. todo # <<>> /\ Prog[Pos].op = "savefig" /\ Arg = Prog[Pos].arg /\ Arg.files \in Lists
  BY Doings, AtStep DEF DoSavefig, StepShape
<1>2. UNCHANGED <<results, sweeps, last_writer, manifest, paper, lost, rev, report>>
  BY DEF DoSavefig
<1> DEFINE files == Arg.files
<1>3. files \in Seq(Artifacts) /\ Len(files) \in Nat /\ Len(files) > 0 /\ ToSet(files) = {files[i] : i \in 1 .. Len(files)}
      /\ ToSet(files) \subseteq Artifacts
  <2>1. files \in Seq(Artifacts) /\ Len(files) > 0 /\ ToSet(files) = {files[i] : i \in 1 .. Len(files)}
    BY <1>1, ListsAre
  <2> HIDE DEF files
  <2>2. Len(files) \in Nat /\ \A i \in 1 .. Len(files) : files[i] \in Artifacts
    BY <2>1, LenProperties, ElementOfSeq
  <2> QED
    BY <2>1, <2>2
<1>4. artifacts = [a \in Artifacts |-> artifacts[a]]
  BY DEF ControlInv, FigureTypeOK, FilesTypeOK
<1>5. ASSUME UNCHANGED <<artifacts, drawn>>
      PROVE  Wrote(0) /\ artifacts' = [a \in Artifacts |-> artifacts'[a]]
  BY <1>4, <1>5 DEF Wrote
<1>6. ASSUME NEW m \in 0 .. Len(files), Written(files, m)
      PROVE  Wrote(m) /\ artifacts' = [a \in Artifacts |-> artifacts'[a]]
  <2> HIDE DEF files
  <2> DEFINE W == {files[i] : i \in 1 .. m}
  <2>1. W \subseteq ToSet(files) /\ W \subseteq Artifacts
    BY <1>3
  <2>2. drawn' = drawn \cup W /\ artifacts' = [a \in Artifacts |-> IF a \in W THEN frame ELSE artifacts[a]]
    BY <1>6 DEF Written
  <2> HIDE DEF W
  <2>3. /\ \A a \in W : artifacts'[a] = frame
        /\ \A a \in Artifacts \ W : artifacts'[a] = artifacts[a]
        /\ artifacts' = [a \in Artifacts |-> artifacts'[a]]
    BY <2>1, <2>2
  <2>4. Wrote(m) <=> /\ drawn' = drawn \cup W /\ W \subseteq ToSet(files)
                     /\ \A a \in W : artifacts'[a] = frame
                     /\ \A a \in Artifacts \ W : artifacts'[a] = artifacts[a]
    BY DEF Wrote, W, files
  <2> QED
    BY <2>1, <2>2, <2>3, <2>4
<1>7. \/ Quiet /\ Advance /\ frame' = {} /\ UNCHANGED <<artifacts, drawn, faults>>
      \/ Refused /\ Raise /\ UNCHANGED <<artifacts, drawn, faults>>
      \/ ~Quiet /\ ~Refused /\ Written(files, Len(files)) /\ Advance /\ frame' = {} /\ UNCHANGED faults
      \/ \E m \in 0 .. Len(files) - 1 : Written(files, m) /\ Fault /\ Raise
  BY DEF DoSavefig, Quiet, Refused
<1>8. Quiet => ~Refused
  BY DEF Quiet, Refused
<1> HIDE DEF files
<1>9. 0 \in 0 .. Len(files) /\ Len(files) \in 0 .. Len(files) /\ \A m \in 0 .. Len(files) - 1 : m \in 0 .. Len(files)
  BY <1>3
<1>10. /\ artifacts' = [a \in Artifacts |-> artifacts'[a]] /\ (faults' = faults \/ Fault)
       /\ \E m \in 0 .. Len(files) :
                /\ Wrote(m)
                /\ \/ Advance /\ frame' = {} /\ faults' = faults
                      /\ ~Refused /\ (~Quiet => m = Len(files))
                   \/ Raise /\ (Fault \/ (Refused /\ faults' = faults))
  <2>1. CASE Quiet /\ Advance /\ frame' = {} /\ UNCHANGED <<artifacts, drawn, faults>>
    BY <1>5, <1>8, <1>9, <2>1
  <2>2. CASE Refused /\ Raise /\ UNCHANGED <<artifacts, drawn, faults>>
    BY <1>5, <1>9, <2>2
  <2>3. CASE ~Quiet /\ ~Refused /\ Written(files, Len(files)) /\ Advance /\ frame' = {} /\ UNCHANGED faults
    BY <1>6, <1>9, <2>3
  <2>4. CASE \E m \in 0 .. Len(files) - 1 : Written(files, m) /\ Fault /\ Raise
    <3>1. PICK m \in 0 .. Len(files) - 1 : Written(files, m) /\ Fault /\ Raise
      BY <2>4
    <3>2. m \in 0 .. Len(files) /\ Wrote(m) /\ artifacts' = [a \in Artifacts |-> artifacts'[a]]
      BY <1>6, <1>9, <3>1
    <3> QED
      BY <3>1, <3>2
  <2> QED
    BY <1>7, <2>1, <2>2, <2>3, <2>4
<1> QED
  BY <1>1, <1>2, <1>10, Zenon DEF files

LEMMA SavefigControl == ASSUME ControlInv, DoSavefig PROVE ControlInv'
<1>1. FigureTypeOK /\ FilesTypeOK
  BY DEF ControlInv, FigureTypeOK
<1>2. /\ todo # <<>> /\ Arg.files \in Lists /\ UNCHANGED <<results, sweeps, lost, rev, report>>
      /\ artifacts' = [a \in Artifacts |-> artifacts'[a]] /\ (faults' = faults \/ Fault) /\ (Advance \/ Raise)
      /\ frame' = {} /\ \E m \in 0 .. Len(Arg.files) : Wrote(m)
  BY SavefigMoves DEF Raise
<1>3. faults' \in Nat
  BY <1>1, <1>2 DEF FigureTypeOK, Fault
<1>4. drawn' \in SUBSET Artifacts
  <2>1. ToSet(Arg.files) \subseteq Artifacts
    <3>1. Arg.files \in Seq(Artifacts) /\ ToSet(Arg.files) = {Arg.files[i] : i \in 1 .. Len(Arg.files)}
      BY <1>2, ListsAre
    <3>2. \A i \in 1 .. Len(Arg.files) : Arg.files[i] \in Artifacts
      BY <3>1, ElementOfSeq
    <3> QED
      BY <3>1, <3>2
  <2>2. drawn' \subseteq drawn \cup ToSet(Arg.files)
    BY <1>2 DEF Wrote
  <2> QED
    BY <1>1, <2>1, <2>2 DEF FilesTypeOK
<1>5. FilesTypeOK'
  BY <1>1, <1>2, <1>4 DEF FilesTypeOK, IsOutput
<1> QED
  BY <1>2, <1>3, <1>5, StepControl

\* The loop over STEPS takes the next place, or skips plot_paper_energy.py when the script it
\* depends on has failed.
LEMMA NextStepMoves ==
    ASSUME ControlInv, NextStep
    PROVE  LET m == Min(steps) IN
           /\ m \in 1 .. 9 /\ m \in steps /\ cmd.kind = "regen" /\ cmd' = cmd /\ todo = <<>>
           /\ steps' = steps \ {m} /\ frame' = {} /\ UNCHANGED <<disk, rev, faults, report, drawn, lost>>
           /\ ScriptAt(m) \in cmd.selected /\ ScriptAt(m) \in AllSteps
           /\ ScriptAt(m) # script /\ ScriptAt(m) \notin failed_steps
           /\ \A i \in steps' : i > m /\ i \in 1 .. 9
           /\ \A j \in m + 1 .. 9 : script # ScriptAt(j)
           /\ \/ /\ script' = ScriptAt(m) /\ todo' = Prog' /\ failed_steps' = failed_steps
                 /\ m = 8 => "plot_stacked_bar" \notin failed_steps
              \/ /\ m = 8 /\ "plot_stacked_bar" \in failed_steps /\ failed_steps' = failed_steps \cup {ScriptAt(m)}
                 /\ script' = script /\ todo' = <<>>
<1> DEFINE m == Min(steps)
<1>1. /\ cmd.kind = "regen" /\ todo = <<>> /\ steps # {} /\ FigureTypeOK
      /\ cmd' = cmd /\ steps' = steps \ {m} /\ frame' = {} /\ UNCHANGED <<disk, rev, faults, report, drawn, lost>>
  BY DEF NextStep, ControlInv, budget
<1>2. m \in 1 .. 9 /\ m \in steps /\ \A i \in steps : m <= i
  BY <1>1, FirstOfSteps
<1>3. /\ ScriptAt(m) \in cmd.selected /\ ScriptAt(m) \notin failed_steps /\ ScriptAt(m) # script
      /\ cmd.selected \subseteq AllSteps /\ \A i \in steps : i \in 1 .. 9
      /\ \A c \in 1 .. 9 : script = ScriptAt(c) => steps = StillToCome(c)
  BY <1>1, <1>2, Regenerating
<1> DEFINE step == STEPS[m]
<1>4. IF step.depends_on \in failed_steps
      THEN failed_steps' = failed_steps \cup {step.script} /\ UNCHANGED <<script, todo>>
      ELSE script' = step.script /\ todo' = Program(step.script) /\ failed_steps' = failed_steps
  BY DEF NextStep
<1> HIDE DEF m
<1>5. step.script = ScriptAt(m) /\ step.depends_on = IF m = 8 THEN "plot_stacked_bar" ELSE None
  BY <1>2, StepsTable DEF ScriptAt
<1>6. None \notin failed_steps
  BY <1>1, ScriptsAre DEF FigureTypeOK
<1> HIDE DEF step
<1>7. \/ /\ script' = ScriptAt(m) /\ todo' = Program(script') /\ failed_steps' = failed_steps
         /\ m = 8 => "plot_stacked_bar" \notin failed_steps
      \/ /\ m = 8 /\ "plot_stacked_bar" \in failed_steps /\ failed_steps' = failed_steps \cup {ScriptAt(m)}
         /\ script' = script /\ todo' = <<>>
  BY <1>1, <1>4, <1>5, <1>6
<1>8. ASSUME NEW j \in m + 1 .. 9, script = ScriptAt(j)
      PROVE  FALSE
  <2>1. j \in 1 .. 9 /\ j > m
    BY <1>2, <1>8
  <2>2. m > j
    BY <1>2, <1>3, <1>8, <2>1 DEF StillToCome
  <2> QED
    BY <1>2, <2>1, <2>2
<1>9. \A i \in steps' : i > m /\ i \in 1 .. 9
  BY <1>1, <1>2, <1>3
<1>10. \A j \in m + 1 .. 9 : script # ScriptAt(j)
  BY <1>8
<1> QED
  BY <1>1, <1>2, <1>3, <1>7, <1>9, <1>10 DEF m, Prog

LEMMA NextStepControl == ASSUME ControlInv, NextStep PROVE ControlInv'
<1>0. PICK m \in 1 .. 9 : m = Min(steps)
  BY NextStepMoves
<1>1. /\ m \in 1 .. 9 /\ m \in steps /\ cmd.kind = "regen" /\ cmd' = cmd /\ todo = <<>>
      /\ steps' = steps \ {m} /\ frame' = {} /\ UNCHANGED <<disk, rev, faults, report, drawn, lost>>
      /\ ScriptAt(m) \in cmd.selected /\ ScriptAt(m) \in AllSteps
      /\ ScriptAt(m) # script /\ ScriptAt(m) \notin failed_steps
      /\ \A i \in steps' : i > m /\ i \in 1 .. 9
  BY <1>0, NextStepMoves
<1>2. \/ script' = ScriptAt(m) /\ todo' = Prog' /\ failed_steps' = failed_steps
      \/ failed_steps' = failed_steps \cup {ScriptAt(m)} /\ script' = script /\ todo' = <<>>
  BY <1>0, NextStepMoves
<1>3. FigureTypeOK /\ CommandInv /\ TodoInv /\ FilesTypeOK /\ AllSteps \subseteq Scripts
  BY ScriptsAre DEF ControlInv, FigureTypeOK
<1>4. FilesTypeOK'
  BY <1>1, <1>3 DEF FilesTypeOK, IsOutput, disk
<1>5. PICK c \in 0 .. 9 : /\ IF c = 0 THEN script = None ELSE script = ScriptAt(c) /\ script \in cmd.selected
                          /\ steps = StillToCome(c)
  BY <1>1, <1>3 DEF CommandInv
<1>6. m > c
  BY <1>1, <1>5 DEF StillToCome
<1>7. script' \in Scripts \cup {None} /\ todo' \in Seq(AnyStep) /\ failed_steps' \in SUBSET Scripts
  <2>1. CASE script' = ScriptAt(m) /\ todo' = Prog' /\ failed_steps' = failed_steps
    BY <1>1, <1>3, <2>1, ProgramIsTodo DEF FigureTypeOK
  <2>2. CASE failed_steps' = failed_steps \cup {ScriptAt(m)} /\ script' = script /\ todo' = <<>>
    <3>1. todo' \in Seq(AnyStep)
      BY <2>2
    <3> QED
      BY <1>1, <1>3, <2>2, <3>1 DEF FigureTypeOK
  <2> QED
    BY <1>2, <2>1, <2>2
<1>8. FigureTypeOK'
  <2>1. rev' \in 0 .. MaxEdits /\ faults' \in Nat /\ cmd' \in CommandType /\ report'.cmd \in CommandType
        /\ report'.ok \in BOOLEAN /\ steps' \in SUBSET (1 .. 9)
    BY <1>1, <1>3 DEF FigureTypeOK
  <2> QED
    BY <1>4, <1>7, <2>1 DEF FigureTypeOK
<1>9. TodoInv'
  <2>1. CASE script' = ScriptAt(m) /\ todo' = Prog' /\ failed_steps' = failed_steps
    <3>1. script' \in Scripts /\ script' # None /\ script' \notin failed_steps'
      BY <1>1, <1>3, <2>1, ScriptsAre
    <3>2. /\ todo' # <<>> /\ Len(todo') > 0 /\ todo' \in Seq(AnyStep)
          /\ \A j \in 1 .. Len(todo') : todo'[j] = Prog'[Pos' - 1 + j]
      BY <2>1, <3>1, ProgramIsTodo
    <3>3. Len(todo') <= Len(Prog')
      BY <2>1, <3>2, LenProperties
    <3> QED
      BY <3>1, <3>2, <3>3 DEF TodoInv
  <2>2. CASE failed_steps' = failed_steps \cup {ScriptAt(m)} /\ script' = script /\ todo' = <<>>
    BY <1>1, <1>3, <2>2 DEF TodoInv, Prog, Pos
  <2> QED
    BY <1>2, <2>1, <2>2
<1>10. \E d \in 0 .. 9 : /\ IF d = 0 THEN script' = None ELSE script' = ScriptAt(d) /\ script' \in cmd'.selected
                         /\ steps' = StillToCome(d)'
  <2>1. CASE script' = ScriptAt(m) /\ todo' = Prog' /\ failed_steps' = failed_steps
    <3>1. steps' = StillToCome(m)'
      BY <1>1, <1>5, <1>6, <2>1 DEF StillToCome
    <3> QED
      BY <1>1, <2>1, <3>1
  <2>2. CASE failed_steps' = failed_steps \cup {ScriptAt(m)} /\ script' = script /\ todo' = <<>>
    <3>1. steps' = StillToCome(c)'
      BY <1>1, <1>5, <1>6, <2>2, PlacesAreDistinct DEF StillToCome
    <3> QED
      BY <1>1, <1>5, <2>2, <3>1
  <2> QED
    BY <1>2, <2>1, <2>2
<1>11. cmd'.selected \subseteq AllSteps /\ cmd' # Idle /\ report' = NoReport
  BY <1>1, <1>3, IdleIsTyped DEF CommandInv
<1>12. CommandInv'
  BY <1>1, <1>3, <1>10, <1>11 DEF CommandInv
<1> QED
  BY <1>8, <1>9, <1>12 DEF ControlInv

\* The end of a command.
LEMMA EndMoves ==
    ASSUME ControlInv, NEW ok \in BOOLEAN, End(ok)
    PROVE  /\ cmd' = Idle /\ script' = None /\ steps' = {} /\ todo' = <<>> /\ frame' = {}
           /\ report' = [cmd |-> cmd, ok |-> ok] /\ report'.cmd = cmd /\ report'.ok = ok
           /\ UNCHANGED <<failed_steps, drawn, lost, rev>>
BY DEF End

LEMMA EndControl ==
    ASSUME ControlInv, NEW ok \in BOOLEAN, End(ok), FilesTypeOK', faults' \in Nat
    PROVE  ControlInv'
<1>1. /\ cmd' = Idle /\ script' = None /\ steps' = {} /\ todo' = <<>> /\ frame' = {}
      /\ report'.cmd = cmd /\ report'.ok = ok /\ UNCHANGED <<failed_steps, rev>>
  BY EndMoves
<1>2. FigureTypeOK /\ CommandInv
  BY DEF ControlInv
<1>3. FigureTypeOK'
  <2>1. todo' \in Seq(AnyStep)
    BY <1>1
  <2>2. rev' \in 0 .. MaxEdits /\ cmd' \in CommandType /\ report'.cmd \in CommandType /\ report'.ok \in BOOLEAN
        /\ failed_steps' \in SUBSET Scripts
    BY <1>1, <1>2, IdleIsTyped DEF FigureTypeOK
  <2> QED
    BY <1>1, <2>1, <2>2 DEF FigureTypeOK
<1>4. CommandInv'
  <2>1. Idle.start = 0 /\ Idle.kind = "idle"
    BY DEF Idle
  <2> QED
    BY <1>1, <1>2, <2>1 DEF CommandInv, FigureTypeOK
<1>5. TodoInv'
  BY <1>1 DEF TodoInv
<1> QED
  BY <1>3, <1>4, <1>5 DEF ControlInv

LEMMA FinishControl == ASSUME ControlInv, Finish PROVE ControlInv'
<1>1. /\ End(failed_steps = {}) /\ (failed_steps = {}) \in BOOLEAN
      /\ UNCHANGED <<results, sweeps, artifacts, faults>>
  BY DEF Finish
<1>2. UNCHANGED <<drawn, lost>> /\ frame' = {}
  BY <1>1 DEF End
<1>3. FilesTypeOK' /\ faults' \in Nat
  BY <1>1, <1>2 DEF ControlInv, FigureTypeOK, FilesTypeOK, IsOutput
<1> QED
  BY <1>1, <1>3, EndControl

\* An interrupt ends the command and may leave a partial summary.
LEMMA InterruptMoves ==
    ASSUME ControlInv, Interrupt
    PROVE  /\ cmd # Idle /\ Fault /\ End(FALSE) /\ UNCHANGED <<results, last_writer, artifacts, manifest, paper, sha>>
           /\ \/ sweeps' = sweeps
              \/ Doing("sweep") /\ sweeps' = [sweeps EXCEPT ![Arg] = SweepOutput(Arg, rev, FALSE)]
BY DEF Interrupt

LEMMA InterruptControl == ASSUME ControlInv, Interrupt PROVE ControlInv'
<1>1. /\ Fault /\ End(FALSE) /\ UNCHANGED <<results, artifacts>>
      /\ \/ sweeps' = sweeps
         \/ Doing("sweep") /\ sweeps' = [sweeps EXCEPT ![Arg] = SweepOutput(Arg, rev, FALSE)]
  BY InterruptMoves
<1>2. UNCHANGED <<drawn, lost>> /\ frame' = {}
  BY <1>1 DEF End
<1>3. FilesTypeOK /\ rev \in Nat /\ faults \in Nat
  BY DEF ControlInv, FigureTypeOK
<1>4. sweeps' = [c \in Csvs |-> sweeps'[c]] /\ \A c \in Csvs : IsOutput(sweeps'[c])
  <2>1. CASE sweeps' = sweeps
    BY <1>3, <2>1 DEF FilesTypeOK
  <2>2. CASE Doing("sweep") /\ sweeps' = [sweeps EXCEPT ![Arg] = SweepOutput(Arg, rev, FALSE)]
    <3>1. Arg \in Csvs
      BY <2>2, Doings, AtStep DEF StepShape
    <3>2. IsOutput(SweepOutput(Arg, rev, FALSE))
      BY <1>3, OutputFields DEF SweepOutput
    <3> QED
      BY <1>3, <2>2, <3>1, <3>2 DEF FilesTypeOK
  <2> QED
    BY <1>1, <2>1, <2>2
<1>5. FilesTypeOK'
  BY <1>1, <1>2, <1>3, <1>4 DEF FilesTypeOK, IsOutput
<1>6. faults' \in Nat
  BY <1>1, <1>3 DEF Fault
<1> QED
  BY <1>1, <1>5, <1>6, EndControl

\* collect_paper_figures.py starts no script.
LEMMA CollectMoves ==
    ASSUME ControlInv, Collect
    PROVE  /\ cmd = Idle /\ UNCHANGED <<budget, process, results, sweeps, last_writer, artifacts, manifest, sha>>
           /\ report'.cmd \in CommandType /\ report'.cmd.kind = "collect" /\ report'.cmd.start = rev
           /\ report'.cmd.selected = {} /\ report'.ok \in BOOLEAN
<1>1. /\ cmd = Idle /\ UNCHANGED <<budget, process, results, sweeps, last_writer, artifacts, manifest, sha>>
      /\ \E ok \in BOOLEAN : report' = [cmd |-> [Idle EXCEPT !.kind = "collect", !.start = rev], ok |-> ok]
  <2> DEFINE all == {f \in DOMAIN MAPPING : artifacts[MAPPING[f]] # {}} = DOMAIN MAPPING
  <2>1. /\ cmd = Idle /\ UNCHANGED <<budget, process, results, sweeps, last_writer, artifacts, manifest, sha>>
        /\ report' = [cmd |-> [Idle EXCEPT !.kind = "collect", !.start = rev], ok |-> all]
    BY DEF Collect
  <2>2. all \in BOOLEAN
    OBVIOUS
  <2> HIDE DEF all
  <2> QED
    BY <2>1, <2>2
<1>2. rev \in Nat
  BY DEF ControlInv, FigureTypeOK
<1> DEFINE x == [Idle EXCEPT !.kind = "collect", !.start = rev]
<1>3. x \in CommandType /\ x.kind = "collect" /\ x.start = rev /\ x.selected = {}
  BY <1>2, IdleIsTyped DEF CommandType
<1> HIDE DEF x
<1>4. PICK ok \in BOOLEAN : report' = [cmd |-> x, ok |-> ok]
  BY <1>1 DEF x
<1>5. report'.cmd = x /\ report'.ok = ok
  BY <1>4
<1> QED
  BY <1>1, <1>3, <1>5

LEMMA CollectControl == ASSUME ControlInv, Collect PROVE ControlInv'
<1>1. /\ cmd = Idle /\ UNCHANGED <<budget, process, results, sweeps, artifacts>>
      /\ report'.cmd \in CommandType /\ report'.cmd.start = rev /\ report'.ok \in BOOLEAN
  BY CollectMoves
<1>2. FigureTypeOK' /\ rev \in Nat
  BY <1>1 DEF ControlInv, FigureTypeOK, FilesTypeOK, IsOutput, process, budget
<1>3. CommandInv'
  BY <1>1, <1>2 DEF ControlInv, CommandInv, StillToCome, process, budget, Idle
<1>4. TodoInv'
  BY <1>1 DEF ControlInv, TodoInv, process, Prog, Pos
<1> QED
  BY <1>2, <1>3, <1>4 DEF ControlInv

LEMMA EditControl == ASSUME ControlInv, Edit PROVE ControlInv'
<1>1. rev' = rev + 1 /\ rev < MaxEdits /\ UNCHANGED <<disk, process, report, faults>>
  BY DEF Edit
<1>2. FilesTypeOK'
  BY <1>1 DEF ControlInv, FigureTypeOK, FilesTypeOK, IsOutput, process, disk
<1>3. rev \in Nat /\ rev' \in 0 .. MaxEdits
  BY <1>1, PipelineAssumption DEF ControlInv, FigureTypeOK
<1>4. FigureTypeOK'
  BY <1>1, <1>2, <1>3 DEF ControlInv, FigureTypeOK, process
<1>5. cmd.start \in Nat /\ report.cmd.start \in Nat
  BY DEF ControlInv, FigureTypeOK, CommandType
<1>6. CommandInv'
  BY <1>1, <1>3, <1>5 DEF ControlInv, CommandInv, StillToCome, process
<1>7. TodoInv'
  BY <1>1 DEF ControlInv, TodoInv, process, Prog, Pos
<1> QED
  BY <1>4, <1>6, <1>7 DEF ControlInv

----------------------------------------------------------------------------
(***************************************************************************)
(* What a command in progress keeps.                                       *)
(***************************************************************************)
CourseInv ==
    /\ FrameInv /\ ResultsInv /\ SweepsInv /\ Undrawn /\ ContentInv /\ EnergyReady /\ QuietInv /\ DrawnInv

\* How the current burst of runs grows.
LEMMA BurstGrows ==
    /\ \A P : Burst(P, 1) = {}
    /\ \A P : \A k \in Nat \ {0} :
         Burst(P, k + 1) = IF P[k].op = "run_config" THEN Burst(P, k) \cup {k} ELSE {}
<1>1. \A P : Burst(P, 1) = {}
  BY DEF Burst
<1> SUFFICES ASSUME NEW P, NEW k \in Nat \ {0}
             PROVE  Burst(P, k + 1) = IF P[k].op = "run_config" THEN Burst(P, k) \cup {k} ELSE {}
  BY <1>1
<1>2. 1 .. (k + 1) - 1 = (1 .. k - 1) \cup {k}
  OBVIOUS
<1>3. \A i \in 1 .. k : i .. (k + 1) - 1 = (i .. k - 1) \cup {k}
  OBVIOUS
<1>4. Burst(P, k + 1) = {i \in (1 .. k - 1) \cup {k} : \A j \in (i .. k - 1) \cup {k} : P[j].op = "run_config"}
  BY <1>2, <1>3 DEF Burst
<1>5. k .. k - 1 = {}
  OBVIOUS
<1> QED
  BY <1>4, <1>5 DEF Burst

\* How the last runs of the protocols change.
LEMMA LastRunGrows ==
    \A P : \A k \in Nat \ {0} :
        /\ \A i \in 1 .. k - 1 : LastRun(P, k + 1, i) <=>
             LastRun(P, k, i) /\ (P[k].op = "run_config" => P[k].arg.protocol # P[i].arg.protocol)
        /\ LastRun(P, k + 1, k) <=> P[k].op = "run_config"
<1> SUFFICES ASSUME NEW P, NEW k \in Nat \ {0}
             PROVE  /\ \A i \in 1 .. k - 1 : LastRun(P, k + 1, i) <=>
                         LastRun(P, k, i) /\ (P[k].op = "run_config" => P[k].arg.protocol # P[i].arg.protocol)
                    /\ LastRun(P, k + 1, k) <=> P[k].op = "run_config"
  OBVIOUS
<1>1. \A i \in 1 .. k - 1 : i + 1 .. (k + 1) - 1 = (i + 1 .. k - 1) \cup {k}
  OBVIOUS
<1>2. k + 1 .. (k + 1) - 1 = {}
  OBVIOUS
<1>3. LastRun(P, k + 1, k) <=> P[k].op = "run_config"
  BY <1>2 DEF LastRun
<1> QED
  BY <1>1, <1>3 DEF LastRun

\* Between commands the course part asks for nothing.
LEMMA IdleCourse == ASSUME ControlInv, cmd = Idle PROVE CourseInv
<1>1. script = None /\ cmd.kind = "idle" /\ None # Audit /\ script # "plot_paper_energy"
  BY IdleIsTyped DEF ControlInv, CommandInv, None, Audit
<1>2. ~Running /\ \A s : ~Done(s)
  BY <1>1 DEF Running, Done
<1> QED
  BY <1>1, <1>2 DEF CourseInv, FrameInv, ResultsInv, SweepsInv, Undrawn, ContentInv, EnergyReady, QuietInv, DrawnInv

\* The same, of the state after a step.
LEMMA IdleCourseNext == ASSUME ControlInv', cmd' = Idle PROVE CourseInv'
<1>1. script' = None /\ cmd'.kind = "idle" /\ None # Audit /\ script' # "plot_paper_energy"
  BY IdleIsTyped DEF ControlInv, CommandInv, None, Audit
<1>2. ~Running' /\ \A s : ~Done(s)'
  BY <1>1 DEF Running, Done
<1> QED
  BY <1>1, <1>2 DEF CourseInv, FrameInv, ResultsInv, SweepsInv, Undrawn, ContentInv, EnergyReady, QuietInv, DrawnInv

\* At the start of a command nothing is read or drawn.
LEMMA RegenCourse ==
    ASSUME ControlInv, NEW only, NEW force \in BOOLEAN, NEW no_run \in BOOLEAN, Regen(only, force, no_run)
    PROVE  CourseInv' /\ ControlInv' /\ cmd' # Idle /\ script' = None /\ UNCHANGED <<results, last_writer, faults>>
<1>1. /\ ControlInv' /\ cmd'.kind = "regen" /\ script' = None
      /\ \A s \in cmd'.selected : \E i \in steps' : ScriptAt(i) = s
  BY RegenControl
<1>2. drawn' = {} /\ UNCHANGED <<disk, faults>>
  BY StartMoves DEF Regen
<1>3. /\ \A s : ~Done(s)' /\ ~Running' /\ script' # Audit /\ script' # "plot_paper_energy"
      /\ cmd' # Idle
  BY <1>1, IdleIsTyped DEF Done, Running, None, Audit
<1>4. SweepsInv'
  <2> SUFFICES ASSUME NEW csv \in Csvs, ScriptAt(SweeperOf[csv]) \in cmd'.selected, SweeperOf[csv] \notin steps'
               PROVE  FALSE
    BY DEF SweepsInv
  <2>1. PICK i \in steps' : ScriptAt(i) = ScriptAt(SweeperOf[csv])
    BY <1>1
  <2>2. i \in 1 .. 9 /\ SweeperOf[csv] \in 1 .. 9
    BY <1>1, TablesAre DEF ControlInv, FigureTypeOK
  <2> QED
    BY <2>1, <2>2, PlacesAreDistinct
<1>5. FrameInv' /\ ResultsInv' /\ Undrawn' /\ ContentInv'
  BY <1>2, <1>3 DEF FrameInv, ResultsInv, Undrawn, ContentInv
<1>6. EnergyReady' /\ QuietInv' /\ DrawnInv'
  BY <1>3 DEF EnergyReady, QuietInv, DrawnInv
<1> QED
  BY <1>1, <1>2, <1>3, <1>4, <1>5, <1>6 DEF CourseInv, disk

LEMMA RunByHandCourse ==
    ASSUME ControlInv, NEW s \in ByHand, NEW force \in BOOLEAN, RunByHand(s, force)
    PROVE  CourseInv' /\ ControlInv' /\ cmd' # Idle /\ UNCHANGED <<results, last_writer, faults>>
<1>1. ControlInv' /\ cmd'.kind = "script" /\ Pos' = 1
  BY RunByHandControl
<1>2. drawn' = {} /\ frame' = {} /\ UNCHANGED <<disk, faults>>
  BY StartMoves DEF RunByHand
<1>3. (\A t : ~Done(t)') /\ cmd' # Idle
  BY <1>1, IdleIsTyped DEF Done
<1>4. FrameInv'
  BY <1>1, <1>2, BurstGrows DEF FrameInv
<1>5. ResultsInv' /\ SweepsInv' /\ Undrawn' /\ ContentInv'
  BY <1>1, <1>2 DEF ResultsInv, SweepsInv, Undrawn, ContentInv
<1>6. EnergyReady' /\ QuietInv'
  BY <1>1, <1>3 DEF EnergyReady, QuietInv
<1>7. DrawnInv'
  BY <1>1, <1>3 DEF DrawnInv
<1> QED
  BY <1>1, <1>2, <1>3, <1>4, <1>5, <1>6, <1>7 DEF CourseInv, disk

\* An edit makes cmd.start differ from rev, and moves nothing.
LEMMA EditCourse == ASSUME ControlInv, CourseInv, Edit PROVE CourseInv'
<1>1. rev' = rev + 1 /\ UNCHANGED <<disk, process, report, faults>>
  BY DEF Edit
<1>2. rev \in Nat /\ cmd.start \in Nat /\ cmd.start <= rev
  BY DEF ControlInv, FigureTypeOK, CommandInv, CommandType
<1>3. cmd' = cmd /\ cmd'.start # rev'
  BY <1>1, <1>2 DEF process
<1>4. UNCHANGED <<results, sweeps, artifacts, script, steps, todo, frame, failed_steps, drawn, lost>>
  BY <1>1 DEF process, disk
<1>5. \A o : IsOutput(o) /\ Fresh(o) => Fresh(o)'
  BY <1>1, <1>2, <1>3 DEF Fresh, IsOutput
<1>6. Prog' = Prog /\ Pos' = Pos /\ Running' = Running
  BY <1>4 DEF Prog, Pos, Running
<1>7. FilesTypeOK
  BY DEF ControlInv, FigureTypeOK
<1>8. FrameInv'
  <2>1. \A o \in frame : Fresh(o) => Fresh(o)'
    BY <1>5, <1>7 DEF FilesTypeOK
  <2> QED
    BY <1>4, <1>6, <2>1 DEF CourseInv, FrameInv
<1>9. ResultsInv'
  <2> SUFFICES ASSUME Running, ~lost, NEW i \in 1 .. Pos - 1, LastRun(Prog, Pos, i)
               PROVE  \E o : /\ o = results[Prog[i].arg.protocol]
                             /\ Conf(o) = ConfOf(Prog[i]) /\ Fresh(o)'
                             /\ i \in Burst(Prog, Pos) => o \in frame
    BY <1>4, <1>6 DEF ResultsInv
  <2>0. PICK o : o = results[Prog[i].arg.protocol]
    OBVIOUS
  <2>1. Conf(o) = ConfOf(Prog[i]) /\ Fresh(o) /\ (i \in Burst(Prog, Pos) => o \in frame)
    BY <2>0 DEF CourseInv, ResultsInv
  <2>2. ControlInv /\ script \in Scripts /\ script # None
    BY DEF Running, ControlInv, FigureTypeOK
  <2>3. i \in 1 .. Len(Prog) /\ Prog \in Seq(AnyStep)
    <3>1. Shape(script, Prog)
      BY <2>2, ProgramsHaveShape DEF Prog
    <3>2. todo \in Seq(AnyStep) /\ Prog \in Seq(AnyStep)
      BY <3>1 DEF ControlInv, FigureTypeOK, Shape
    <3>3. Len(todo) \in Nat /\ Len(Prog) \in Nat
      BY <3>2, LenProperties
    <3>4. Pos - 1 <= Len(Prog) /\ Pos - 1 \in Int
      BY <3>3 DEF Pos
    <3> QED
      BY <3>2, <3>3, <3>4
  <2>4. Prog[i] \in AnyStep /\ Prog[i].op = "run_config"
    BY <2>3, ElementOfSeq DEF LastRun
  <2>5. IsOutput(o)
    <3>1. \A p \in Protocol : IsOutput(results[p])
      BY <1>7 DEF FilesTypeOK
    <3>2. Prog[i].arg.protocol \in Protocol
      BY <2>4, RunConfigIsTyped
    <3> QED
      BY <2>0, <3>1, <3>2
  <2> QED
    BY <1>5, <2>0, <2>1, <2>5
<1>10. SweepsInv'
  BY <1>3 DEF SweepsInv
<1>11. Undrawn'
  BY <1>3, <1>4 DEF CourseInv, Undrawn, Ahead
<1>12. \A F : LastRunEach(F) => LastRunEach(F)'
  BY <1>5 DEF LastRunEach
<1>13. ContentInv'
  <2>1. \A a, F : IsContent(a, F) => IsContent(a, F)'
    BY <1>3, <1>4, <1>12 DEF IsContent
  <2> QED
    BY <1>3, <1>4, <2>1 DEF CourseInv, ContentInv
<1>14. EnergyReady'
  BY <1>3, <1>4, <1>12 DEF CourseInv, EnergyReady
<1>15. \A s : Done(s)' = Done(s)
  BY <1>3, <1>4 DEF Done
<1>16. QuietInv' /\ DrawnInv'
  BY <1>3, <1>4, <1>6, <1>15 DEF CourseInv, QuietInv, DrawnInv
<1> QED
  BY <1>8, <1>9, <1>10, <1>11, <1>13, <1>14, <1>16 DEF CourseInv

\* A program that is done, in a regeneration: its figures were its last step.
LEMMA AtEnd ==
    ASSUME ControlInv, cmd.kind = "regen", todo = <<>>, script # None
    PROVE  /\ script \in AllSteps /\ script \in Scripts /\ Shape(script, Prog) /\ Len(Prog) \in Nat /\ Len(Prog) > 0
           /\ Pos = Len(Prog) + 1 /\ Pos > 1 /\ Pos - 1 = Len(Prog) /\ Prog[Len(Prog)].op = "savefig"
           /\ Burst(Prog, Pos) = {}
<1>1. script \in AllSteps /\ script \in Scripts
  BY Regenerating, ScriptsAre
<1>2. Shape(script, Prog)
  BY <1>1, ProgramsHaveShape DEF Prog
<1>3. Len(Prog) \in Nat /\ Len(Prog) > 0
  BY <1>2, LenProperties DEF Shape
<1>4. Prog[Len(Prog)].op = "savefig"
  <2>1. StepShape(script, Prog, Len(Prog))
    BY <1>2, <1>3 DEF Shape
  <2> QED
    BY <1>1, <2>1 DEF StepShape
<1>5. Pos = Len(Prog) + 1
  BY <1>3 DEF Pos
<1>6. Burst(Prog, Pos) = {}
  <2>1. Len(Prog) \in Nat \ {0}
    BY <1>3
  <2>2. Burst(Prog, Len(Prog) + 1) = {}
    BY <1>4, <2>1, BurstGrows
  <2> QED
    BY <1>5, <2>2
<1> QED
  BY <1>1, <1>2, <1>3, <1>4, <1>5, <1>6

\* When plot_stacked_bar.py is done, every CSV is of the last seed.
LEMMA StackedIsSettled ==
    ASSUME ControlInv, ResultsInv, cmd.kind = "regen", script = "plot_stacked_bar", todo = <<>>, Running, ~lost
    PROVE  LastRunEach({results[p] : p \in Protocol}) /\ \A p \in Protocol : results[p].protocol = p
<1>1. /\ Len(Prog) \in Nat /\ Pos = Len(Prog) + 1 /\ Shape(script, Prog)
  BY AtEnd DEF Running
<1>2. AllSettled(Prog, Pos, "per_prop", LastSeed)
  BY <1>1 DEF Shape
<1>3. \A p \in Protocol : IsOutput(results[p])
  BY DEF ControlInv, FigureTypeOK, FilesTypeOK
<1>4. \A p \in Protocol : Conf(results[p]) = <<"per_prop", p, LastSeed>> /\ Fresh(results[p])
  <2> SUFFICES ASSUME NEW p \in Protocol
               PROVE  Conf(results[p]) = <<"per_prop", p, LastSeed>> /\ Fresh(results[p])
    OBVIOUS
  <2>1. PICK i \in 1 .. Pos - 1 : LastRun(Prog, Pos, i) /\ ConfOf(Prog[i]) = <<"per_prop", p, LastSeed>>
    BY <1>2 DEF AllSettled
  <2>2. Prog[i].arg.protocol = p
    BY <2>1 DEF ConfOf
  <2>3. LET o == results[Prog[i].arg.protocol] IN Conf(o) = ConfOf(Prog[i]) /\ Fresh(o)
    BY <2>1 DEF ResultsInv
  <2> QED
    BY <2>1, <2>2, <2>3
<1>5. \A p \in Protocol : results[p].protocol = p
  BY <1>4 DEF Conf
<1> QED
  BY <1>3, <1>4, <1>5 DEF LastRunEach

\* Taking the next place of STEPS keeps the course part: the energy figures come right behind
\* the runs of plot_stacked_bar.py.
LEMMA NextStepCourse == ASSUME ControlInv, CourseInv, NextStep PROVE CourseInv'
<1>0. PICK m \in 1 .. 9 : m = Min(steps)
  BY NextStepMoves
<1>1. /\ m \in steps /\ cmd.kind = "regen" /\ cmd' = cmd /\ todo = <<>>
      /\ steps' = steps \ {m} /\ frame' = {} /\ UNCHANGED <<disk, rev, faults, report, drawn, lost>>
      /\ ScriptAt(m) \in cmd.selected /\ ScriptAt(m) \in AllSteps
      /\ ScriptAt(m) # script /\ ScriptAt(m) \notin failed_steps
      /\ \A i \in steps' : i > m /\ i \in 1 .. 9
      /\ \A j \in m + 1 .. 9 : script # ScriptAt(j)
  BY <1>0, NextStepMoves
<1>2. \/ /\ script' = ScriptAt(m) /\ todo' = Prog' /\ failed_steps' = failed_steps
         /\ m = 8 => "plot_stacked_bar" \notin failed_steps
      \/ /\ m = 8 /\ failed_steps' = failed_steps \cup {ScriptAt(m)} /\ script' = script /\ todo' = <<>>
  BY <1>0, NextStepMoves
<1>3. /\ UNCHANGED <<results, sweeps, artifacts, drawn, lost, rev, cmd>> /\ steps \in SUBSET (1 .. 9)
      /\ \A i \in steps : m <= i
  BY <1>0, <1>1, FirstOfSteps DEF disk, ControlInv, FigureTypeOK
<1>4. script # Audit /\ script' # Audit
  BY <1>1, <1>2, Regenerating, PlacesAreDistinct, ScriptsAre DEF Audit, None
<1>5. ContentInv'
  <2>1. \A a, F : IsContent(a, F)' = IsContent(a, F)
    BY <1>3 DEF IsContent, LastRunEach, Fresh
  <2> QED
    BY <1>1, <1>3, <2>1 DEF CourseInv, ContentInv
<1>6. CASE script' = ScriptAt(m) /\ todo' = Prog' /\ failed_steps' = failed_steps
           /\ (m = 8 => "plot_stacked_bar" \notin failed_steps)
  <2>1. Pos' = 1 /\ todo' # <<>>
    BY <1>1, <1>6, ScriptsAre, ProgramIsTodo
  <2>2. FrameInv' /\ ResultsInv'
    <3>1. FrameInv'
      BY <1>1, <2>1, BurstGrows DEF FrameInv
    <3>2. ResultsInv'
      BY <2>1 DEF ResultsInv
    <3> QED
      BY <3>1, <3>2
  <2>3. SweepsInv'
    <3> SUFFICES ASSUME failed_steps = {}, cmd.force, cmd.start = rev, NEW csv \in Csvs,
                        ScriptAt(SweeperOf[csv]) \in cmd.selected, SweeperOf[csv] \notin steps',
                        script' # ScriptAt(SweeperOf[csv])
                 PROVE  sweeps[csv] = SweepOutput(csv, rev, TRUE)
      <4> SUFFICES ASSUME (cmd.kind = "regen" /\ failed_steps = {} /\ cmd.force /\ cmd.start = rev)', NEW csv \in Csvs,
                          ScriptAt(SweeperOf[csv]) \in cmd'.selected, SweeperOf[csv] \notin steps',
                          script' = ScriptAt(SweeperOf[csv]) => Pos' > 1
                   PROVE  sweeps'[csv] = SweepOutput(csv, rev', TRUE)
        BY DEF SweepsInv
      <4>1. failed_steps = {} /\ cmd.force /\ cmd.start = rev /\ ScriptAt(SweeperOf[csv]) \in cmd.selected
        BY <1>1, <1>3, <1>6
      <4>2. script' # ScriptAt(SweeperOf[csv])
        BY <2>1
      <4> QED
        BY <1>3, <4>1, <4>2
    <3>1. SweeperOf[csv] \notin steps
      BY <1>1, <1>6
    <3>2. script = ScriptAt(SweeperOf[csv]) => Pos > 1
      <4>1. ScriptAt(SweeperOf[csv]) # None
        BY TablesAre, PlacesAreDistinct
      <4> QED
        BY <1>1, <4>1, AtEnd
    <3> QED
      BY <1>1, <3>1, <3>2 DEF CourseInv, SweepsInv
  <2>4. Undrawn'
    <3> SUFFICES ASSUME NEW i \in 1 .. 9, Ahead(i)'
                 PROVE  Ahead(i)
      BY <1>1, <1>3 DEF CourseInv, Undrawn
    <3>1. ~(m > i)
      BY <1>6 DEF Ahead
    <3>2. \A j \in i .. 9 : script # ScriptAt(j)
      BY <1>1, <3>1
    <3> QED
      BY <3>2 DEF Ahead
  <2>5. ASSUME NEW s \in AllSteps, Done(s)'
        PROVE  Done(s)
    <3>1. s # ScriptAt(m)
      BY <1>6, <2>1, <2>5 DEF Done
    <3> QED
      BY <1>1, <1>6, <2>5, <3>1 DEF Done
  <2>6. ASSUME m = 8, "plot_stacked_bar" \in cmd.selected
        PROVE  script = "plot_stacked_bar"
    <3>1. PICK c \in 0 .. 9 : /\ IF c = 0 THEN script = None ELSE script = ScriptAt(c) /\ script \in cmd.selected
                              /\ steps = StillToCome(c)
      BY <1>1 DEF ControlInv, CommandInv
    <3>2. 7 \notin steps /\ ScriptAt(7) = "plot_stacked_bar" /\ ScriptAt(7) \notin failed_steps
      BY <1>3, <1>6, <2>6, StepsTable
    <3>3. c >= 7 /\ c < 8
      BY <1>1, <2>6, <3>1, <3>2 DEF StillToCome
    <3> QED
      BY <3>1, <3>2, <3>3
  <2>7. EnergyReady'
    <3> SUFFICES ASSUME ~lost, "plot_stacked_bar" \in cmd.selected, script' = "plot_paper_energy"
                 PROVE  LastRunEach({results[p] : p \in Protocol}) /\ \A p \in Protocol : results[p].protocol = p
      <4>1. \A F : LastRunEach(F)' = LastRunEach(F)
        BY <1>3 DEF LastRunEach, Fresh
      <4> QED
        BY <1>1, <1>3, <4>1 DEF EnergyReady
    <3>1. m = 8
      BY <1>6, StepsTable, PlacesAreDistinct
    <3>2. script = "plot_stacked_bar" /\ Running
      BY <1>6, <2>6, <3>1 DEF Running, None
    <3> QED
      BY <1>1, <3>2, StackedIsSettled DEF CourseInv
  <2>8. QuietInv'
    <3> SUFFICES ASSUME ~lost, Done("plot_stacked_bar")', ~(ToSet(StackedBarFigures) \subseteq drawn),
                        "plot_paper_energy" \in cmd.selected
                 PROVE  /\ script' = "plot_paper_energy" /\ todo' # <<>>
                        /\ \A p \in Protocol : results[p].rev \in Barren
      BY <1>1, <1>3 DEF QuietInv
    <3>1. Done("plot_stacked_bar")
      BY <2>5, ScriptsAre
    <3>2. script = "plot_stacked_bar" /\ \A p \in Protocol : results[p].rev \in Barren
      BY <1>1, <3>1 DEF CourseInv, QuietInv
    <3>3. steps = StillToCome(7) /\ failed_steps = {} /\ ScriptAt(8) = "plot_paper_energy"
      BY <1>1, <3>1, <3>2, Regenerating, StepsTable DEF Done
    <3>4. 8 \in steps /\ \A i \in steps : i > 7
      BY <3>3 DEF StillToCome
    <3>5. m = 8
      BY <1>1, <1>3, <3>4
    <3> QED
      BY <1>6, <2>1, <3>2, <3>3, <3>5
  <2>9. DrawnInv'
    BY <1>3, <1>4, <2>5 DEF CourseInv, DrawnInv
  <2> QED
    BY <1>5, <2>2, <2>3, <2>4, <2>7, <2>8, <2>9 DEF CourseInv
<1>7. CASE m = 8 /\ failed_steps' = failed_steps \cup {ScriptAt(m)} /\ script' = script /\ todo' = <<>>
  <2>1. failed_steps' # {} /\ \A s : ~Done(s)'
    BY <1>7 DEF Done
  <2>2. Prog' = Prog /\ Pos' = Pos /\ (Running' => Running)
    BY <1>1, <1>7 DEF Prog, Pos, Running
  <2>3. Running => Pos > 1 /\ Burst(Prog, Pos) = {} /\ Prog[Pos - 1].op = "savefig"
    BY <1>1, AtEnd DEF Running
  <2>4. FrameInv'
    BY <1>1, <2>2, <2>3 DEF FrameInv
  <2>5. ResultsInv'
    BY <1>1, <1>3, <2>2, <2>3 DEF CourseInv, ResultsInv, Fresh
  <2>6. SweepsInv' /\ QuietInv' /\ DrawnInv'
    BY <1>4, <2>1 DEF SweepsInv, QuietInv, DrawnInv
  <2>7. Undrawn'
    BY <1>1, <1>3, <1>7 DEF CourseInv, Undrawn, Ahead
  <2>8. EnergyReady'
    BY <1>7 DEF EnergyReady
  <2> QED
    BY <1>5, <2>4, <2>5, <2>6, <2>7, <2>8 DEF CourseInv
<1> QED
  BY <1>2, <1>6, <1>7

----------------------------------------------------------------------------
(***************************************************************************)
(* The steps of a script, and what they keep.                              *)
(***************************************************************************)
\* A script that has failed claims nothing any more.
LEMMA RaiseCourse ==
    ASSUME ControlInv, todo # <<>>, Raise
    PROVE  FrameInv' /\ ResultsInv' /\ SweepsInv' /\ EnergyReady' /\ QuietInv' /\ DrawnInv'
<1>1. ~Running' /\ todo' = <<>> /\ failed_steps' # {}
  BY RaiseMoves
<1>2. \A s : ~Done(s)'
  BY <1>1 DEF Done
<1> QED
  BY <1>1, <1>2 DEF FrameInv, ResultsInv, SweepsInv, EnergyReady, QuietInv, DrawnInv

\* What the scripts of STEPS draw are figures.
LEMMA FiguresAreFigures == \A s \in AllSteps : FiguresOf(s) \subseteq Figures
<1>1. \A i \in 1 .. 9 : i = 1 \/ i = 2 \/ i = 3 \/ i = 4 \/ i = 5 \/ i = 6 \/ i = 7 \/ i = 8 \/ i = 9
  OBVIOUS
<1>2. \A i \in 1 .. 9 : FiguresOf(ScriptAt(i)) \subseteq Figures
  BY <1>1, FiguresOfAre, FileSets, ArtifactsAre DEF ScalabilityArtifacts, ProgressArtifacts, StackedArtifacts
<1> QED
  BY <1>2, ScriptsAre

\* A step draws figures of its own script only, and in its last step.
LEMMA StepUndrawn ==
    ASSUME ControlInv, Undrawn, todo # <<>>, Advance \/ Raise,
           drawn' = drawn \/ (Prog[Pos].op = "savefig" /\ drawn' \subseteq drawn \cup ToSet(Prog[Pos].arg.files))
    PROVE  Undrawn'
<1>1. cmd' = cmd /\ script' = script
  BY AdvanceMoves, RaiseMoves
<1>2. CASE cmd.kind # "regen"
  BY <1>1, <1>2 DEF Undrawn
<1>3. CASE cmd.kind = "regen"
  <2>1. PICK c \in 1 .. 9 : script = ScriptAt(c)
    BY <1>3, AtStep, Regenerating, ScriptsAre
  <2>2. drawn \subseteq Figures /\ \A i \in 1 .. 9 : Ahead(i) => FiguresOf(ScriptAt(i)) \cap drawn = {}
    BY <1>3 DEF Undrawn
  <2>3. \A i \in 1 .. 9 : Ahead(i)' => Ahead(i)
    BY <1>1, AtStep DEF Ahead
  <2>4. CASE drawn' = drawn
    BY <1>1, <2>2, <2>3, <2>4 DEF Undrawn
  <2>5. CASE Prog[Pos].op = "savefig" /\ drawn' \subseteq drawn \cup ToSet(Prog[Pos].arg.files)
    <3>1. script \in AllSteps /\ Pos = Len(Prog)
      BY <1>3, <2>5, AtStep, Regenerating DEF StepShape
    <3>2. FiguresOf(script) = ToSet(Prog[Pos].arg.files) /\ FiguresOf(script) \subseteq Figures
      BY <3>1, DrawsItsLastStep, FiguresAreFigures DEF Prog
    <3>3. todo' = <<>>
      BY <3>1, AdvanceMoves, RaiseMoves
    <3>4. \A i \in 1 .. 9 : Ahead(i)' => i # c
      BY <1>1, <2>1, <3>3 DEF Ahead
    <3>5. \A i \in 1 .. 9 : i # c => FiguresOf(ScriptAt(i)) \cap FiguresOf(script) = {}
      BY <2>1, NoFigureTwice
    <3> QED
      BY <1>1, <2>2, <2>3, <2>5, <3>2, <3>4, <3>5 DEF Undrawn
  <2> QED
    BY <2>4, <2>5
<1> QED
  BY <1>2, <1>3

\* A step that draws nothing and changes no sweep keeps the content of the figures.
LEMMA SameContent ==
    ASSUME ContentInv, UNCHANGED <<cmd, script, rev, sweeps, artifacts, drawn>>, ~lost' => ~lost
    PROVE  ContentInv'
<1>1. \A a, F : IsContent(a, F)' = IsContent(a, F)
  BY DEF IsContent, LastRunEach, Fresh
<1> QED
  BY <1>1 DEF ContentInv

\* A step that draws nothing.
LEMMA ReadingCourse ==
    ASSUME ControlInv, CourseInv, todo # <<>>, Advance, Prog[Pos].op # "savefig",
           UNCHANGED <<rev, drawn>>, ~lost' => ~lost, results' = results \/ script # "plot_paper_energy"
    PROVE  Undrawn' /\ EnergyReady' /\ QuietInv' /\ DrawnInv'
<1>1. /\ cmd' = cmd /\ script' = script /\ steps' = steps /\ failed_steps' = failed_steps
      /\ Prog' = Prog /\ Pos' = Pos + 1 /\ (todo' = <<>> <=> Pos = Len(Prog))
  BY AdvanceMoves
<1>2. script \in AllSteps => todo' # <<>>
  BY <1>1, AtStep DEF StepShape
<1>3. \A s \in AllSteps : Done(s)' => Done(s) /\ s # script
  BY <1>1, <1>2 DEF Done
<1>4. Undrawn'
  BY StepUndrawn DEF CourseInv
<1>5. \A F : LastRunEach(F)' = LastRunEach(F)
  BY <1>1 DEF LastRunEach, Fresh
<1>6. EnergyReady'
  <2> SUFFICES ASSUME (cmd.kind = "regen" /\ ~lost /\ "plot_stacked_bar" \in cmd.selected
                         /\ script = "plot_paper_energy")'
               PROVE  (LastRunEach({results[p] : p \in Protocol}) /\ \A p \in Protocol : results[p].protocol = p)'
    BY DEF EnergyReady
  <2>1. results' = results
    BY <1>1
  <2>2. LastRunEach({results[p] : p \in Protocol}) /\ \A p \in Protocol : results[p].protocol = p
    BY <1>1 DEF CourseInv, EnergyReady
  <2> QED
    BY <1>5, <2>1, <2>2
<1>7. QuietInv'
  <2> SUFFICES ASSUME (~lost /\ Done("plot_stacked_bar") /\ ~(ToSet(StackedBarFigures) \subseteq drawn)
                         /\ "plot_paper_energy" \in cmd.selected)'
               PROVE  script = "plot_paper_energy" /\ todo' # <<>> /\ \A p \in Protocol : results'[p].rev \in Barren
    BY <1>1 DEF QuietInv
  <2>1. "plot_stacked_bar" \in AllSteps /\ "plot_paper_energy" \in AllSteps
    BY ScriptsAre
  <2>2. Done("plot_stacked_bar") /\ script # "plot_stacked_bar"
    BY <1>3, <2>1
  <2>3. script = "plot_paper_energy" /\ \A p \in Protocol : results[p].rev \in Barren
    BY <1>1, <2>2 DEF CourseInv, QuietInv
  <2> QED
    BY <1>2, <2>1, <2>3
<1>8. DrawnInv'
  <2> SUFFICES ASSUME ~lost'
               PROVE  /\ \A s \in AllSteps \ {"plot_stacked_bar"} : Done(s)' => FiguresOf(s) \subseteq drawn
                      /\ script = Audit /\ failed_steps = {} =>
                           \A i \in 1 .. Pos : Prog[i].op = "savefig" => ToSet(Prog[i].arg.files) \subseteq drawn
    BY <1>1, AtStep DEF DrawnInv
  <2>1. \A s \in AllSteps \ {"plot_stacked_bar"} : Done(s)' => FiguresOf(s) \subseteq drawn
    BY <1>3 DEF CourseInv, DrawnInv
  <2>2. \A i \in 1 .. Pos : i = Pos \/ i \in 1 .. Pos - 1
    BY AtStep
  <2>3. script = Audit /\ failed_steps = {} =>
          \A i \in 1 .. Pos : Prog[i].op = "savefig" => ToSet(Prog[i].arg.files) \subseteq drawn
    BY <2>2 DEF CourseInv, DrawnInv
  <2> QED
    BY <2>1, <2>3
<1> QED
  BY <1>4, <1>6, <1>7, <1>8

\* The steps that run nothing leave what earlier steps of the script have run.
LEMMA ResultsStay ==
    ASSUME ControlInv, CourseInv, todo # <<>>, Advance, Prog[Pos].op # "run_config",
           UNCHANGED <<rev, results>>, ~lost' => ~lost
    PROVE  ResultsInv'
<1>1. /\ cmd' = cmd /\ script' = script /\ Prog' = Prog /\ Pos' = Pos + 1 /\ Running /\ Pos \in Nat \ {0}
  BY AdvanceMoves, AtStep
<1>2. Burst(Prog, Pos + 1) = {} /\ ~LastRun(Prog, Pos + 1, Pos)
      /\ \A i \in 1 .. Pos - 1 : LastRun(Prog, Pos + 1, i) => LastRun(Prog, Pos, i)
  BY <1>1, BurstGrows, LastRunGrows
<1> SUFFICES ASSUME ~lost', NEW i \in 1 .. Pos' - 1, LastRun(Prog', Pos', i)
             PROVE  LET o == results[Prog[i].arg.protocol] IN Conf(o) = ConfOf(Prog[i]) /\ Fresh(o)
  BY <1>1, <1>2 DEF ResultsInv, Fresh
<1>3. i \in 1 .. Pos - 1 /\ LastRun(Prog, Pos, i)
  BY <1>1, <1>2
<1> QED
  BY <1>1, <1>3 DEF CourseInv, ResultsInv

\* The sweeps are as they were after any step but a sweep.
LEMMA SweepsStay ==
    ASSUME ControlInv, CourseInv, todo # <<>>, Advance, Prog[Pos].op # "sweep", UNCHANGED <<rev, sweeps>>
    PROVE  SweepsInv'
<1>1. /\ cmd' = cmd /\ script' = script /\ steps' = steps /\ failed_steps' = failed_steps
      /\ Pos' = Pos + 1 /\ Pos \in Nat \ {0} /\ Shape(script, Prog)
  BY AdvanceMoves, AtStep
<1>2. \A csv \in Csvs : script = ScriptAt(SweeperOf[csv]) => Pos > 1
  BY <1>1 DEF Shape
<1> QED
  BY <1>1, <1>2 DEF CourseInv, SweepsInv

\* Reading a sweep puts it, alone, in the frame.
LEMMA ReadSweepCourse == ASSUME ControlInv, CourseInv, DoReadSweep PROVE CourseInv'
<1>1. todo # <<>> /\ Prog[Pos].op = "read_sweep" /\ Arg = Prog[Pos].arg
  BY Doings DEF DoReadSweep
<1>2. /\ UNCHANGED <<results, sweeps, artifacts, drawn, lost, rev>>
      /\ Raise \/ (Advance /\ frame' = {sweeps[Arg]})
  BY DEF DoReadSweep, disk, budget
<1>3. ContentInv' /\ Undrawn'
  <2>1. cmd' = cmd /\ script' = script
    BY <1>2 DEF Advance, Raise
  <2> QED
    BY <1>1, <1>2, <2>1, SameContent, StepUndrawn DEF CourseInv
<1>4. CASE Raise
  BY <1>1, <1>3, <1>4, RaiseCourse DEF CourseInv
<1>5. CASE Advance /\ frame' = {sweeps[Arg]}
  <2>1. Prog' = Prog /\ Pos' = Pos + 1 /\ Pos \in Nat \ {0}
    BY <1>1, <1>5, AdvanceMoves, AtStep
  <2>2. FrameInv'
    BY <1>1, <1>2, <1>5, <2>1 DEF FrameInv
  <2>3. ResultsInv' /\ SweepsInv'
    BY <1>1, <1>2, <1>5, ResultsStay, SweepsStay
  <2>4. EnergyReady' /\ QuietInv' /\ DrawnInv'
    BY <1>1, <1>2, <1>5, ReadingCourse
  <2> QED
    BY <1>3, <2>2, <2>3, <2>4 DEF CourseInv
<1> QED
  BY <1>2, <1>4, <1>5

\* Nothing is in the frame before the first step of a script.
LEMMA FrameAtFirst ==
    ASSUME ControlInv, FrameInv, todo # <<>>, Pos = 1, ~lost
    PROVE  frame = {}
<1>1. {Conf(o) : o \in frame} = {ConfOf(Prog[i]) : i \in Burst(Prog, Pos)} /\ Burst(Prog, Pos) = {}
  BY AtStep, BurstGrows DEF FrameInv
<1> QED
  BY <1>1

\* Checking PROVENANCE.txt is a first step and changes no file.
LEMMA CheckCourse == ASSUME ControlInv, CourseInv, DoCheckProvenance PROVE CourseInv'
<1>1. todo # <<>> /\ Prog[Pos].op = "check_provenance"
  BY Doings DEF DoCheckProvenance
<1>2. UNCHANGED <<results, sweeps, artifacts, drawn, lost, rev, frame>> /\ Advance
  BY DEF DoCheckProvenance, disk, budget
<1>3. /\ Prog' = Prog /\ Pos' = Pos + 1 /\ Pos = 1 /\ cmd' = cmd /\ script' = script
  BY <1>1, <1>2, AdvanceMoves, AtStep DEF StepShape
<1>4. FrameInv'
  <2>0. Pos \in Nat \ {0}
    BY <1>3
  <2>1. Burst(Prog, Pos + 1) = {}
    BY <1>1, <2>0, BurstGrows
  <2>2. ~lost => frame = {}
    BY <1>1, <1>3, FrameAtFirst DEF CourseInv
  <2>3. Pos' - 1 = Pos /\ Prog'[Pos' - 1].op = "check_provenance"
    BY <1>1, <1>3
  <2>4. ~lost' => frame' = {} /\ Burst(Prog', Pos') = {}
    BY <1>2, <1>3, <2>1, <2>2
  <2> QED
    BY <2>3, <2>4 DEF FrameInv
<1>5. ResultsInv' /\ SweepsInv'
  BY <1>1, <1>2, ResultsStay, SweepsStay
<1>6. Undrawn' /\ EnergyReady' /\ QuietInv' /\ DrawnInv'
  BY <1>1, <1>2, ReadingCourse
<1>7. ContentInv'
  BY <1>2, <1>3, SameContent DEF CourseInv
<1> QED
  BY <1>4, <1>5, <1>6, <1>7 DEF CourseInv

\* Reading results/ puts what is there in the frame.
LEMMA ReadResultsCourse == ASSUME ControlInv, CourseInv, DoReadResults PROVE CourseInv'
<1>1. todo # <<>> /\ Prog[Pos].op = "read_results" /\ Arg = Prog[Pos].arg
  BY Doings DEF DoReadResults
<1>2. /\ UNCHANGED <<results, sweeps, artifacts, drawn, lost, rev>>
      /\ \/ Raise
         \/ /\ Advance /\ frame' = {results[p] : p \in Protocol} \ {Missing}
            /\ ~(Arg /\ Missing \in {results[p] : p \in Protocol})
  BY DEF DoReadResults, disk, budget
<1>3. ContentInv' /\ Undrawn'
  <2>1. cmd' = cmd /\ script' = script
    BY <1>2 DEF Advance, Raise
  <2> QED
    BY <1>1, <1>2, <2>1, SameContent, StepUndrawn DEF CourseInv
<1>4. CASE Raise
  BY <1>1, <1>3, <1>4, RaiseCourse DEF CourseInv
<1>5. CASE /\ Advance /\ frame' = {results[p] : p \in Protocol} \ {Missing}
           /\ ~(Arg /\ Missing \in {results[p] : p \in Protocol})
  <2>1. Prog' = Prog /\ Pos' = Pos + 1 /\ Pos \in Nat \ {0}
    BY <1>1, <1>5, AdvanceMoves, AtStep
  <2>2. Arg = TRUE => \A p \in Protocol : results[p] # Missing
    BY <1>5
  <2>3. FrameInv'
    BY <1>1, <1>2, <1>5, <2>1, <2>2 DEF FrameInv
  <2>4. ResultsInv' /\ SweepsInv'
    BY <1>1, <1>2, <1>5, ResultsStay, SweepsStay
  <2>5. EnergyReady' /\ QuietInv' /\ DrawnInv'
    BY <1>1, <1>2, <1>5, ReadingCourse
  <2> QED
    BY <1>3, <2>3, <2>4, <2>5 DEF CourseInv
<1> QED
  BY <1>2, <1>4, <1>5

\* plot_paper_energy.py runs nothing.
LEMMA PaperRunsNothing ==
    ASSUME ControlInv, todo # <<>>, script = "plot_paper_energy"
    PROVE  Prog[Pos].op # "run_config"
<1>1. Prog = PlotPaperEnergy
  BY ProgramIs DEF Prog
<1>2. Pos \in 1 .. 3
  BY <1>1, AtStep, ShortPrograms
<1>3. Pos = 1 \/ Pos = 2 \/ Pos = 3
  BY <1>2
<1>4. /\ PlotPaperEnergy[1] = CheckProvenance("plot_stacked_bar.py") /\ PlotPaperEnergy[2] = ReadResults(TRUE)
      /\ PlotPaperEnergy[3] = Savefig(PaperEnergyFigures, "refuse")
  BY ShortPrograms
<1>5. /\ PlotPaperEnergy[1].op # "run_config" /\ PlotPaperEnergy[2].op # "run_config"
      /\ PlotPaperEnergy[3].op # "run_config"
  BY <1>4 DEF CheckProvenance, ReadResults, Savefig
<1> QED
  BY <1>1, <1>3, <1>5

\* A run leaves its output, fails, or is interrupted and forgotten.
LEMMA RunConfigMoves ==
    ASSUME ControlInv, DoRunConfig
    PROVE  /\ todo # <<>> /\ Prog[Pos].op = "run_config" /\ Arg = Prog[Pos].arg /\ Arg.protocol \in Protocol
           /\ UNCHANGED <<sweeps, artifacts, drawn, rev>> /\ (lost => lost')
           /\ \/ Raise /\ Fault /\ UNCHANGED <<results, lost>>
              \/ /\ Advance /\ last_writer' = Arg.writer /\ UNCHANGED faults /\ UNCHANGED lost
                 /\ LET o == Output(Arg.toml, Arg.protocol, Arg.seed, rev, TRUE) IN
                    results' = [results EXCEPT ![Arg.protocol] = o] /\ frame' = frame \cup {o}
              \/ Advance /\ Fault /\ lost'
<1>1. todo # <<>> /\ Prog[Pos].op = "run_config" /\ Arg = Prog[Pos].arg /\ Arg.protocol \in Protocol
  BY Doings, AtStep, RunConfigIsTyped DEF DoRunConfig
<1> DEFINE o == Output(Arg.toml, Arg.protocol, Arg.seed, rev, TRUE)
<1>2. /\ UNCHANGED <<sweeps, artifacts, drawn, rev>>
      /\ \/ Raise /\ Fault /\ UNCHANGED <<results, lost>>
         \/ /\ Advance /\ last_writer' = Arg.writer /\ UNCHANGED faults /\ UNCHANGED lost
            /\ results' = [results EXCEPT ![Arg.protocol] = o]
            /\ frame' = frame \cup ({results'[Arg.protocol]} \ {Missing})
         \/ Advance /\ Fault /\ lost' = TRUE
  BY Zenon DEF DoRunConfig
<1>3. o # Missing
  <2>1. o.whole = TRUE
    BY DEF Output
  <2>2. Missing.whole = FALSE
    BY MissingIs
  <2> QED
    BY <2>1, <2>2
<1>4. results = [p \in Protocol |-> results[p]]
  BY DEF ControlInv, FigureTypeOK, FilesTypeOK
<1> HIDE DEF o
<1>5. results' = [results EXCEPT ![Arg.protocol] = o] => results'[Arg.protocol] = o
  BY <1>1, <1>4
<1>6. results' = [results EXCEPT ![Arg.protocol] = o] /\ frame' = frame \cup ({results'[Arg.protocol]} \ {Missing})
        => frame' = frame \cup {o}
  BY <1>3, <1>5
<1>7. lost => lost'
  BY <1>2
<1>8. \/ Raise /\ Fault /\ UNCHANGED <<results, lost>>
      \/ /\ Advance /\ last_writer' = Arg.writer /\ UNCHANGED faults /\ UNCHANGED lost
         /\ results' = [results EXCEPT ![Arg.protocol] = o] /\ frame' = frame \cup {o}
      \/ Advance /\ Fault /\ lost'
  BY <1>2, <1>6
<1> QED
  BY <1>1, <1>2, <1>7, <1>8 DEF o

\* The output of a run is in the frame and on disk, and the last of its protocol.
LEMMA RunConfigCourse == ASSUME ControlInv, CourseInv, DoRunConfig PROVE CourseInv'
<1>1. /\ todo # <<>> /\ Prog[Pos].op = "run_config" /\ Arg = Prog[Pos].arg /\ Arg.protocol \in Protocol
      /\ UNCHANGED <<sweeps, artifacts, drawn, rev>> /\ (lost => lost') /\ Pos \in Nat \ {0} /\ StepShape(script, Prog, Pos)
  BY RunConfigMoves, AtStep
<1>2. \/ Raise
      \/ /\ Advance
         /\ LET o == Output(Arg.toml, Arg.protocol, Arg.seed, rev, TRUE) IN
            results' = [results EXCEPT ![Arg.protocol] = o] /\ frame' = frame \cup {o}
      \/ Advance /\ lost'
  BY RunConfigMoves
<1>3. cmd' = cmd /\ script' = script
  BY <1>2 DEF Advance, Raise
<1>4. ContentInv' /\ Undrawn'
  BY <1>1, <1>2, <1>3, SameContent, StepUndrawn DEF CourseInv
<1>5. CASE Raise
  BY <1>1, <1>4, <1>5, RaiseCourse DEF CourseInv
<1>6. CASE Advance /\ lost'
  <2>1. SweepsInv'
    BY <1>1, <1>6, SweepsStay
  <2>2. FrameInv' /\ ResultsInv' /\ EnergyReady' /\ QuietInv' /\ DrawnInv'
    BY <1>6 DEF FrameInv, ResultsInv, EnergyReady, QuietInv, DrawnInv
  <2> QED
    BY <1>4, <2>1, <2>2 DEF CourseInv
<1> DEFINE o == Output(Arg.toml, Arg.protocol, Arg.seed, rev, TRUE)
<1>7. CASE Advance /\ results' = [results EXCEPT ![Arg.protocol] = o] /\ frame' = frame \cup {o}
  <2>1. Conf(o) = ConfOf(Prog[Pos])
    <3>1. Conf(o) = <<Arg.toml, Arg.protocol, Arg.seed>>
      BY DEF Conf, Output
    <3> HIDE DEF o
    <3> QED
      BY <1>1, <3>1 DEF ConfOf
  <2>2. Fresh(o)
    <3>1. cmd.start <= rev /\ rev \in Nat /\ cmd.start \in Nat
      BY DEF ControlInv, CommandInv, FigureTypeOK, CommandType
    <3>2. o.rev = rev /\ o.whole = TRUE
      BY DEF Output
    <3> HIDE DEF o
    <3>3. o.rev >= cmd.start /\ o.rev <= rev
      BY <3>1, <3>2
    <3> QED
      BY <3>2, <3>3 DEF Fresh
  <2>4. results = [p \in Protocol |-> results[p]]
    BY DEF ControlInv, FigureTypeOK, FilesTypeOK
  <2> HIDE DEF o
  <2>5. results'[Arg.protocol] = o /\ \A p \in Protocol : p # Arg.protocol => results'[p] = results[p]
    BY <1>1, <1>7, <2>4
  <2>6. /\ Prog' = Prog /\ Pos' = Pos + 1 /\ Pos' - 1 = Pos /\ Running
    BY <1>1, <1>7, AdvanceMoves, AtStep
  <2>7. /\ Burst(Prog, Pos + 1) = Burst(Prog, Pos) \cup {Pos}
        /\ \A i \in 1 .. Pos - 1 : LastRun(Prog, Pos + 1, i) =>
             LastRun(Prog, Pos, i) /\ Prog[Pos].arg.protocol # Prog[i].arg.protocol
        /\ Pos \notin 1 .. Pos - 1 /\ Burst(Prog, Pos) \subseteq 1 .. Pos - 1
    BY <1>1, BurstGrows, LastRunGrows DEF Burst
  <2>8. ~lost => {Conf(x) : x \in frame} = {ConfOf(Prog[i]) : i \in Burst(Prog, Pos)} /\ \A x \in frame : Fresh(x)
    <3>1. Pos = 1 \/ Prog[Pos - 1].op \notin {"read_sweep", "read_results"}
      BY <1>1 DEF StepShape
    <3> QED
      BY <2>6, <3>1 DEF CourseInv, FrameInv
  <2>9. \A x : Fresh(x)' <=> Fresh(x)
    BY <1>1, <1>3 DEF Fresh
  <2>10. FrameInv'
    <3> SUFFICES ASSUME ~lost'
                 PROVE  /\ {Conf(x) : x \in frame'} = {ConfOf(Prog[i]) : i \in Burst(Prog, Pos + 1)}
                        /\ \A x \in frame' : Fresh(x)
      BY <1>1, <2>6, <2>9 DEF FrameInv
    <3>1. {Conf(x) : x \in frame} = {ConfOf(Prog[i]) : i \in Burst(Prog, Pos)} /\ \A x \in frame : Fresh(x)
      BY <1>1, <2>8
    <3>2. {Conf(x) : x \in frame'} = {Conf(x) : x \in frame} \cup {Conf(o)}
      BY <1>7
    <3>3. {ConfOf(Prog[i]) : i \in Burst(Prog, Pos + 1)} = {ConfOf(Prog[i]) : i \in Burst(Prog, Pos)} \cup {ConfOf(Prog[Pos])}
      BY <2>7
    <3> QED
      BY <1>7, <2>1, <2>2, <3>1, <3>2, <3>3
  <2>11. ResultsInv'
    <3> SUFFICES ASSUME ~lost', NEW i \in 1 .. Pos, LastRun(Prog, Pos + 1, i)
                 PROVE  \E x : /\ x = results'[Prog[i].arg.protocol] /\ Conf(x) = ConfOf(Prog[i]) /\ Fresh(x)
                               /\ i \in Burst(Prog, Pos + 1) => x \in frame'
      BY <2>6, <2>9 DEF ResultsInv
    <3>1. CASE i = Pos
      BY <1>1, <1>7, <2>1, <2>2, <2>5, <3>1
    <3>2. CASE i # Pos
      <4>1. i \in 1 .. Pos - 1 /\ LastRun(Prog, Pos, i) /\ Prog[i].arg.protocol # Arg.protocol
        BY <1>1, <2>7, <3>2
      <4>2. PICK x : x = results[Prog[i].arg.protocol]
        OBVIOUS
      <4>3. Conf(x) = ConfOf(Prog[i]) /\ Fresh(x) /\ (i \in Burst(Prog, Pos) => x \in frame)
        BY <1>1, <2>6, <4>1, <4>2 DEF CourseInv, ResultsInv
      <4>4. Prog[i].arg.protocol \in Protocol
        <5>1. Prog[i].op = "run_config" /\ i \in 1 .. Len(Prog) /\ Prog \in Seq(AnyStep)
          BY <1>1, <4>1, AtStep DEF LastRun, Shape
        <5>2. Prog[i] \in AnyStep
          BY <5>1, ElementOfSeq
        <5> QED
          BY <5>1, <5>2, RunConfigIsTyped
      <4>5. results'[Prog[i].arg.protocol] = x
        BY <2>5, <4>1, <4>2, <4>4
      <4>6. i \in Burst(Prog, Pos + 1) => x \in frame'
        BY <1>7, <2>7, <3>2, <4>3
      <4> QED
        BY <4>3, <4>5, <4>6
    <3> QED
      BY <3>1, <3>2
  <2>12. script # "plot_paper_energy"
    BY <1>1, PaperRunsNothing
  <2>13. EnergyReady' /\ QuietInv' /\ DrawnInv'
    BY <1>1, <1>7, <2>12, ReadingCourse
  <2>14. SweepsInv'
    BY <1>1, <1>7, SweepsStay
  <2> QED
    BY <1>4, <2>10, <2>11, <2>13, <2>14 DEF CourseInv
<1> QED
  BY <1>2, <1>5, <1>6, <1>7

\* A sweep is run again before anything is drawn from it.
LEMMA SweepCourse == ASSUME ControlInv, CourseInv, DoSweep PROVE CourseInv'
<1>1. /\ todo # <<>> /\ Prog[Pos].op = "sweep" /\ Arg \in Csvs /\ script = ScriptAt(SweeperOf[Arg])
      /\ Pos = 1 /\ Pos \in Nat \ {0} /\ Shape(script, Prog)
  BY Doings, AtStep DEF DoSweep, StepShape
<1>2. /\ UNCHANGED <<results, artifacts, drawn, lost, rev>>
      /\ \/ /\ Advance /\ UNCHANGED frame
            /\ sweeps' = IF NeedsSweep(Arg) THEN [sweeps EXCEPT ![Arg] = SweepOutput(Arg, rev, TRUE)] ELSE sweeps
         \/ Raise
      /\ sweeps' \in {sweeps, [sweeps EXCEPT ![Arg] = SweepOutput(Arg, rev, TRUE)],
                              [sweeps EXCEPT ![Arg] = SweepOutput(Arg, rev, FALSE)]}
  BY DEF DoSweep
<1>3. sweeps = [c \in Csvs |-> sweeps[c]]
  BY DEF ControlInv, FigureTypeOK, FilesTypeOK
<1>4. \A c \in Csvs : c # Arg => sweeps'[c] = sweeps[c]
  BY <1>2, <1>3
<1>5. cmd' = cmd /\ script' = script
  BY <1>2 DEF Advance, Raise
<1>6. script \in AllSteps /\ script # Audit /\ script # "plot_paper_energy" /\ script # "plot_stacked_bar"
  BY <1>1, TablesAre, StepsTable, PlacesAreDistinct, ScriptsAre DEF Audit
<1>7. ContentInv'
  <2> SUFFICES ASSUME ~lost, cmd.kind = "regen", NEW a \in drawn
               PROVE  IsContent(a, artifacts[a])'
    BY <1>2, <1>5, <1>6 DEF ContentInv
  <2>1. IsContent(a, artifacts[a])
    BY DEF CourseInv, ContentInv
  <2>2. a \in Figures /\ \A i \in 1 .. 9 : Ahead(i) => a \notin FiguresOf(ScriptAt(i))
    BY DEF CourseInv, Undrawn
  <2>4. \A i \in 1 .. 9 : i >= SweeperOf[Arg] => a \notin FiguresOf(ScriptAt(i))
    <3> SUFFICES ASSUME NEW i \in 1 .. 9, i >= SweeperOf[Arg]
                 PROVE  Ahead(i)
      BY <2>2
    <3>1. \A j \in i + 1 .. 9 : script # ScriptAt(j)
      BY <1>1, TablesAre, PlacesAreDistinct
    <3> QED
      BY <1>1, <3>1 DEF Ahead
  <2>5. Arg = "scalability" => a \notin ScalabilityArtifacts
    <3>1. "slots_per_decision" \notin Figures
      BY ArtifactsAre DEF ScalabilityArtifacts, TopologyArtifacts, PaperArtifacts, KdeArtifacts
    <3>2. Arg = "scalability" => a \notin FiguresOf(ScriptAt(1)) \cup FiguresOf(ScriptAt(2)) \cup FiguresOf(ScriptAt(3))
      BY <2>4, TablesAre
    <3> QED
      BY <2>2, <3>1, <3>2, SweepReadersAre
  <2>6. Arg = "topology" => a \notin TopologyArtifacts
    BY <2>4, TablesAre, SweepReadersAre
  <2>7. \A F : LastRunEach(F)' = LastRunEach(F)
    BY <1>2, <1>5 DEF LastRunEach, Fresh
  <2>8. /\ a \in ScalabilityArtifacts => sweeps'["scalability"] = sweeps["scalability"]
        /\ a \in TopologyArtifacts => sweeps'["topology"] = sweeps["topology"]
    BY <1>1, <1>4, <2>5, <2>6, TablesAre
  <2> QED
    BY <1>2, <1>5, <2>1, <2>7, <2>8 DEF IsContent
<1>8. Undrawn'
  BY <1>1, <1>2, StepUndrawn DEF CourseInv
<1>9. CASE Raise
  BY <1>1, <1>7, <1>8, <1>9, RaiseCourse DEF CourseInv
<1>10. CASE /\ Advance /\ UNCHANGED frame
            /\ sweeps' = IF NeedsSweep(Arg) THEN [sweeps EXCEPT ![Arg] = SweepOutput(Arg, rev, TRUE)] ELSE sweeps
  <2>1. Prog' = Prog /\ Pos' = Pos + 1 /\ Pos' - 1 = Pos /\ steps' = steps /\ failed_steps' = failed_steps
    BY <1>1, <1>10, AdvanceMoves
  <2>2. FrameInv'
    <3>1. Burst(Prog, Pos + 1) = {}
      BY <1>1, BurstGrows
    <3>2. ~lost' => frame' = {} /\ Burst(Prog', Pos') = {}
      BY <1>1, <1>2, <1>10, <2>1, <3>1, FrameAtFirst DEF CourseInv
    <3>3. Prog'[Pos' - 1].op = "sweep"
      BY <1>1, <2>1
    <3> QED
      BY <3>2, <3>3 DEF FrameInv
  <2>3. ResultsInv'
    BY <1>1, <1>2, <1>10, ResultsStay
  <2>4. EnergyReady' /\ QuietInv' /\ DrawnInv'
    BY <1>1, <1>2, <1>6, <1>10, ReadingCourse
  <2>5. SweepsInv'
    <3> SUFFICES ASSUME cmd.kind = "regen", failed_steps = {}, cmd.force, cmd.start = rev, NEW csv \in Csvs,
                        ScriptAt(SweeperOf[csv]) \in cmd.selected, SweeperOf[csv] \notin steps
                 PROVE  sweeps'[csv] = SweepOutput(csv, rev, TRUE)
      <4> SUFFICES ASSUME (cmd.kind = "regen" /\ failed_steps = {} /\ cmd.force /\ cmd.start = rev)', NEW csv \in Csvs,
                          ScriptAt(SweeperOf[csv]) \in cmd'.selected, SweeperOf[csv] \notin steps',
                          script' = ScriptAt(SweeperOf[csv]) => Pos' > 1
                   PROVE  sweeps'[csv] = SweepOutput(csv, rev', TRUE)
        BY DEF SweepsInv
      <4> QED
        BY <1>2, <1>5, <2>1
    <3>1. CASE csv = Arg
      <4>1. SweeperOf[Arg] \in {1, 4}
        BY <1>1, TablesAre
      <4>2. STEPS[SweeperOf[Arg]].script = script /\ STEPS[SweeperOf[Arg]].accepts_force /\ SweeperOf[Arg] \in DOMAIN STEPS
        BY <1>1, <4>1, StepsTable DEF ScriptAt
      <4>3. NeedsSweep(Arg)
        BY <4>2 DEF NeedsSweep, Forced
      <4> QED
        BY <1>3, <1>10, <3>1, <4>3
    <3>2. CASE csv # Arg
      <4>1. script # ScriptAt(SweeperOf[csv])
        BY <1>1, <3>2, TablesAre, PlacesAreDistinct
      <4> QED
        BY <1>4, <3>2, <4>1 DEF CourseInv, SweepsInv
    <3> QED
      BY <3>1, <3>2
  <2> QED
    BY <1>7, <1>8, <2>2, <2>3, <2>4, <2>5 DEF CourseInv
<1> QED
  BY <1>2, <1>9, <1>10

----------------------------------------------------------------------------
(***************************************************************************)
(* Drawing.                                                                *)
(***************************************************************************)
\* The outputs of all protocols at the given seeds.
RunsAt(toml, seeds, r) == UNION {Runs(toml, s, r) : s \in seeds}

\* They are those of the one seed.
LEMMA RunsAre ==
    ASSUME NEW toml, NEW seeds, NEW r, NEW s \in seeds, NEW p \in Protocol
    PROVE  Output(toml, p, s, r, TRUE) \in RunsAt(toml, seeds, r)
<1>1. Output(toml, p, s, r, TRUE) \in Runs(toml, s, r)
  BY DEF Runs
<1> QED
  BY <1>1 DEF RunsAt

\* Complete outputs of this command, whose sources nobody edited, are told apart by what they ran.
LEMMA FreshOutputs ==
    ASSUME NEW F, NEW toml, NEW seeds, \A o \in F : IsOutput(o) /\ Fresh(o), cmd.start = rev, rev \in Nat,
           {Conf(o) : o \in F} = Confs(toml, seeds)
    PROVE  F = RunsAt(toml, seeds, rev)
<1>1. \A o \in F : o = Output(o.toml, o.protocol, o.seed, rev, TRUE)
  <2> SUFFICES ASSUME NEW o \in F
               PROVE  o = Output(o.toml, o.protocol, o.seed, rev, TRUE)
    OBVIOUS
  <2>1. o = Output(o.toml, o.protocol, o.seed, o.rev, o.whole) /\ o.rev \in Nat
    BY DEF IsOutput
  <2>2. o.rev = rev /\ o.whole = TRUE
    BY <2>1 DEF Fresh
  <2> QED
    BY <2>1, <2>2
<1>2. ASSUME NEW o \in F
      PROVE  o \in RunsAt(toml, seeds, rev)
  <2>1. PICK p \in Protocol, s \in seeds : Conf(o) = <<toml, p, s>>
    BY <1>2 DEF Confs
  <2>2. o.toml = toml /\ o.protocol = p /\ o.seed = s
    BY <2>1 DEF Conf
  <2>3. o = Output(toml, p, s, rev, TRUE)
    BY <1>1, <2>2
  <2> QED
    BY <2>3, RunsAre
<1>3. ASSUME NEW s \in seeds, NEW p \in Protocol
      PROVE  Output(toml, p, s, rev, TRUE) \in F
  <2>0. <<toml, p, s>> \in Confs(toml, seeds)
    BY DEF Confs
  <2>1. PICK o \in F : Conf(o) = <<toml, p, s>>
    BY <2>0
  <2>2. o.toml = toml /\ o.protocol = p /\ o.seed = s
    BY <2>1 DEF Conf
  <2> QED
    BY <1>1, <2>1, <2>2
<1>4. \A s \in seeds : Runs(toml, s, rev) \subseteq F
  BY <1>3 DEF Runs
<1>5. RunsAt(toml, seeds, rev) \subseteq F
  BY <1>4 DEF RunsAt
<1> QED
  BY <1>2, <1>5

\* What a script has read when it draws.
LEMMA FrameFromResults ==
    ASSUME ControlInv, FrameInv, todo # <<>>, ~lost, FromResults(Prog, Pos)
    PROVE  frame = {results[p] : p \in Protocol} /\ frame # {}
<1>1. Running /\ Pos > 1 /\ Prog[Pos - 1].op = "read_results" /\ Prog[Pos - 1].arg = TRUE
  BY AtStep DEF FromResults
<1>2. frame = {results[p] : p \in Protocol} \ {Missing} /\ \A p \in Protocol : results[p] # Missing
  BY <1>1 DEF FrameInv
<1>3. PICK p : p \in Protocol
  BY ConfigFacts
<1>4. results[p] \in {results[q] : q \in Protocol}
  BY <1>3
<1> QED
  BY <1>2, <1>3, <1>4

\* What was run just before is what is drawn from,
LEMMA FrameFromBurst ==
    ASSUME ControlInv, FrameInv, todo # <<>>, ~lost, NEW C, FromBurst(Prog, Pos, C)
    PROVE  {Conf(o) : o \in frame} = C /\ \A o \in frame : Fresh(o)
<1>1. Running /\ Prog[Pos - 1].op = "run_config" /\ {ConfOf(Prog[i]) : i \in Burst(Prog, Pos)} = C
  BY AtStep DEF FromBurst
<1> QED
  BY <1>1 DEF FrameInv

\* and so is the sweep that was read just before.
LEMMA FrameFromSweep ==
    ASSUME ControlInv, FrameInv, todo # <<>>, ~lost, NEW csv, FromSweep(Prog, Pos, csv)
    PROVE  frame = {sweeps[csv]}
BY AtStep DEF FromSweep, FrameInv

\* A loop over PROTOCOLS runs something.
LEMMA ConfsAreSome ==
    \A toml : Confs(toml, {RetiredSeed}) # {} /\ Confs(toml, ToSet(Seeds)) # {}
<1>1. PICK p : p \in Protocol
  BY ConfigFacts
<1>2. LastSeed \in ToSet(Seeds)
  BY ConfigFacts
<1>3. \A toml : <<toml, p, RetiredSeed>> \in Confs(toml, {RetiredSeed}) /\ <<toml, p, LastSeed>> \in Confs(toml, ToSet(Seeds))
  BY <1>1, <1>2 DEF Confs
<1> QED
  BY <1>3

\* Somebody who draws has read something, except for plot_kde_awake.py --no-run.
LEMMA SomethingWasRead ==
    ASSUME ControlInv, FrameInv, todo # <<>>, ~lost, Prog[Pos].op = "savefig", script # "plot_kde_no_run"
    PROVE  frame # {}
<1>1. SavefigShape(script, Prog, Pos)
  BY AtStep DEF StepShape
<1>2. \/ \E csv : FromSweep(Prog, Pos, csv)
      \/ FromResults(Prog, Pos)
      \/ \E toml : FromBurst(Prog, Pos, Confs(toml, {RetiredSeed})) \/ FromBurst(Prog, Pos, Confs(toml, ToSet(Seeds)))
  BY <1>1 DEF SavefigShape
<1>3. CASE \E csv : FromSweep(Prog, Pos, csv)
  BY <1>3, FrameFromSweep
<1>4. CASE FromResults(Prog, Pos)
  BY <1>4, FrameFromResults
<1>5. ASSUME NEW toml, NEW C, C # {}, FromBurst(Prog, Pos, C)
      PROVE  frame # {}
  <2>1. {Conf(o) : o \in frame} = C
    BY <1>5, FrameFromBurst
  <2> QED
    BY <1>5, <2>1
<1> QED
  BY <1>2, <1>3, <1>4, <1>5, ConfsAreSome

\* What is drawn is what it should be.
LEMMA DrawnFromTheFrame ==
    ASSUME ControlInv, CourseInv, todo # <<>>, ~lost, cmd.kind = "regen" \/ script = Audit,
           Prog[Pos].op = "savefig", NEW a \in ToSet(Prog[Pos].arg.files)
    PROVE  IsContent(a, frame)
<1>1. SavefigShape(script, Prog, Pos) /\ FrameInv /\ ResultsInv /\ EnergyReady /\ Running /\ rev \in Nat
      /\ \A o \in frame : IsOutput(o)
  BY AtStep DEF StepShape, CourseInv, ControlInv, FigureTypeOK, FilesTypeOK
<1>2. \A p \in Protocol : IsOutput(results[p])
  BY DEF ControlInv, FigureTypeOK, FilesTypeOK
<1>3. script # "plot_kde_no_run"
  BY AtStep, Regenerating, ScriptsAre, PlacesAreDistinct DEF Audit
<1> DEFINE F == ToSet(Prog[Pos].arg.files)
<1>4. CASE F \subseteq ScalabilityArtifacts /\ FromSweep(Prog, Pos, "scalability")
  <2>1. frame = {sweeps["scalability"]} /\ a \in ScalabilityArtifacts
    BY <1>1, <1>4, FrameFromSweep
  <2> QED
    BY <2>1, ClassesAreDisjoint DEF IsContent
<1>5. CASE F \subseteq TopologyArtifacts /\ FromSweep(Prog, Pos, "topology")
  <2>1. frame = {sweeps["topology"]} /\ a \in TopologyArtifacts
    BY <1>1, <1>5, FrameFromSweep
  <2> QED
    BY <2>1, ClassesAreDisjoint DEF IsContent
<1>12. ASSUME NEW toml, NEW seeds, {Conf(o) : o \in frame} = Confs(toml, seeds), \A o \in frame : Fresh(o), cmd.start = rev
      PROVE  frame = RunsAt(toml, seeds, rev)
  BY <1>1, <1>12, FreshOutputs
<1>6. ASSUME NEW toml, NEW seeds, FromBurst(Prog, Pos, Confs(toml, seeds)), cmd.start = rev
      PROVE  frame = RunsAt(toml, seeds, rev)
  <2>1. {Conf(o) : o \in frame} = Confs(toml, seeds) /\ \A o \in frame : Fresh(o)
    BY <1>1, <1>6, FrameFromBurst
  <2> QED
    BY <1>6, <1>12, <2>1
<1>7. \A toml : RunsAt(toml, {RetiredSeed}, rev) = Runs(toml, RetiredSeed, rev)
  BY DEF RunsAt
<1>8. CASE /\ F \subseteq ProgressArtifacts
           /\ \/ FromBurst(Prog, Pos, Confs("progress", {RetiredSeed}))
              \/ FromResults(Prog, Pos) /\ AllSettled(Prog, Pos, "progress", RetiredSeed)
  <2>1. ASSUME cmd.start = rev, FromResults(Prog, Pos), AllSettled(Prog, Pos, "progress", RetiredSeed)
        PROVE  frame = RunsAt("progress", {RetiredSeed}, rev)
    <3>1. frame = {results[p] : p \in Protocol}
      BY <1>1, <2>1, FrameFromResults
    <3>2. \A p \in Protocol : Conf(results[p]) = <<"progress", p, RetiredSeed>> /\ Fresh(results[p])
      <4> SUFFICES ASSUME NEW p \in Protocol
                   PROVE  Conf(results[p]) = <<"progress", p, RetiredSeed>> /\ Fresh(results[p])
        OBVIOUS
      <4>1. PICK i \in 1 .. Pos - 1 : LastRun(Prog, Pos, i) /\ ConfOf(Prog[i]) = <<"progress", p, RetiredSeed>>
        BY <2>1 DEF AllSettled
      <4>2. Prog[i].arg.protocol = p
        BY <4>1 DEF ConfOf
      <4>3. LET o == results[Prog[i].arg.protocol] IN Conf(o) = ConfOf(Prog[i]) /\ Fresh(o)
        BY <1>1, <4>1 DEF ResultsInv
      <4> QED
        BY <4>1, <4>2, <4>3
    <3>3. {Conf(o) : o \in frame} = Confs("progress", {RetiredSeed})
      BY <3>1, <3>2 DEF Confs
    <3>4. \A o \in frame : Fresh(o)
      BY <3>1, <3>2
    <3> QED
      BY <1>12, <2>1, <3>3, <3>4
  <2>2. cmd.start = rev => frame = Runs("progress", RetiredSeed, rev)
    BY <1>6, <1>7, <1>8, <2>1
  <2> QED
    BY <1>8, <2>2, ClassesAreDisjoint DEF IsContent
<1>9. CASE F \subseteq StackedArtifacts /\ FromBurst(Prog, Pos, Confs("per_prop", ToSet(Seeds)))
  <2>1. cmd.start = rev => frame = UNION {Runs("per_prop", s, rev) : s \in ToSet(Seeds)}
    BY <1>6, <1>9 DEF RunsAt
  <2> QED
    BY <1>9, <2>1, ClassesAreDisjoint DEF IsContent
<1>10. CASE F \subseteq PaperArtifacts /\ FromResults(Prog, Pos) /\ script = "plot_paper_energy"
  <2>1. frame = {results[p] : p \in Protocol}
    BY <1>1, <1>10, FrameFromResults
  <2>2. cmd.kind = "regen"
    BY <1>10 DEF Audit
  <2>3. "plot_stacked_bar" \in cmd.selected => LastRunEach(frame)
    BY <1>1, <1>10, <2>1, <2>2 DEF EnergyReady
  <2> QED
    BY <1>10, <2>3, ClassesAreDisjoint DEF IsContent
<1>11. CASE /\ F \subseteq KdeArtifacts
            /\ FromBurst(Prog, Pos, Confs("awake", {RetiredSeed})) \/ script = "plot_kde_no_run"
  <2>1. cmd.start = rev => frame = Runs("awake", RetiredSeed, rev)
    BY <1>3, <1>6, <1>7, <1>11
  <2> QED
    BY <1>11, <2>1, ClassesAreDisjoint DEF IsContent
<1> QED
  BY <1>1, <1>4, <1>5, <1>8, <1>9, <1>10, <1>11 DEF SavefigShape

\* plot_stacked_bar.py draws from every CSV that it leaves under results/.
LEMMA StackedWasRead ==
    ASSUME ControlInv, CourseInv, todo # <<>>, ~lost, script = "plot_stacked_bar", Prog[Pos].op = "savefig"
    PROVE  \A p \in Protocol : results[p] \in frame
<1>1. /\ Burst(Prog, Pos) = 1 .. Pos - 1 /\ Pos = Len(Prog) /\ Pos \in Nat \ {0} /\ Running
      /\ AllSettled(Prog, Pos + 1, "per_prop", LastSeed)
  BY AtStep, ScriptsAre DEF StepShape, Shape
<1> SUFFICES ASSUME NEW p \in Protocol
             PROVE  results[p] \in frame
  OBVIOUS
<1>2. PICK i \in 1 .. Pos + 1 - 1 : LastRun(Prog, Pos + 1, i) /\ ConfOf(Prog[i]) = <<"per_prop", p, LastSeed>>
  BY <1>1 DEF AllSettled
<1>3. i \in 1 .. Pos - 1 /\ LastRun(Prog, Pos, i)
  <2>1. ~LastRun(Prog, Pos + 1, Pos)
    BY <1>1, LastRunGrows
  <2>2. i \in 1 .. Pos - 1
    BY <1>1, <1>2, <2>1
  <2> QED
    BY <1>1, <1>2, <2>2, LastRunGrows
<1>4. Prog[i].arg.protocol = p
  BY <1>2 DEF ConfOf
<1>5. results[Prog[i].arg.protocol] \in frame
  BY <1>1, <1>3 DEF CourseInv, ResultsInv
<1> QED
  BY <1>4, <1>5

\* Drawing keeps the course part: what is drawn is what it should be.
LEMMA SavefigCourse == ASSUME ControlInv, CourseInv, DoSavefig PROVE CourseInv'
<1>1. /\ todo # <<>> /\ Prog[Pos].op = "savefig" /\ Arg = Prog[Pos].arg /\ Arg.files \in Lists
      /\ UNCHANGED <<results, sweeps, lost, rev>> /\ Pos \in Nat \ {0} /\ Running
      /\ StepShape(script, Prog, Pos)
  BY SavefigMoves, AtStep
<1>2. PICK m \in 0 .. Len(Arg.files) :
        /\ Wrote(m)
        /\ \/ Advance /\ frame' = {} /\ ~Refused /\ (~Quiet => m = Len(Arg.files))
           \/ Raise
  BY SavefigMoves
<1> DEFINE files == Arg.files
           written == {files[i] : i \in 1 .. m}
<1>3. /\ drawn' = drawn \cup written /\ written \subseteq ToSet(files)
      /\ \A a \in written : artifacts'[a] = frame
      /\ \A a \in Artifacts \ written : artifacts'[a] = artifacts[a]
  BY <1>2 DEF Wrote
<1>4. ~Quiet /\ Advance => written = ToSet(files)
  <2>1. ToSet(files) = {files[i] : i \in 1 .. Len(files)}
    BY <1>1, ListsAre
  <2>2. Raise => ~Advance
    BY <1>1, RaiseMoves, AdvanceMoves
  <2> QED
    BY <1>2, <2>1, <2>2
<1>5. cmd' = cmd /\ script' = script /\ steps' = steps /\ drawn \subseteq Artifacts
  BY <1>2 DEF Advance, Raise, ControlInv, FigureTypeOK, FilesTypeOK
<1> HIDE DEF files, written
<1>6. drawn' \subseteq drawn \cup ToSet(Prog[Pos].arg.files)
  BY <1>1, <1>3 DEF files
<1>7. Undrawn'
  BY <1>1, <1>2, <1>6, StepUndrawn DEF CourseInv
<1>8. ContentInv'
  <2> SUFFICES ASSUME ~lost, cmd.kind = "regen" \/ script = Audit, NEW a \in drawn'
               PROVE  \E F : F = artifacts'[a] /\ IsContent(a, F)
    <3>1. \A b, F : IsContent(b, F)' = IsContent(b, F)
      BY <1>1, <1>5 DEF IsContent, LastRunEach, Fresh
    <3> QED
      BY <1>1, <1>5, <3>1 DEF ContentInv
  <2>1. CASE a \in written
    <3>1. a \in ToSet(Prog[Pos].arg.files)
      BY <1>1, <1>3, <2>1 DEF files
    <3>2. IsContent(a, frame)
      BY <1>1, <3>1, DrawnFromTheFrame
    <3> QED
      BY <1>3, <2>1, <3>2
  <2>2. CASE a \notin written
    <3>1. a \in drawn /\ artifacts'[a] = artifacts[a]
      BY <1>3, <1>5, <2>2
    <3> QED
      BY <3>1 DEF CourseInv, ContentInv
  <2> QED
    BY <2>1, <2>2
<1>9. CASE Raise
  BY <1>1, <1>7, <1>8, <1>9, RaiseCourse DEF CourseInv
<1>10. CASE Advance /\ frame' = {} /\ ~Refused
  <2>1. /\ failed_steps' = failed_steps /\ Prog' = Prog /\ Pos' = Pos + 1 /\ Pos' - 1 = Pos
        /\ (todo' = <<>> <=> Pos = Len(Prog))
    BY <1>1, <1>10, AdvanceMoves
  <2>2. FrameInv'
    <3>1. Burst(Prog', Pos') = {}
      BY <1>1, <2>1, BurstGrows
    <3>2. Prog'[Pos' - 1].op = "savefig"
      BY <1>1, <2>1
    <3> QED
      BY <1>10, <3>1, <3>2 DEF FrameInv
  <2>3. ResultsInv' /\ SweepsInv'
    BY <1>1, <1>10, ResultsStay, SweepsStay
  <2>4. script \in AllSteps => todo' = <<>> /\ FiguresOf(script) = ToSet(files)
    <3>1. script \in AllSteps => Pos = Len(Prog)
      BY <1>1 DEF StepShape
    <3>2. script \in AllSteps => FiguresOf(script) = ToSet(Prog[Len(Prog)].arg.files)
      BY DrawsItsLastStep DEF Prog
    <3> QED
      BY <1>1, <2>1, <3>1, <3>2 DEF files
  <2>5. EnergyReady'
    BY <1>5, <2>4, ScriptsAre DEF EnergyReady
  <2>6. ASSUME NEW s \in AllSteps, Done(s)', s # script
        PROVE  Done(s)
    BY <1>5, <2>1, <2>6 DEF Done
  <2>7. QuietInv'
    <3> SUFFICES ASSUME ~lost, Done("plot_stacked_bar")', ~(ToSet(StackedBarFigures) \subseteq drawn'),
                        "plot_paper_energy" \in cmd.selected
                 PROVE  script = "plot_stacked_bar" /\ \A p \in Protocol : results[p].rev \in Barren
      BY <1>1, <1>5 DEF QuietInv
    <3>1. CASE script = "plot_stacked_bar"
      <4>1. FiguresOf(script) = ToSet(StackedBarFigures)
        BY <3>1, StepsTable, FiguresOfAre
      <4>2. Quiet
        BY <1>3, <1>4, <1>10, <2>4, <3>1, <4>1, ScriptsAre
      <4>3. \A p \in Protocol : results[p] \in frame
        BY <1>1, <3>1, StackedWasRead
      <4>4. frame # {}
        BY <4>3, ConfigFacts
      <4>5. \A o \in frame : o.rev \in Barren
        BY <4>2, <4>4 DEF Quiet, NothingCommitted
      <4> QED
        BY <3>1, <4>3, <4>5
    <3>2. CASE script # "plot_stacked_bar"
      <4>1. Done("plot_stacked_bar") /\ ~(ToSet(StackedBarFigures) \subseteq drawn)
        BY <1>3, <2>6, <3>2, ScriptsAre
      <4>2. script = "plot_paper_energy" /\ \A p \in Protocol : results[p].rev \in Barren
        BY <3>2, <4>1 DEF CourseInv, QuietInv
      <4>3. Arg.empty = "refuse" /\ FromResults(Prog, Pos)
        BY <1>1, <4>2 DEF StepShape
      <4>4. frame = {results[p] : p \in Protocol} /\ frame # {}
        BY <1>1, <4>3, FrameFromResults DEF CourseInv
      <4>5. NothingCommitted
        BY <4>2, <4>4 DEF NothingCommitted
      <4> QED
        BY <1>10, <4>3, <4>4, <4>5 DEF Refused
    <3> QED
      BY <3>1, <3>2
  <2>8. ~lost /\ script # "plot_stacked_bar" /\ script # "plot_kde_no_run" => ToSet(files) \subseteq drawn'
    <3> SUFFICES ASSUME ~lost, script # "plot_stacked_bar", script # "plot_kde_no_run"
                 PROVE  ~Quiet
      BY <1>3, <1>4, <1>10
    <3>1. frame # {}
      BY <1>1, SomethingWasRead DEF CourseInv
    <3>2. Arg.empty # "quiet"
      BY <1>1 DEF StepShape
    <3> QED
      BY <3>1, <3>2 DEF Quiet
  <2>9. DrawnInv'
    <3> SUFFICES ASSUME ~lost
                 PROVE  /\ \A s \in AllSteps \ {"plot_stacked_bar"} : Done(s)' => FiguresOf(s) \subseteq drawn'
                        /\ script = Audit /\ failed_steps = {} =>
                             \A i \in 1 .. Pos : Prog[i].op = "savefig" => ToSet(Prog[i].arg.files) \subseteq drawn'
      BY <1>1, <1>5, <2>1 DEF DrawnInv
    <3>1. ASSUME NEW s \in AllSteps \ {"plot_stacked_bar"}, Done(s)'
          PROVE  FiguresOf(s) \subseteq drawn'
      <4>1. CASE s = script
        <5>1. script # "plot_kde_no_run"
          BY <4>1, ScriptsAre
        <5> QED
          BY <2>4, <2>8, <3>1, <4>1, <5>1
      <4>2. CASE s # script
        <5>1. FiguresOf(s) \subseteq drawn
          BY <2>6, <3>1, <4>2 DEF CourseInv, DrawnInv
        <5> QED
          BY <1>3, <5>1
      <4> QED
        BY <4>1, <4>2
    <3>2. ASSUME script = Audit, failed_steps = {}, NEW i \in 1 .. Pos, Prog[i].op = "savefig"
          PROVE  ToSet(Prog[i].arg.files) \subseteq drawn'
      <4>1. CASE i = Pos
        BY <1>1, <2>8, <3>2, <4>1 DEF Audit, files
      <4>2. CASE i \in 1 .. Pos - 1
        BY <1>3, <3>2, <4>2 DEF CourseInv, DrawnInv
      <4> QED
        BY <1>1, <4>1, <4>2
    <3> QED
      BY <3>1, <3>2
  <2> QED
    BY <1>7, <1>8, <2>2, <2>3, <2>5, <2>7, <2>9 DEF CourseInv
<1> QED
  BY <1>2, <1>9, <1>10

----------------------------------------------------------------------------
(***************************************************************************)
(* The last line of PROVENANCE.txt.                                        *)
(***************************************************************************)
\* While no fault has happened, none happens in a step that counts none.
LEMMA FaultsCount == ASSUME ControlInv, faults' = faults \/ Fault PROVE faults' \in Nat /\ (faults' = 0 => faults = 0 /\ ~Fault)
BY DEF ControlInv, FigureTypeOK, Fault

\* A script is started, or none is left.
LEMMA ScriptStarts ==
    ASSUME ControlInv, ProvenanceInv, todo = <<>>, UNCHANGED <<results, last_writer>>, faults' = faults,
           script' \notin DOMAIN Writers \/ (script' \in Scripts /\ todo' = Prog')
    PROVE  ProvenanceInv'
<1> SUFFICES ASSUME faults = 0, NEW s \in DOMAIN Writers, last_writer = Writers[s] \/ script' = s, NEW p \in Protocol
             PROVE  results[p].toml = TomlOf[s] \/ (script' = s /\ StillToRun(p)')
  BY DEF ProvenanceInv
<1>1. CASE script' = s
  <2>1. Shape(s, Prog') /\ todo' = Prog'
    BY <1>1, ProgramsHaveShape DEF Prog
  <2>2. \E k \in 1 .. Len(todo') : todo'[k].op = "run_config" /\ todo'[k].arg.protocol = p
    BY <2>1 DEF Shape
  <2> QED
    BY <1>1, <2>2 DEF StillToRun
<1>2. CASE script' # s
  <2>1. results[p].toml = TomlOf[s] \/ (script = s /\ StillToRun(p))
    BY <1>2 DEF ProvenanceInv
  <2>2. ~StillToRun(p)
    BY DEF StillToRun
  <2> QED
    BY <2>1, <2>2
<1> QED
  BY <1>1, <1>2

\* What is still to run after the step at hand.
LEMMA StillRuns ==
    ASSUME ControlInv, todo # <<>>, Advance, NEW p, StillToRun(p)
    PROVE  StillToRun(p)' \/ (Prog[Pos].op = "run_config" /\ Prog[Pos].arg.protocol = p)
<1>1. PICK j \in 1 .. Len(todo) : todo[j].op = "run_config" /\ todo[j].arg.protocol = p
  BY DEF StillToRun
<1>2. /\ Len(todo) \in Nat /\ Len(todo') = Len(todo) - 1 /\ \A i \in 1 .. Len(todo') : todo'[i] = todo[i + 1]
  BY AtStep, AdvanceMoves
<1>3. CASE j = 1
  <2>1. todo[1] = Prog[Pos]
    BY AtStep
  <2> QED
    BY <1>1, <1>3, <2>1
<1>4. CASE j # 1
  <2>1. j - 1 \in 1 .. Len(todo') /\ (j - 1) + 1 = j
    BY <1>2, <1>4
  <2>2. todo'[j - 1] = todo[j]
    BY <1>2, <2>1
  <2> QED
    BY <1>1, <2>1, <2>2 DEF StillToRun
<1> QED
  BY <1>3, <1>4

\* A step that runs nothing does not touch PROVENANCE.txt.
LEMMA StepProvenance ==
    ASSUME ControlInv, ProvenanceInv, todo # <<>>, Prog[Pos].op # "run_config", UNCHANGED <<results, last_writer>>,
           faults' = faults \/ Fault, Advance \/ (Raise /\ (Fault \/ script \notin DOMAIN Writers))
    PROVE  ProvenanceInv'
<1> SUFFICES ASSUME faults' = 0, NEW s \in DOMAIN Writers, last_writer = Writers[s] \/ script' = s, NEW p \in Protocol
             PROVE  results[p].toml = TomlOf[s] \/ (script' = s /\ StillToRun(p)')
  BY DEF ProvenanceInv
<1>1. faults = 0 /\ ~Fault
  BY FaultsCount
<1>2. script' = script
  BY DEF Advance, Raise
<1>3. results[p].toml = TomlOf[s] \/ (script = s /\ StillToRun(p))
  BY <1>1, <1>2 DEF ProvenanceInv
<1>4. script = s => Advance
  BY <1>1
<1>5. Advance /\ StillToRun(p) => StillToRun(p)'
  BY StillRuns
<1> QED
  BY <1>2, <1>3, <1>4, <1>5

\* Only run_config of the script itself writes its name.
LEMMA RunConfigProvenance == ASSUME ControlInv, ProvenanceInv, DoRunConfig PROVE ProvenanceInv'
<1>1. /\ todo # <<>> /\ Prog[Pos].op = "run_config" /\ Arg = Prog[Pos].arg /\ Arg.protocol \in Protocol
      /\ StepShape(script, Prog, Pos) /\ faults \in Nat
  BY RunConfigMoves, AtStep DEF ControlInv, FigureTypeOK
<1>2. \/ Fault
      \/ /\ Advance /\ last_writer' = Arg.writer /\ UNCHANGED faults
         /\ results' = [results EXCEPT ![Arg.protocol] = Output(Arg.toml, Arg.protocol, Arg.seed, rev, TRUE)]
  BY RunConfigMoves
<1>3. CASE Fault
  BY <1>1, <1>3 DEF Fault, ProvenanceInv
<1>4. CASE /\ Advance /\ last_writer' = Arg.writer /\ UNCHANGED faults
           /\ results' = [results EXCEPT ![Arg.protocol] = Output(Arg.toml, Arg.protocol, Arg.seed, rev, TRUE)]
  <2> SUFFICES ASSUME faults = 0, NEW s \in DOMAIN Writers, last_writer' = Writers[s] \/ script' = s, NEW p \in Protocol
               PROVE  results'[p].toml = TomlOf[s] \/ (script' = s /\ StillToRun(p)')
    BY <1>4 DEF ProvenanceInv
  <2>1. script' = script
    BY <1>4 DEF Advance
  <2>2. script = s
    BY <1>1, <1>4, <2>1 DEF StepShape
  <2>3. Arg.toml = TomlOf[s]
    BY <1>1, <2>2 DEF StepShape
  <2>4. results = [q \in Protocol |-> results[q]]
    BY DEF ControlInv, FigureTypeOK, FilesTypeOK
  <2>5. CASE p = Arg.protocol
    <3> DEFINE o == Output(Arg.toml, Arg.protocol, Arg.seed, rev, TRUE)
    <3>1. o.toml = Arg.toml
      BY DEF Output
    <3> HIDE DEF o
    <3>2. results'[p] = o
      BY <1>4, <2>4, <2>5 DEF o
    <3> QED
      BY <2>3, <3>1, <3>2
  <2>6. CASE p # Arg.protocol
    <3>1. results'[p] = results[p]
      BY <1>4, <2>4, <2>6
    <3>2. results[p].toml = TomlOf[s] \/ StillToRun(p)
      BY <2>2 DEF ProvenanceInv
    <3>3. StillToRun(p) => StillToRun(p)'
      BY <1>1, <1>4, <2>6, StillRuns
    <3> QED
      BY <2>1, <2>2, <3>1, <3>2, <3>3
  <2> QED
    BY <2>5, <2>6
<1> QED
  BY <1>2, <1>3, <1>4

\* So the steps of a script keep the last line of PROVENANCE.txt right,
LEMMA ScriptStepProvenance == ASSUME ControlInv, ProvenanceInv, ScriptStep PROVE ProvenanceInv'
<1>1. CASE DoRunConfig
  BY <1>1, RunConfigProvenance
<1>2. CASE DoSweep
  <2>1. todo # <<>> /\ Prog[Pos].op = "sweep" /\ UNCHANGED <<results, last_writer>>
        /\ ((Advance /\ faults' = faults) \/ (Raise /\ Fault))
    BY <1>2, Doings DEF DoSweep
  <2> QED
    BY <2>1, StepProvenance
<1>3. CASE DoReadSweep
  <2>1. todo # <<>> /\ Prog[Pos].op = "read_sweep" /\ UNCHANGED <<results, last_writer>> /\ faults' = faults
        /\ (Advance \/ Raise)
    BY <1>3, Doings DEF DoReadSweep, disk, budget
  <2>2. script \notin DOMAIN Writers
    BY <2>1, AtStep DEF StepShape
  <2> QED
    BY <2>1, <2>2, StepProvenance
<1>4. CASE DoCheckProvenance
  <2>1. todo # <<>> /\ Prog[Pos].op = "check_provenance" /\ UNCHANGED <<results, last_writer>> /\ faults' = faults
        /\ Advance
    BY <1>4, Doings DEF DoCheckProvenance, disk, budget
  <2> QED
    BY <2>1, StepProvenance
<1>5. CASE DoReadResults
  <2>1. todo # <<>> /\ Prog[Pos].op = "read_results" /\ UNCHANGED <<results, last_writer>> /\ faults' = faults
        /\ (Advance \/ Raise)
    BY <1>5, Doings DEF DoReadResults, disk, budget
  <2>2. script \notin DOMAIN Writers
    BY <2>1, AtStep DEF StepShape
  <2> QED
    BY <2>1, <2>2, StepProvenance
<1>6. CASE DoSavefig
  <2>1. /\ todo # <<>> /\ Prog[Pos].op = "savefig" /\ Arg = Prog[Pos].arg /\ UNCHANGED <<results, last_writer>>
        /\ (faults' = faults \/ Fault) /\ (Advance \/ (Raise /\ (Fault \/ Refused)))
    BY <1>6, SavefigMoves
  <2>2. Refused => script \notin DOMAIN Writers
    BY <2>1, AtStep DEF StepShape, Refused
  <2> QED
    BY <2>1, <2>2, StepProvenance
<1> QED
  BY <1>1, <1>2, <1>3, <1>4, <1>5, <1>6 DEF ScriptStep

\* the loop over STEPS does,
LEMMA NextStepProvenance == ASSUME ControlInv, ProvenanceInv, NextStep PROVE ProvenanceInv'
<1>1. PICK m : m = Min(steps)
  OBVIOUS
<1>2. /\ todo = <<>> /\ UNCHANGED <<disk, faults>> /\ ScriptAt(m) \in AllSteps
      /\ \/ script' = ScriptAt(m) /\ todo' = Prog'
         \/ UNCHANGED <<script, todo>>
  BY <1>1, NextStepMoves
<1>3. UNCHANGED <<results, last_writer>> /\ ScriptAt(m) \in Scripts
  BY <1>2, ScriptsAre DEF disk
<1>4. CASE script' = ScriptAt(m) /\ todo' = Prog'
  BY <1>2, <1>3, <1>4, ScriptStarts
<1>5. CASE UNCHANGED <<script, todo>>
  BY <1>2, <1>3, <1>5 DEF ProvenanceInv, StillToRun
<1> QED
  BY <1>2, <1>4, <1>5

\* and so does every action.
LEMMA NextProvenance == ASSUME ControlInv, ProvenanceInv, Next PROVE ProvenanceInv'
<1>1. ASSUME NEW only, NEW force \in BOOLEAN, NEW no_run \in BOOLEAN, Regen(only, force, no_run)
      PROVE  ProvenanceInv'
  <2>1. script' = None /\ UNCHANGED <<results, last_writer, faults>> /\ todo = <<>> /\ None \notin DOMAIN Writers
    BY <1>1, RegenCourse, StartMoves, TablesAre DEF Regen, None
  <2> QED
    BY <2>1, ScriptStarts
<1>2. ASSUME NEW s \in ByHand, NEW force \in BOOLEAN, RunByHand(s, force)
      PROVE  ProvenanceInv'
  <2>1. script' \in Scripts /\ todo' = Prog' /\ UNCHANGED <<results, last_writer, faults>> /\ todo = <<>>
    BY <1>2, RunByHandControl, RunByHandCourse, StartMoves DEF RunByHand
  <2> QED
    BY <2>1, ScriptStarts
<1>3. CASE Collect \/ Edit
  <2>1. UNCHANGED <<results, last_writer, script, todo, faults>>
    BY <1>3 DEF Collect, Edit, process, disk, budget
  <2> QED
    BY <2>1 DEF ProvenanceInv, StillToRun
<1>4. CASE Finish
  <2>1. script' = None /\ todo = <<>> /\ UNCHANGED <<results, last_writer, faults>> /\ None \notin DOMAIN Writers
    BY <1>4, TablesAre DEF Finish, End, None
  <2> QED
    BY <2>1, ScriptStarts
<1>5. CASE Interrupt
  BY <1>5, InterruptMoves, FaultsCount DEF ProvenanceInv
<1>6. CASE ScriptStep \/ NextStep
  BY <1>6, ScriptStepProvenance, NextStepProvenance
<1> QED
  BY <1>1, <1>2, <1>3, <1>4, <1>5, <1>6 DEF Next

\* What check_provenance may conclude from it.
LEMMA CheckFinds == ASSUME ControlInv, ProvenanceInv, DoCheckProvenance, last_writer = Arg, faults = 0, NEW p \in Protocol
                    PROVE  results[p].toml = IF Arg = "plot_stacked_bar.py" THEN "per_prop" ELSE "awake"
<1>1. todo # <<>> /\ Prog[Pos].op = "check_provenance" /\ Arg = Prog[Pos].arg
  BY Doings DEF DoCheckProvenance
<1>2. script \notin DOMAIN Writers /\ Arg \in {"plot_stacked_bar.py", "plot_kde_awake.py"}
  BY <1>1, AtStep DEF StepShape
<1>3. PICK s \in DOMAIN Writers : Arg = Writers[s] /\ TomlOf[s] = IF Arg = "plot_stacked_bar.py" THEN "per_prop" ELSE "awake"
  BY <1>2, TablesAre
<1> QED
  BY <1>2, <1>3 DEF ProvenanceInv

----------------------------------------------------------------------------
(***************************************************************************)
(* What a command leaves behind.                                           *)
(***************************************************************************)
\* The last runs of plot_stacked_bar.py are what the energy figures are to show.
LEMMA EnergyOfRuns ==
    ASSUME NEW F, LastRunEach(F)
    PROVE  /\ Cardinality(F) = Len(Protocols)
           /\ \A o \in F : o.toml = "per_prop" /\ o.seed = LastSeed /\ o.rev >= cmd.start
<1>1. \A o \in F : o.toml = "per_prop" /\ o.seed = LastSeed /\ o.rev >= cmd.start /\ o.protocol \in Protocol
  BY DEF LastRunEach, Conf, Fresh
<1> DEFINE k == Len(Protocols)
           f == [i \in 1 .. k |-> CHOOSE o \in F : o.protocol = Protocols[i]]
<1>2. /\ k \in Nat /\ Protocol = {Protocols[i] : i \in 1 .. k}
      /\ \A i, j \in 1 .. k : Protocols[i] = Protocols[j] => i = j
  BY ConfigFacts DEF n
<1> HIDE DEF k
<1>3. \A i \in 1 .. k : f[i] \in F /\ f[i].protocol = Protocols[i]
  <2> SUFFICES ASSUME NEW i \in 1 .. k
               PROVE  f[i] \in F /\ f[i].protocol = Protocols[i]
    OBVIOUS
  <2>1. Protocols[i] \in Protocol
    BY <1>2
  <2>2. \E o \in F : o.protocol = Protocols[i]
    BY <2>1 DEF LastRunEach
  <2> QED
    BY <2>2
<1>4. DOMAIN f = 1 .. k
  OBVIOUS
<1>5. f \in [1 .. k -> F]
  BY <1>3
<1> HIDE DEF f
<1>6. f \in Injection(1 .. k, F)
  BY <1>2, <1>3, <1>4, <1>5 DEF Injection, IsInjective
<1>7. \A o \in F : \E i \in 1 .. k : f[i] = o
  <2> SUFFICES ASSUME NEW o \in F
               PROVE  \E i \in 1 .. k : f[i] = o
    OBVIOUS
  <2>1. PICK i \in 1 .. k : Protocols[i] = o.protocol
    BY <1>1, <1>2
  <2>2. f[i] \in F /\ f[i].protocol = o.protocol
    BY <1>3, <2>1
  <2> QED
    BY <2>2 DEF LastRunEach
<1>8. f \in Surjection(1 .. k, F)
  BY <1>5, <1>7 DEF Surjection
<1>9. ExistsBijection(1 .. k, F)
  BY <1>6, <1>8 DEF ExistsBijection, Bijection
<1>10. Cardinality(F) = k
  BY <1>2, <1>9, FS_CountingElements
<1> QED
  BY <1>1, <1>10 DEF k

\* They are what they show while a command is in progress.
LEMMA EnergyWhileRunning == ASSUME ControlInv, ContentInv, cmd # Idle PROVE EnergyFromThisRun
<1> SUFFICES ASSUME "plot_stacked_bar" \in cmd.selected, cmd.kind = "regen", ~lost,
                    NEW a \in drawn \cap ToSet(PaperEnergyFigures)
             PROVE  /\ Cardinality(artifacts[a]) = Len(Protocols)
                    /\ \A o \in artifacts[a] : o.toml = "per_prop" /\ o.seed = LastSeed /\ o.rev >= cmd.start
  BY DEF EnergyFromThisRun
<1>1. a \in PaperArtifacts /\ IsContent(a, artifacts[a])
  BY FileSets DEF ContentInv
<1>2. LastRunEach(artifacts[a])
  BY <1>1 DEF IsContent
<1> QED
  BY <1>2, EnergyOfRuns

\* The command that EnergyFromThisRun is about.
Latest == IF cmd = Idle THEN report.cmd ELSE cmd
\* What is not drawn again stays.
LEMMA EnergyStays ==
    ASSUME EnergyFromThisRun, Latest' = Latest, UNCHANGED <<lost, drawn, artifacts>>
    PROVE  EnergyFromThisRun'
<1> DEFINE Claim(C) ==
      "plot_stacked_bar" \in C.selected /\ C.kind = "regen" /\ ~lost
      => \A a \in drawn \cap ToSet(PaperEnergyFigures) :
           /\ Cardinality(artifacts[a]) = Len(Protocols)
           /\ \A o \in artifacts[a] : o.toml = "per_prop" /\ o.seed = LastSeed /\ o.rev >= C.start
<1>1. PICK C : C = Latest
  OBVIOUS
<1>2. Claim(C)
  BY <1>1 DEF EnergyFromThisRun, Latest
<1>3. C = Latest' /\ Claim(C)'
  BY <1>1, <1>2
<1> QED
  BY <1>3 DEF EnergyFromThisRun, Latest

\* The figures of the energy scripts, when the sources are still those of the start.
LEMMA LastRunsAre ==
    ASSUME NEW F, LastRunEach(F), cmd.start = rev, rev \in Nat
    PROVE  F = Runs("per_prop", LastSeed, rev)
<1>1. \A o \in F : IsOutput(o) /\ Fresh(o) /\ Conf(o) = <<"per_prop", o.protocol, LastSeed>> /\ o.protocol \in Protocol
  BY DEF LastRunEach
<1>2. {Conf(o) : o \in F} \subseteq Confs("per_prop", {LastSeed})
  BY <1>1 DEF Confs
<1>3. Confs("per_prop", {LastSeed}) \subseteq {Conf(o) : o \in F}
  <2> SUFFICES ASSUME NEW p \in Protocol
               PROVE  <<"per_prop", p, LastSeed>> \in {Conf(o) : o \in F}
    BY DEF Confs
  <2>1. PICK o \in F : o.protocol = p
    BY DEF LastRunEach
  <2> QED
    BY <1>1, <2>1
<1>4. F = RunsAt("per_prop", {LastSeed}, rev)
  BY <1>1, <1>2, <1>3, FreshOutputs
<1> QED
  BY <1>4 DEF RunsAt

\* What ExpectedFrom expects of each class of figures.
LEMMA ExpectedIs ==
    ASSUME NEW a \in Figures, NEW r
    PROVE  /\ a \in ScalabilityArtifacts => ExpectedFrom(a, r) = {SweepOutput("scalability", r, TRUE)}
           /\ a \in TopologyArtifacts => ExpectedFrom(a, r) = {SweepOutput("topology", r, TRUE)}
           /\ a \in ProgressArtifacts => ExpectedFrom(a, r) = Runs("progress", RetiredSeed, r)
           /\ a \in StackedArtifacts => ExpectedFrom(a, r) = RunsAt("per_prop", ToSet(Seeds), r)
           /\ a \in PaperArtifacts => ExpectedFrom(a, r) = Runs("per_prop", LastSeed, r)
           /\ a \in KdeArtifacts => ExpectedFrom(a, r) = Runs("awake", RetiredSeed, r)
<1>1. a # "slots_per_decision" /\ a \notin {"progress_snapshots", "progress_README"}
      /\ a \notin {"per_decision_energy", "distribution_stats", "integer_multiple_check"}
  BY ArtifactsAre DEF ScalabilityArtifacts, TopologyArtifacts, PaperArtifacts, KdeArtifacts
<1>2. ToSet(ProgressFigures \o ProgressLogFigures) = {"progress_over_time", "progress_over_time_log"}
  BY DEF ToSet, ProgressFigures, ProgressLogFigures
<1>3. /\ a \in SweepReaders["scalability"] <=> a \in ScalabilityArtifacts
      /\ a \in SweepReaders["topology"] <=> a \in TopologyArtifacts
  BY <1>1, SweepReadersAre
<1>4. a \in ToSet(ProgressFigures \o ProgressLogFigures) <=> a \in ProgressArtifacts
  BY <1>1, <1>2 DEF ProgressArtifacts
<1>5. a \in ToSet(StackedBarFigures) <=> a \in StackedArtifacts
  BY <1>1, FileSets DEF StackedArtifacts
<1>6. a \in ToSet(PaperEnergyFigures) <=> a \in PaperArtifacts
  BY FileSets
<1>7. a \in ToSet(KdeFigures) <=> a \in KdeArtifacts
  BY FileSets
<1> DEFINE e1 == {SweepOutput("scalability", r, TRUE)}
           e2 == {SweepOutput("topology", r, TRUE)}
           e3 == Runs("progress", RetiredSeed, r)
           e4 == RunsAt("per_prop", ToSet(Seeds), r)
           e5 == Runs("per_prop", LastSeed, r)
           e6 == Runs("awake", RetiredSeed, r)
<1>8. ExpectedFrom(a, r) =
        CASE a \in SweepReaders["scalability"] -> e1
          [] a \in SweepReaders["topology"] -> e2
          [] a \in ToSet(ProgressFigures \o ProgressLogFigures) -> e3
          [] a \in ToSet(StackedBarFigures) -> e4
          [] a \in ToSet(PaperEnergyFigures) -> e5
          [] a \in ToSet(KdeFigures) -> e6
  BY DEF ExpectedFrom, RunsAt
<1> DEFINE x == ExpectedFrom(a, r)
           b1 == a \in SweepReaders["scalability"]
           b2 == a \in SweepReaders["topology"]
           b3 == a \in ToSet(ProgressFigures \o ProgressLogFigures)
           b4 == a \in ToSet(StackedBarFigures)
           b5 == a \in ToSet(PaperEnergyFigures)
           b6 == a \in ToSet(KdeFigures)
<1>9. x = CASE b1 -> e1 [] b2 -> e2 [] b3 -> e3 [] b4 -> e4 [] b5 -> e5 [] b6 -> e6
  BY <1>8
<1>16. /\ b1 <=> a \in ScalabilityArtifacts
       /\ b2 <=> a \in TopologyArtifacts
       /\ b3 <=> a \in ProgressArtifacts
       /\ b4 <=> a \in StackedArtifacts
       /\ b5 <=> a \in PaperArtifacts
       /\ b6 <=> a \in KdeArtifacts
  BY <1>3, <1>4, <1>5, <1>6, <1>7
<1> HIDE DEF e1, e2, e3, e4, e5, e6, x, b1, b2, b3, b4, b5, b6
<1>17. /\ b1 => ~b2 /\ ~b3 /\ ~b4 /\ ~b5 /\ ~b6
       /\ b2 => ~b3 /\ ~b4 /\ ~b5 /\ ~b6
       /\ b3 => ~b4 /\ ~b5 /\ ~b6
       /\ b4 => ~b5 /\ ~b6
       /\ b5 => ~b6
  BY <1>16, ClassesAreDisjoint
<1>10. b1 => x = e1
  BY <1>9, <1>17
<1>11. b2 => x = e2
  BY <1>9, <1>17
<1>12. b3 => x = e3
  BY <1>9, <1>17
<1>13. b4 => x = e4
  BY <1>9, <1>17
<1>14. b5 => x = e5
  BY <1>9, <1>17
<1>15. b6 => x = e6
  BY <1>9, <1>17
<1> QED
  BY <1>10, <1>11, <1>12, <1>13, <1>14, <1>15, <1>16 DEF e1, e2, e3, e4, e5, e6, x

\* Every figure is drawn by a script of STEPS.
LEMMA EveryFigureHasAScript == \A a \in Figures : \E i \in 1 .. 9 : a \in FiguresOf(ScriptAt(i))
<1>1. Figures = (ScalabilityArtifacts \ {"slots_per_decision"}) \cup TopologyArtifacts
         \cup {"progress_over_time", "progress_over_time_log", "stacked_bar_per_proposal_energy"}
         \cup PaperArtifacts \cup KdeArtifacts
  BY ArtifactsAre
<1>2. \A a \in ScalabilityArtifacts \ {"slots_per_decision"} : \E i \in 1 .. 9 : a \in FiguresOf(ScriptAt(i))
  <2>1. ScalabilityArtifacts \ {"slots_per_decision"} = FiguresOf(ScriptAt(1)) \cup FiguresOf(ScriptAt(2)) \cup FiguresOf(ScriptAt(3))
    BY SweepReadersAre
  <2>2. 1 \in 1 .. 9 /\ 2 \in 1 .. 9 /\ 3 \in 1 .. 9
    OBVIOUS
  <2> QED
    BY <2>1, <2>2
<1>3. 4 \in 1 .. 9 /\ 5 \in 1 .. 9 /\ 6 \in 1 .. 9 /\ 7 \in 1 .. 9 /\ 8 \in 1 .. 9 /\ 9 \in 1 .. 9
  OBVIOUS
<1>4. /\ FiguresOf(ScriptAt(4)) = TopologyArtifacts /\ FiguresOf(ScriptAt(8)) = PaperArtifacts
      /\ FiguresOf(ScriptAt(9)) = KdeArtifacts
      /\ "progress_over_time" \in FiguresOf(ScriptAt(5)) /\ "progress_over_time_log" \in FiguresOf(ScriptAt(6))
      /\ "stacked_bar_per_proposal_energy" \in FiguresOf(ScriptAt(7))
  BY FiguresOfAre, FileSets
<1> QED
  BY <1>1, <1>2, <1>3, <1>4

\* A regeneration that has come to its end without a failure.
LEMMA RegenDraws ==
    ASSUME ControlInv, CourseInv, cmd.kind = "regen", todo = <<>>, steps = {}, failed_steps = {}, ~lost,
           "plot_stacked_bar" \in cmd.selected => "plot_paper_energy" \in cmd.selected
    PROVE  \A s \in cmd.selected : FiguresOf(s) \subseteq drawn
<1> SUFFICES ASSUME NEW s \in cmd.selected
             PROVE  FiguresOf(s) \subseteq drawn
  OBVIOUS
<1>1. \A t \in cmd.selected : Done(t)
  BY DEF Done
<1>2. s \in AllSteps
  BY Regenerating
<1>3. CASE s # "plot_stacked_bar"
  BY <1>1, <1>2, <1>3 DEF CourseInv, DrawnInv
<1>4. CASE s = "plot_stacked_bar"
  <2>1. FiguresOf(s) = ToSet(StackedBarFigures) /\ ScriptAt(7) = "plot_stacked_bar" /\ ScriptAt(8) = "plot_paper_energy"
    BY <1>4, FiguresOfAre, StepsTable
  <2>2. ASSUME ~(ToSet(StackedBarFigures) \subseteq drawn)
        PROVE  FALSE
    <3>1. script = "plot_stacked_bar"
      BY <1>1, <1>4, <2>2 DEF CourseInv, QuietInv
    <3>2. PICK c \in 0 .. 9 : /\ IF c = 0 THEN script = None ELSE script = ScriptAt(c) /\ script \in cmd.selected
                              /\ steps = StillToCome(c)
      BY DEF ControlInv, CommandInv
    <3>3. c = 7
      <4>1. script # None /\ 7 \in 1 .. 9
        BY <3>1 DEF None
      <4> QED
        BY <3>1, <3>2, <4>1, <2>1, PlacesAreDistinct
    <3>4. 8 \in StillToCome(7)
      BY <1>4, <2>1 DEF StillToCome
    <3> QED
      BY <3>2, <3>3, <3>4
  <2> QED
    BY <2>1, <2>2
<1> QED
  BY <1>3, <1>4

\* A forced one, of sources that nobody edited.
LEMMA ForcedContent ==
    ASSUME ControlInv, CourseInv, cmd.kind = "regen", cmd.force, todo = <<>>, steps = {}, failed_steps = {}, ~lost,
           cmd.selected = AllSteps, cmd.start = rev, NEW a \in Figures
    PROVE  artifacts[a] = ExpectedFrom(a, rev)
<1>1. rev \in Nat
  BY DEF ControlInv, FigureTypeOK
<1>2. "plot_paper_energy" \in AllSteps /\ "plot_stacked_bar" \in AllSteps /\ \A i \in 1 .. 9 : ScriptAt(i) \in AllSteps
  BY ScriptsAre
<1>3. a \in drawn
  <2>1. PICK i \in 1 .. 9 : a \in FiguresOf(ScriptAt(i))
    BY EveryFigureHasAScript
  <2> QED
    BY <1>2, <2>1, RegenDraws
<1>4. IsContent(a, artifacts[a])
  BY <1>3 DEF CourseInv, ContentInv
<1>5. \A csv \in Csvs : sweeps[csv] = SweepOutput(csv, rev, TRUE)
  <2> SUFFICES ASSUME NEW csv \in Csvs
               PROVE  sweeps[csv] = SweepOutput(csv, rev, TRUE)
    OBVIOUS
  <2>1. SweeperOf[csv] \in 1 .. 9 /\ ScriptAt(SweeperOf[csv]) \in cmd.selected
    BY <1>2, TablesAre
  <2>2. script = ScriptAt(SweeperOf[csv]) => Pos > 1
    BY <2>1, PlacesAreDistinct, AtEnd
  <2> QED
    BY <2>1, <2>2 DEF CourseInv, SweepsInv
<1>6. "scalability" \in Csvs /\ "topology" \in Csvs
  BY DEF Csvs
<1>7. a \in ScalabilityArtifacts \/ a \in TopologyArtifacts \/ a \in ProgressArtifacts \/ a \in StackedArtifacts
      \/ a \in PaperArtifacts \/ a \in KdeArtifacts
  BY ArtifactsAre DEF Artifacts
<1>8. CASE a \in ScalabilityArtifacts
  BY <1>4, <1>5, <1>6, <1>8, ExpectedIs DEF IsContent
<1>9. CASE a \in TopologyArtifacts
  BY <1>4, <1>5, <1>6, <1>9, ExpectedIs DEF IsContent
<1>10. CASE a \in ProgressArtifacts
  BY <1>4, <1>10, ExpectedIs DEF IsContent
<1>11. CASE a \in StackedArtifacts
  <2>1. artifacts[a] = RunsAt("per_prop", ToSet(Seeds), rev)
    BY <1>4, <1>11 DEF IsContent, RunsAt
  <2>2. ExpectedFrom(a, rev) = RunsAt("per_prop", ToSet(Seeds), rev)
    BY <1>11, ExpectedIs
  <2> QED
    BY <2>1, <2>2
<1>12. CASE a \in PaperArtifacts
  <2>1. LastRunEach(artifacts[a])
    BY <1>2, <1>4, <1>12 DEF IsContent
  <2> QED
    BY <1>1, <1>12, <2>1, LastRunsAre, ExpectedIs
<1>13. CASE a \in KdeArtifacts
  BY <1>4, <1>13, ExpectedIs DEF IsContent
<1> QED
  BY <1>7, <1>8, <1>9, <1>10, <1>11, <1>12, <1>13

\* What tools/audit_sources_210b.py has drawn when it comes to its end.
LEMMA AuditDraws ==
    ASSUME ControlInv, CourseInv, script = Audit, todo = <<>>, failed_steps = {}, ~lost
    PROVE  ToSet(ProgressEvidence) \cup ToSet(SlotsEvidence) \cup ToSet(EnergyEvidence) \subseteq drawn
<1> DEFINE r == Len(PerProposalRuns("audit_sources_210b.py"))
           A == AuditSources
<1>1. Prog = A
  BY ProgramIs DEF Prog
<1>2. /\ A \in Seq(AnyStep) /\ Len(A) = 2 * n + 7 + r
      /\ A[2 * n + 4] = Savefig(ProgressEvidence, "draw") /\ A[2 * n + 6] = Savefig(SlotsEvidence, "draw")
      /\ A[2 * n + 7 + r] = Savefig(EnergyEvidence, "refuse")
  BY AuditItems
<1>3. n \in Nat /\ r \in Nat
  <2>1. RunsAll(PerProposalRuns("audit_sources_210b.py"), "audit_sources_210b.py", "per_prop", ToSet(Seeds), LastSeed)
    BY PerProposalIsARow
  <2> QED
    BY <2>1, RowItems, ConfigFacts
<1> HIDE DEF r, A
<1>4. Pos - 1 = Len(A) /\ Len(A) \in Nat
  BY <1>1, <1>2, <1>3 DEF Pos
<1>5. 2 * n + 4 \in 1 .. Pos - 1 /\ 2 * n + 6 \in 1 .. Pos - 1 /\ 2 * n + 7 + r \in 1 .. Pos - 1
  BY <1>2, <1>3, <1>4
<1>6. \A i \in 1 .. Pos - 1 : A[i].op = "savefig" => ToSet(A[i].arg.files) \subseteq drawn
  BY <1>1 DEF CourseInv, DrawnInv
<1>7. \A f, e : Savefig(f, e).op = "savefig" /\ Savefig(f, e).arg.files = f
  BY DEF Savefig
<1>8. ToSet(ProgressEvidence) \subseteq drawn
  BY <1>2, <1>5, <1>6, <1>7
<1>9. ToSet(SlotsEvidence) \subseteq drawn
  BY <1>2, <1>5, <1>6, <1>7
<1>10. ToSet(EnergyEvidence) \subseteq drawn
  BY <1>2, <1>5, <1>6, <1>7
<1> QED
  BY <1>8, <1>9, <1>10

\* The evidence files hold what AuditIsHonest asks for.
LEMMA AuditContent ==
    ASSUME ControlInv, CourseInv, script = Audit, todo = <<>>, failed_steps = {}, ~lost
    PROVE  /\ cmd.start = rev =>
                /\ \A a \in ToSet(ProgressEvidence) : artifacts[a] = Runs("progress", RetiredSeed, rev)
                /\ \A a \in ToSet(EnergyEvidence) : artifacts[a] = UNION {Runs("per_prop", s, rev) : s \in ToSet(Seeds)}
           /\ \A a \in ToSet(SlotsEvidence) : artifacts[a] = {sweeps["scalability"]}
<1>1. \A a \in ToSet(ProgressEvidence) \cup ToSet(SlotsEvidence) \cup ToSet(EnergyEvidence) : IsContent(a, artifacts[a])
  BY AuditDraws DEF CourseInv, ContentInv
<1>2. /\ ToSet(ProgressEvidence) \subseteq ProgressArtifacts /\ ToSet(SlotsEvidence) \subseteq ScalabilityArtifacts
      /\ ToSet(EnergyEvidence) \subseteq StackedArtifacts
  BY FileSets DEF ProgressArtifacts, ScalabilityArtifacts, StackedArtifacts
<1>3. ASSUME cmd.start = rev, NEW a, a \in ToSet(ProgressEvidence)
      PROVE  artifacts[a] = Runs("progress", RetiredSeed, rev)
  BY <1>1, <1>2, <1>3 DEF IsContent
<1>4. ASSUME cmd.start = rev, NEW a, a \in ToSet(EnergyEvidence)
      PROVE  artifacts[a] = UNION {Runs("per_prop", s, rev) : s \in ToSet(Seeds)}
  BY <1>1, <1>2, <1>4 DEF IsContent
<1>5. ASSUME NEW a, a \in ToSet(SlotsEvidence)
      PROVE  artifacts[a] = {sweeps["scalability"]}
  BY <1>1, <1>2, <1>5 DEF IsContent
<1> QED
  BY <1>3, <1>4, <1>5

\* Finish, with exit code 0.
LEMMA FinishCanonical == ASSUME ControlInv, CourseInv, Finish PROVE ForcedRegenIsCanonical'
<1>1. /\ cmd # Idle /\ todo = <<>> /\ steps = {} /\ report'.cmd = cmd /\ report'.ok = (failed_steps = {})
      /\ UNCHANGED <<artifacts, rev, lost>>
  BY DEF Finish, End
<1> SUFFICES ASSUME Regenerated(report)', cmd.force, NEW a \in Figures
             PROVE  {artifacts'[a], manifest'[a]} = {Expected[rev][a]}
  BY <1>1 DEF ForcedRegenIsCanonical
<1>2. failed_steps = {} /\ ~lost /\ cmd.kind = "regen" /\ cmd.selected = AllSteps /\ cmd.start = rev
  BY <1>1 DEF Regenerated
<1>3. manifest' = [b \in Figures |-> artifacts[b]]
  BY <1>2 DEF Finish
<1>4. artifacts'[a] = artifacts[a] /\ manifest'[a] = artifacts[a]
  BY <1>1, <1>3
<1>5. artifacts[a] = ExpectedFrom(a, rev)
  BY <1>1, <1>2, ForcedContent
<1>6. Expected[rev][a] = ExpectedFrom(a, rev)
  <2>1. rev \in 0 .. MaxEdits
    BY DEF ControlInv, FigureTypeOK
  <2> HIDE <1>5
  <2> QED
    BY <2>1 DEF Expected
<1> QED
  BY <1>4, <1>5, <1>6

\* The end of a command with exit code 0 is honest.
LEMMA FinishHonest == ASSUME ControlInv, CourseInv, Finish PROVE ExitCodeIsHonest'
<1>1. /\ cmd # Idle /\ todo = <<>> /\ steps = {} /\ report'.cmd = cmd /\ report'.ok = (failed_steps = {})
      /\ UNCHANGED <<artifacts, rev, lost, drawn, sweeps>>
  BY DEF Finish, End
<1> SUFFICES ASSUME failed_steps = {}, ~lost
             PROVE  /\ cmd.kind = "regen" => RegenIsHonest'
                    /\ "audit_sources_210b" \in cmd.selected => AuditIsHonest'
                    /\ cmd.kind = "collect" => CollectIsHonest'
  BY <1>1 DEF ExitCodeIsHonest
<1>2. ASSUME cmd.kind = "regen"
      PROVE  RegenIsHonest'
  <2> SUFFICES ASSUME "plot_stacked_bar" \in cmd.selected => "plot_paper_energy" \in cmd.selected
               PROVE  /\ UNION {FiguresOf(s) : s \in cmd.selected} \subseteq drawn
                      /\ \A c \in Csvs : \A a \in SweepReaders[c] \cap UNION {FiguresOf(s) : s \in cmd.selected} :
                           artifacts[a] = {sweeps[c]}
    BY <1>1 DEF RegenIsHonest
  <2>1. \A s \in cmd.selected : FiguresOf(s) \subseteq drawn
    BY <1>1, <1>2, RegenDraws
  <2>2. UNION {FiguresOf(s) : s \in cmd.selected} \subseteq drawn
    BY <2>1
  <2>3. \A a \in drawn : IsContent(a, artifacts[a])
    BY <1>2 DEF CourseInv, ContentInv
  <2>4. SweepReaders["scalability"] \subseteq ScalabilityArtifacts /\ SweepReaders["topology"] \subseteq TopologyArtifacts
    BY SweepReadersAre
  <2>5. \A a \in drawn : /\ a \in SweepReaders["scalability"] => artifacts[a] = {sweeps["scalability"]}
                         /\ a \in SweepReaders["topology"] => artifacts[a] = {sweeps["topology"]}
    BY <2>3, <2>4 DEF IsContent
  <2> QED
    BY <2>2, <2>5 DEF Csvs
<1>3. ASSUME "audit_sources_210b" \in cmd.selected
      PROVE  AuditIsHonest'
  <2>1. script = Audit
    <3>1. cmd.kind # "regen"
      BY <1>3, Regenerating, ScriptsAre, PlacesAreDistinct DEF Audit
    <3>2. cmd.kind = "script" /\ cmd.selected = {script}
      BY <1>1, <3>1 DEF ControlInv, CommandInv, FigureTypeOK, CommandType
    <3> QED
      BY <1>3, <3>2 DEF Audit
  <2>2. PICK e : e = UNION {Runs("per_prop", s, rev) : s \in ToSet(Seeds)}
    OBVIOUS
  <2>3. /\ cmd.start = rev =>
             /\ \A a \in ToSet(ProgressEvidence) : artifacts[a] = Runs("progress", RetiredSeed, rev)
             /\ \A a \in ToSet(EnergyEvidence) : artifacts[a] = UNION {Runs("per_prop", s, rev) : s \in ToSet(Seeds)}
        /\ \A a \in ToSet(SlotsEvidence) : artifacts[a] = {sweeps["scalability"]}
    BY <1>1, <2>1, AuditContent
  <2> QED
    BY <1>1, <2>3 DEF AuditIsHonest
<1>4. cmd.kind # "collect"
  BY DEF ControlInv, CommandInv
<1> QED
  BY <1>2, <1>3, <1>4

\* A command in progress reports nothing.
LEMMA BusyIsQuiet == ASSUME ControlInv, cmd # Idle PROVE ForcedRegenIsCanonical /\ ExitCodeIsHonest
<1>1. report = NoReport
  BY DEF ControlInv, CommandInv
<1>2. ~report.ok
  BY <1>1, IdleIsTyped
<1> QED
  BY <1>2 DEF ForcedRegenIsCanonical, Regenerated, ExitCodeIsHonest

\* The three invariants, at every moment.
LEMMA AlwaysIdleInv ==
    ASSUME ControlInv, ContentInv, IdleInv
    PROVE  ForcedRegenIsCanonical /\ ExitCodeIsHonest /\ EnergyFromThisRun
BY BusyIsQuiet, EnergyWhileRunning DEF IdleInv

\* They hold in the first state, and every action that ends in the idle state keeps them.
LEMMA InitIdle == Init => IdleInv
<1> SUFFICES ASSUME Init
             PROVE  ForcedRegenIsCanonical /\ ExitCodeIsHonest /\ EnergyFromThisRun
  BY DEF IdleInv
<1>1. report = NoReport /\ cmd = Idle /\ drawn = {}
  BY DEF Init
<1>2. ~report.ok
  BY <1>1, IdleIsTyped
<1>3. ForcedRegenIsCanonical /\ ExitCodeIsHonest
  BY <1>2 DEF ForcedRegenIsCanonical, Regenerated, ExitCodeIsHonest
<1>4. EnergyFromThisRun
  BY <1>1 DEF EnergyFromThisRun
<1> QED
  BY <1>3, <1>4

LEMMA CollectIdle == ASSUME ControlInv, Collect PROVE IdleInv'
<1>1. /\ report'.cmd.kind = "collect" /\ report'.cmd.selected = {} /\ cmd' = Idle /\ artifacts' = artifacts
  BY CollectMoves DEF process
<1>2. ForcedRegenIsCanonical'
  BY <1>1 DEF ForcedRegenIsCanonical, Regenerated
<1>3. report'.ok => CollectIsHonest'
  <2> DEFINE present == {f \in DOMAIN MAPPING : artifacts[MAPPING[f]] # {}}
             what(f) == [of |-> MAPPING[f], from |-> artifacts[MAPPING[f]]]
             x == [Idle EXCEPT !.kind = "collect", !.start = rev]
  <2>1. /\ paper' = [f \in DOMAIN MAPPING |-> IF f \in present THEN what(f) ELSE paper[f]]
        /\ report' = [cmd |-> x, ok |-> present = DOMAIN MAPPING]
    BY DEF Collect
  <2>2. \A f : what(f).from = artifacts[MAPPING[f]]
    OBVIOUS
  <2> HIDE DEF what, x
  <2>3. report'.ok => present = DOMAIN MAPPING
    BY <2>1
  <2> SUFFICES ASSUME present = DOMAIN MAPPING, NEW f \in DOMAIN MAPPING
               PROVE  paper'[f].from = artifacts[MAPPING[f]] /\ paper'[f].from # {}
    BY <1>1, <2>3 DEF CollectIsHonest
  <2>4. paper'[f] = what(f) /\ artifacts[MAPPING[f]] # {}
    BY <2>1
  <2> QED
    BY <2>2, <2>4
<1>4. ExitCodeIsHonest'
  BY <1>1, <1>3 DEF ExitCodeIsHonest
<1>5. EnergyFromThisRun'
  BY <1>1 DEF EnergyFromThisRun
<1> QED
  BY <1>2, <1>4, <1>5 DEF IdleInv

LEMMA EditIdle == ASSUME ControlInv, IdleInv, Edit PROVE IdleInv'
<1>1. rev' = rev + 1 /\ UNCHANGED <<disk, process, report>>
  BY DEF Edit
<1>2. rev \in Nat /\ report.cmd.start \in Nat /\ report.cmd.start <= rev
  BY DEF ControlInv, FigureTypeOK, CommandInv, CommandType
<1>3. report.cmd.start # rev'
  BY <1>1, <1>2
<1>4. UNCHANGED <<sweeps, artifacts, paper, cmd, drawn, lost, report>>
  BY <1>1 DEF disk, process
<1> SUFFICES ASSUME cmd = Idle
             PROVE  (ForcedRegenIsCanonical /\ ExitCodeIsHonest /\ EnergyFromThisRun)'
  BY <1>4 DEF IdleInv
<1>5. ForcedRegenIsCanonical'
  BY <1>3, <1>4 DEF ForcedRegenIsCanonical, Regenerated
<1>6. ExitCodeIsHonest /\ EnergyFromThisRun
  BY DEF IdleInv
<1>7. RegenIsHonest => RegenIsHonest'
  BY <1>4 DEF RegenIsHonest
<1>8. AuditIsHonest => AuditIsHonest'
  BY <1>3, <1>4 DEF AuditIsHonest
<1>9. CollectIsHonest => CollectIsHonest'
  BY <1>4 DEF CollectIsHonest
<1>10. ExitCodeIsHonest'
  BY <1>4, <1>6, <1>7, <1>8, <1>9 DEF ExitCodeIsHonest
<1>11. EnergyFromThisRun'
  BY <1>4, <1>6, EnergyStays DEF Latest
<1> QED
  BY <1>5, <1>10, <1>11

LEMMA FinishIdle == ASSUME ControlInv, CourseInv, Finish PROVE IdleInv'
<1>1. cmd # Idle /\ cmd' = Idle /\ report'.cmd = cmd /\ UNCHANGED <<drawn, lost, artifacts>>
  BY DEF Finish, End
<1>2. EnergyFromThisRun
  BY <1>1, EnergyWhileRunning DEF CourseInv
<1>3. EnergyFromThisRun'
  BY <1>1, <1>2, EnergyStays DEF Latest
<1> QED
  BY <1>3, FinishCanonical, FinishHonest DEF IdleInv

LEMMA InterruptIdle == ASSUME ControlInv, CourseInv, Interrupt PROVE IdleInv'
<1>1. cmd # Idle /\ cmd' = Idle /\ report'.cmd = cmd /\ report'.ok = FALSE /\ UNCHANGED <<drawn, lost, artifacts>>
  BY InterruptMoves, EndMoves
<1>2. EnergyFromThisRun
  BY <1>1, EnergyWhileRunning DEF CourseInv
<1>3. EnergyFromThisRun'
  BY <1>1, <1>2, EnergyStays DEF Latest
<1>4. ForcedRegenIsCanonical' /\ ExitCodeIsHonest'
  BY <1>1 DEF ForcedRegenIsCanonical, Regenerated, ExitCodeIsHonest
<1> QED
  BY <1>3, <1>4 DEF IdleInv

\* A step of a script or of the loop leaves the command in progress.
LEMMA BusyStays == ASSUME ControlInv, ScriptStep \/ NextStep PROVE cmd' # Idle
<1>1. CASE ScriptStep
  <2>1. todo # <<>> /\ (Advance \/ Raise)
    <3>1. CASE DoSweep
      BY <3>1, Doings DEF DoSweep
    <3>2. CASE DoReadSweep
      BY <3>2, Doings DEF DoReadSweep
    <3>3. CASE DoRunConfig
      BY <3>3, RunConfigMoves
    <3>4. CASE DoCheckProvenance
      BY <3>4, Doings DEF DoCheckProvenance
    <3>5. CASE DoReadResults
      BY <3>5, Doings DEF DoReadResults
    <3>6. CASE DoSavefig
      BY <3>6, SavefigMoves
    <3> QED
      BY <1>1, <3>1, <3>2, <3>3, <3>4, <3>5, <3>6 DEF ScriptStep
  <2> QED
    BY <2>1, AtStep DEF Advance, Raise
<1>2. CASE NextStep
  BY <1>2, NextStepMoves, IdleIsTyped
<1> QED
  BY <1>1, <1>2

----------------------------------------------------------------------------
(***************************************************************************)
(* The invariant.                                                          *)
(***************************************************************************)
\* The invariant in the parts the actions are proved to keep.
LEMMA FigureInvParts == FigureInv <=> ControlInv /\ CourseInv /\ ProvenanceInv /\ IdleInv
BY DEF FigureInv, CourseInv

\* The first state satisfies it.
LEMMA InitFigures == Init => FigureInv
<1> SUFFICES ASSUME Init
             PROVE  FigureInv
  OBVIOUS
<1>1. ControlInv /\ IdleInv
  BY InitControl, InitIdle
<1>2. CourseInv
  BY <1>1, IdleCourse DEF Init
<1>3. ProvenanceInv
  <2>1. last_writer = None /\ script = None /\ None \notin DOMAIN Writers
    BY TablesAre DEF Init, None
  <2>2. \A s \in DOMAIN Writers : last_writer # Writers[s] /\ script # s
    BY <2>1, TablesAre DEF None
  <2> QED
    BY <2>2 DEF ProvenanceInv
<1> QED
  BY <1>1, <1>2, <1>3, FigureInvParts

\* The steps of a script keep it.
LEMMA ScriptStepKeeps == ASSUME ControlInv, CourseInv, ScriptStep PROVE ControlInv' /\ CourseInv'
<1>1. CASE DoSweep
  BY <1>1, SweepControl, SweepCourse
<1>2. CASE DoReadSweep
  BY <1>2, ReadSweepControl, ReadSweepCourse
<1>3. CASE DoRunConfig
  BY <1>3, RunConfigControl, RunConfigCourse
<1>4. CASE DoCheckProvenance
  BY <1>4, CheckControl, CheckCourse
<1>5. CASE DoReadResults
  BY <1>5, ReadResultsControl, ReadResultsCourse
<1>6. CASE DoSavefig
  BY <1>6, SavefigControl, SavefigCourse
<1> QED
  BY <1>1, <1>2, <1>3, <1>4, <1>5, <1>6 DEF ScriptStep

\* Every action keeps it.
LEMMA NextKeeps == ASSUME ControlInv, CourseInv, IdleInv, Next PROVE ControlInv' /\ CourseInv' /\ IdleInv'
<1>1. ASSUME NEW only, NEW force \in BOOLEAN, NEW no_run \in BOOLEAN, Regen(only, force, no_run)
      PROVE  ControlInv' /\ CourseInv' /\ IdleInv'
  BY <1>1, RegenCourse DEF IdleInv
<1>2. ASSUME NEW s \in ByHand, NEW force \in BOOLEAN, RunByHand(s, force)
      PROVE  ControlInv' /\ CourseInv' /\ IdleInv'
  BY <1>2, RunByHandCourse DEF IdleInv
<1>3. CASE Collect
  <2>1. ControlInv' /\ cmd' = Idle
    BY <1>3, CollectControl, CollectMoves DEF process
  <2>2. CourseInv'
    BY <2>1, IdleCourseNext
  <2> QED
    BY <1>3, <2>1, <2>2, CollectIdle
<1>4. CASE Edit
  BY <1>4, EditControl, EditCourse, EditIdle
<1>5. CASE Finish
  <2>1. ControlInv' /\ cmd' = Idle
    BY <1>5, FinishControl DEF Finish, End
  <2> QED
    BY <1>5, <2>1, IdleCourseNext, FinishIdle
<1>6. CASE Interrupt
  <2>1. ControlInv' /\ cmd' = Idle
    BY <1>6, InterruptControl DEF Interrupt, End
  <2> QED
    BY <1>6, <2>1, IdleCourseNext, InterruptIdle
<1>7. CASE ScriptStep
  BY <1>7, ScriptStepKeeps, BusyStays DEF IdleInv
<1>8. CASE NextStep
  BY <1>8, NextStepControl, NextStepCourse, BusyStays DEF IdleInv
<1> QED
  BY <1>1, <1>2, <1>3, <1>4, <1>5, <1>6, <1>7, <1>8 DEF Next

\* A step that changes nothing keeps it.
LEMMA SameFigures == ASSUME FigureInv, UNCHANGED vars PROVE FigureInv'
<1>1. UNCHANGED <<rev, results, sweeps, last_writer, artifacts, manifest, paper, sha, cmd, script, steps, todo, frame,
                  failed_steps, drawn, lost, report, faults>>
  BY DEF vars, disk, process, budget
<1>2. ControlInv'
  <2>1. FilesTypeOK'
    BY <1>1 DEF FigureInv, ControlInv, FigureTypeOK, FilesTypeOK, IsOutput
  <2>2. FigureTypeOK'
    BY <1>1, <2>1 DEF FigureInv, ControlInv, FigureTypeOK
  <2>3. CommandInv'
    BY <1>1 DEF FigureInv, ControlInv, CommandInv, StillToCome
  <2>4. TodoInv'
    BY <1>1 DEF FigureInv, ControlInv, TodoInv, Prog, Pos
  <2> QED
    BY <2>2, <2>3, <2>4 DEF ControlInv
<1>3. Prog' = Prog /\ Pos' = Pos /\ Running' = Running /\ (\A o : Fresh(o)' = Fresh(o)) /\ \A s : Done(s)' = Done(s)
  BY <1>1 DEF Prog, Pos, Running, Fresh, Done
<1>4. FrameInv'
  BY <1>1, <1>3 DEF FigureInv, FrameInv
<1>5. ResultsInv'
  BY <1>1, <1>3 DEF FigureInv, ResultsInv
<1>6. SweepsInv' /\ Undrawn'
  BY <1>1, <1>3 DEF FigureInv, SweepsInv, Undrawn, Ahead
<1>7. \A F : LastRunEach(F)' = LastRunEach(F)
  BY <1>3 DEF LastRunEach
<1>8. ContentInv'
  BY <1>1, <1>7 DEF FigureInv, ContentInv, IsContent
<1>9. EnergyReady'
  BY <1>1, <1>7 DEF FigureInv, EnergyReady
<1>10. QuietInv' /\ DrawnInv'
  BY <1>1, <1>3 DEF FigureInv, QuietInv, DrawnInv
<1>11. ProvenanceInv'
  BY <1>1 DEF FigureInv, ProvenanceInv, StillToRun
<1>12. IdleInv'
  <2>1. ForcedRegenIsCanonical' = ForcedRegenIsCanonical
    BY <1>1 DEF ForcedRegenIsCanonical, Regenerated
  <2>2. RegenIsHonest' = RegenIsHonest
    BY <1>1 DEF RegenIsHonest
  <2>3. AuditIsHonest' = AuditIsHonest
    BY <1>1 DEF AuditIsHonest
  <2>4. CollectIsHonest' = CollectIsHonest
    BY <1>1 DEF CollectIsHonest
  <2>5. ExitCodeIsHonest' = ExitCodeIsHonest
    BY <1>1, <2>2, <2>3, <2>4 DEF ExitCodeIsHonest
  <2>6. EnergyFromThisRun => EnergyFromThisRun'
    BY <1>1, EnergyStays DEF Latest
  <2> QED
    BY <1>1, <2>1, <2>5, <2>6 DEF FigureInv, IdleInv
<1> QED
  BY <1>2, <1>4, <1>5, <1>6, <1>8, <1>9, <1>10, <1>11, <1>12 DEF FigureInv

\* FigureInv is an inductive invariant of the figure pipeline: regen_figures.py, the scripts run by
\* hand, collect_paper_figures.py, edits, failures and interrupts all keep it.
THEOREM FiguresInvariant == Spec => []FigureInv
<1>1. FigureInv /\ [Next]_vars => FigureInv'
  <2> SUFFICES ASSUME FigureInv, [Next]_vars
               PROVE  FigureInv'
    OBVIOUS
  <2>1. ControlInv /\ CourseInv /\ ProvenanceInv /\ IdleInv
    BY FigureInvParts
  <2>2. CASE Next
    <3>1. ControlInv' /\ CourseInv' /\ IdleInv' /\ ProvenanceInv'
      BY <2>1, <2>2, NextKeeps, NextProvenance
    <3> QED
      BY <3>1 DEF FigureInv, CourseInv
  <2>3. CASE UNCHANGED vars
    BY <2>3, SameFigures
  <2> QED
    BY <2>2, <2>3
<1> QED
  BY <1>1, InitFigures, PTL DEF Spec

\* The files under results/ and plots/, the command and the program counter keep their types.
THEOREM FigureTypes == Spec => []FigureTypeOK
<1>1. FigureInv => FigureTypeOK
  BY DEF FigureInv, ControlInv
<1> QED
  BY <1>1, FiguresInvariant, PTL

\* A complete regen_figures.py --force that ends with exit code 0, and during which nobody edits the
\* sources, leaves every figure drawn from exactly what it should be (ForcedRegenIsCanonical),
\* whatever failed or was interrupted before it.
THEOREM ForcedRegenCanonical == Spec => []ForcedRegenIsCanonical
<1>1. FigureInv => ForcedRegenIsCanonical
  BY AlwaysIdleInv DEF FigureInv
<1> QED
  BY <1>1, FiguresInvariant, PTL

\* Exit code 0 of regen_figures.py, of audit_sources_210b.py and of collect_paper_figures.py means that
\* the figures, the evidence and the paper show what these scripts have just read (ExitCodeIsHonest).
THEOREM ExitCodeHonest == Spec => []ExitCodeIsHonest
<1>1. FigureInv => ExitCodeIsHonest
  BY AlwaysIdleInv DEF FigureInv
<1> QED
  BY <1>1, FiguresInvariant, PTL

\* When one regen_figures.py runs both energy scripts, plot_paper_energy.py draws only from the runs
\* that plot_stacked_bar.py of the same command has left (EnergyFromThisRun).
THEOREM EnergyIsFromThisRun == Spec => []EnergyFromThisRun
<1>1. FigureInv => EnergyFromThisRun
  BY AlwaysIdleInv DEF FigureInv
<1> QED
  BY <1>1, FiguresInvariant, PTL

\* check_provenance of plot_paper_energy.py and of plot_kde_awake.py --no-run is right to trust the
\* last line of PROVENANCE.txt as long as no run has failed (ProvenanceIsRight).
THEOREM ProvenanceRight == Spec => ProvenanceIsRight
<1> DEFINE Right == DoCheckProvenance /\ last_writer = Arg /\ faults = 0 =>
                      \A p \in Protocol : results[p].toml = IF Arg = "plot_stacked_bar.py" THEN "per_prop" ELSE "awake"
<1>1. FigureInv => Right
  BY CheckFinds DEF FigureInv
<1>2. FigureInv /\ [Next]_vars => [Right]_vars
  BY <1>1
<1> QED
  BY <1>2, FiguresInvariant, PTL DEF Spec, ProvenanceIsRight

----------------------------------------------------------------------------
(***************************************************************************)
(* regen_figures.py --compare.                                             *)
(***************************************************************************)
\* A fingerprint is a sequence; its items, and the name of a summary.
IsFingerprint(fp) == \E k \in Nat : DOMAIN fp = 1 .. k
Items(fp) == {fp[i] : i \in DOMAIN fp}
SUMMARY == "sweep_summary.csv"

\* The last of the files found with a key is one of them.
LEMMA LastFound ==
    ASSUME NEW fp, IsFingerprint(fp), NEW S, S \subseteq Found(fp), S # {}
    PROVE  Max(S) \in S
<1>1. PICK k \in Nat : DOMAIN fp = 1 .. k
  BY DEF IsFingerprint
<1>2. IsFiniteSet(1 .. k)
  BY FS_Interval
<1>3. S \subseteq 1 .. k /\ IsFiniteSet(S) /\ S \in SUBSET Int
  BY <1>1, <1>2, FS_Subset DEF Found
<1> QED
  BY <1>3, MaxOfFinite

\* Files with one key that are found with one hash are found with it.
LEMMA DictByPath ==
    ASSUME NEW fp, IsFingerprint(fp)
    PROVE  /\ DOMAIN Dict(fp, ByPath) = {ByPath(x) : x \in {y \in Items(fp) : y.hash # NoFile}}
           /\ \A x \in Items(fp) :
                x.hash # NoFile /\ (\A y \in Items(fp) : ByPath(y) = ByPath(x) => y.hash = x.hash)
                => Dict(fp, ByPath)[ByPath(x)] = x.hash
<1> DEFINE D == Dict(fp, ByPath)
           same(k) == {i \in Found(fp) : ByPath(fp[i]) = k}
<1>1. D = [k \in {ByPath(fp[i]) : i \in Found(fp)} |-> fp[Max(same(k))].hash]
  BY DEF Dict
<1>2. DOMAIN D = {ByPath(fp[i]) : i \in Found(fp)} /\ \A k \in DOMAIN D : D[k] = fp[Max(same(k))].hash
  BY <1>1
<1>3. {ByPath(fp[i]) : i \in Found(fp)} = {ByPath(x) : x \in {y \in Items(fp) : y.hash # NoFile}}
  BY DEF Found, Items
<1> HIDE DEF D
<1>4. ASSUME NEW x \in Items(fp), x.hash # NoFile, \A y \in Items(fp) : ByPath(y) = ByPath(x) => y.hash = x.hash
      PROVE  D[ByPath(x)] = x.hash
  <2>1. PICK i \in DOMAIN fp : x = fp[i]
    BY DEF Items
  <2>2. i \in same(ByPath(x)) /\ same(ByPath(x)) \subseteq Found(fp) /\ ByPath(x) \in DOMAIN D
    BY <1>2, <1>4, <2>1 DEF Found
  <2>3. Max(same(ByPath(x))) \in same(ByPath(x))
    BY <2>2, LastFound
  <2>4. PICK m : m = Max(same(ByPath(x)))
    OBVIOUS
  <2>5. m \in DOMAIN fp /\ ByPath(fp[m]) = ByPath(x)
    BY <2>3, <2>4 DEF Found
  <2>6. fp[m].hash = x.hash
    BY <1>4, <2>5 DEF Items
  <2> QED
    BY <1>2, <2>2, <2>4, <2>6
<1> QED
  BY <1>2, <1>3, <1>4 DEF D

\* The same for keys without the directory.
LEMMA DictByName ==
    ASSUME NEW fp, IsFingerprint(fp)
    PROVE  /\ DOMAIN Dict(fp, ByName) = {ByName(x) : x \in {y \in Items(fp) : y.hash # NoFile}}
           /\ \A x \in Items(fp) :
                x.hash # NoFile /\ (\A y \in Items(fp) : ByName(y) = ByName(x) => y.hash = x.hash)
                => Dict(fp, ByName)[ByName(x)] = x.hash
<1> DEFINE D == Dict(fp, ByName)
           same(k) == {i \in Found(fp) : ByName(fp[i]) = k}
<1>1. D = [k \in {ByName(fp[i]) : i \in Found(fp)} |-> fp[Max(same(k))].hash]
  BY DEF Dict
<1>2. DOMAIN D = {ByName(fp[i]) : i \in Found(fp)} /\ \A k \in DOMAIN D : D[k] = fp[Max(same(k))].hash
  BY <1>1
<1>3. {ByName(fp[i]) : i \in Found(fp)} = {ByName(x) : x \in {y \in Items(fp) : y.hash # NoFile}}
  BY DEF Found, Items
<1> HIDE DEF D
<1>4. ASSUME NEW x \in Items(fp), x.hash # NoFile, \A y \in Items(fp) : ByName(y) = ByName(x) => y.hash = x.hash
      PROVE  D[ByName(x)] = x.hash
  <2>1. PICK i \in DOMAIN fp : x = fp[i]
    BY DEF Items
  <2>2. i \in same(ByName(x)) /\ same(ByName(x)) \subseteq Found(fp) /\ ByName(x) \in DOMAIN D
    BY <1>2, <1>4, <2>1 DEF Found
  <2>3. Max(same(ByName(x))) \in same(ByName(x))
    BY <2>2, LastFound
  <2>4. PICK m : m = Max(same(ByName(x)))
    OBVIOUS
  <2>5. m \in DOMAIN fp /\ ByName(fp[m]) = ByName(x)
    BY <2>3, <2>4 DEF Found
  <2>6. fp[m].hash = x.hash
    BY <1>4, <2>5 DEF Items
  <2> QED
    BY <1>2, <2>2, <2>4, <2>6
<1> QED
  BY <1>2, <1>3, <1>4 DEF D

\* The files that are looked for.
FigureItems(dir, f) == {File(dir, a, f[a]) : a \in Figures}
SummaryItems(s) == {File(csv, SUMMARY, {s[csv]} \ {Missing}) : csv \in Csvs}
Layout(f, s) == FigureFiles("plots", f) \o Summaries(s)

\* ALL_FIGURES is a list.
LEMMA AllFiguresIs == Len(AllFigures) \in Nat /\ DOMAIN AllFigures = 1 .. Len(AllFigures)
<1>1. \A f \in Lists : f \in Seq(Artifacts)
  BY ListsAre
<1>2. AllFigures \in Seq(Artifacts)
  BY <1>1 DEF AllFigures, Lists
<1> QED
  BY <1>2

\* What is looked for in a folder of figures,
LEMMA FolderItems ==
    ASSUME NEW dir, NEW f
    PROVE  IsFingerprint(FigureFiles(dir, f)) /\ Items(FigureFiles(dir, f)) = FigureItems(dir, f)
<1>1. DOMAIN FigureFiles(dir, f) = DOMAIN AllFigures
  BY DEF FigureFiles
<1>2. \A i \in DOMAIN AllFigures : FigureFiles(dir, f)[i] = File(dir, AllFigures[i], f[AllFigures[i]])
  BY DEF FigureFiles
<1>3. Figures = {AllFigures[i] : i \in DOMAIN AllFigures}
  BY DEF Figures, ToSet
<1>4. IsFingerprint(FigureFiles(dir, f))
  BY <1>1, AllFiguresIs DEF IsFingerprint
<1>5. FigureItems(dir, f) = {File(dir, AllFigures[i], f[AllFigures[i]]) : i \in DOMAIN AllFigures}
  BY <1>3 DEF FigureItems
<1> DEFINE u == FigureFiles(dir, f)
<1>6. Items(u) = {u[i] : i \in DOMAIN u}
  BY DEF Items
<1> HIDE DEF u
<1>7. Items(u) = {File(dir, AllFigures[i], f[AllFigures[i]]) : i \in DOMAIN AllFigures}
  BY <1>1, <1>2, <1>6 DEF u
<1> QED
  BY <1>4, <1>5, <1>7 DEF u

\* in two places one after the other,
LEMMA JoinedItems ==
    ASSUME NEW X, NEW u \in Seq(X), NEW v \in Seq(X)
    PROVE  IsFingerprint(u \o v) /\ Items(u \o v) = Items(u) \cup Items(v)
<1>1. /\ u \o v \in Seq(X) /\ Len(u \o v) = Len(u) + Len(v)
      /\ \A i \in 1 .. Len(u) : (u \o v)[i] = u[i]
      /\ \A j \in 1 .. Len(v) : (u \o v)[Len(u) + j] = v[j]
  BY Joined
<1>2. Len(u) \in Nat /\ Len(v) \in Nat /\ DOMAIN u = 1 .. Len(u) /\ DOMAIN v = 1 .. Len(v)
  BY LenProperties
<1>3. PICK w \in Seq(X) : w = u \o v
  BY <1>1
<1>4. DOMAIN w = 1 .. Len(u) + Len(v)
  BY <1>1, <1>3, LenProperties
<1>5. ASSUME NEW i \in DOMAIN w
      PROVE  w[i] \in Items(u) \cup Items(v)
  <2>1. CASE i \in 1 .. Len(u)
    BY <1>1, <1>2, <1>3, <2>1 DEF Items
  <2>2. CASE i \notin 1 .. Len(u)
    <3>1. i - Len(u) \in 1 .. Len(v) /\ Len(u) + (i - Len(u)) = i
      BY <1>2, <1>4, <2>2
    <3>2. w[i] = v[i - Len(u)]
      BY <1>1, <1>3, <3>1
    <3> QED
      BY <1>2, <3>1, <3>2 DEF Items
  <2> QED
    BY <2>1, <2>2
<1>6. ASSUME NEW i \in DOMAIN u
      PROVE  u[i] \in Items(w)
  <2>1. i \in DOMAIN w /\ w[i] = u[i]
    BY <1>1, <1>2, <1>3, <1>4
  <2> QED
    BY <2>1 DEF Items
<1>7. ASSUME NEW i \in DOMAIN v
      PROVE  v[i] \in Items(w)
  <2>1. Len(u) + i \in DOMAIN w /\ w[Len(u) + i] = v[i]
    BY <1>1, <1>2, <1>3, <1>4
  <2> QED
    BY <2>1 DEF Items
<1>8. Items(w) \subseteq Items(u) \cup Items(v)
  BY <1>5 DEF Items
<1>9. Items(u) \subseteq Items(w)
  BY <1>6 DEF Items
<1>10. Items(v) \subseteq Items(w)
  BY <1>7 DEF Items
<1>11. IsFingerprint(w)
  BY <1>2, <1>4 DEF IsFingerprint
<1> QED
  BY <1>3, <1>8, <1>9, <1>10, <1>11

\* and in the repository's layout.
LEMMA LayoutItems ==
    ASSUME NEW f, NEW s
    PROVE  IsFingerprint(Layout(f, s)) /\ Items(Layout(f, s)) = FigureItems("plots", f) \cup SummaryItems(s)
<1> DEFINE u == FigureFiles("plots", f)
           v == Summaries(s)
           X == Items(u) \cup Items(v)
           k == Len(AllFigures)
<1>1. k \in Nat /\ DOMAIN u = 1 .. k /\ u = [i \in 1 .. k |-> u[i]]
  BY AllFiguresIs DEF FigureFiles
<1>2. DOMAIN v = 1 .. 2 /\ v = [i \in 1 .. 2 |-> v[i]]
  BY DEF Summaries
<1>3. Items(u) = FigureItems("plots", f)
  BY FolderItems
<1>4. Items(v) = SummaryItems(s)
  <2>1. v[1] = File("scalability", SUMMARY, {s["scalability"]} \ {Missing})
    BY DEF Summaries, SUMMARY
  <2>2. v[2] = File("topology", SUMMARY, {s["topology"]} \ {Missing})
    BY DEF Summaries, SUMMARY
  <2> HIDE DEF v
  <2>3. Items(v) = {v[1], v[2]}
    BY <1>2 DEF Items
  <2>4. SummaryItems(s) = {File("scalability", SUMMARY, {s["scalability"]} \ {Missing}),
                           File("topology", SUMMARY, {s["topology"]} \ {Missing})}
    BY DEF SummaryItems, Csvs
  <2> QED
    BY <2>1, <2>2, <2>3, <2>4
<1> HIDE DEF u, v, k
<1>5. u \in Seq(X) /\ v \in Seq(X) /\ Len(u) = k /\ Len(v) = 2
  <2>1. (\A i \in 1 .. k : u[i] \in X) /\ \A i \in 1 .. 2 : v[i] \in X
    BY <1>1, <1>2 DEF Items
  <2> HIDE DEF X
  <2>2. u \in [1 .. k -> X]
    BY <1>1, <2>1
  <2>3. v \in [1 .. 2 -> X]
    BY <1>2, <2>1
  <2>4. u \in Seq(X) /\ Len(u) = k
    BY <1>1, <2>2
  <2>5. v \in Seq(X) /\ Len(v) = 2
    BY <1>2, <2>3
  <2> QED
    BY <2>4, <2>5
<1> HIDE DEF X
<1>6. IsFingerprint(u \o v) /\ Items(u \o v) = Items(u) \cup Items(v)
  <2>1. u \in Seq(X) /\ v \in Seq(X)
    BY <1>5
  <2> QED
    BY <2>1, JoinedItems
<1>11. Layout(f, s) = u \o v
  BY DEF Layout, u, v
<1> QED
  BY <1>3, <1>4, <1>6, <1>11

\* The keys of a file; no figure is named like a summary, no directory of summaries like that of
\* the figures.
LEMMA FileKeys ==
    /\ \A d, a, h : /\ ByPath(File(d, a, h)) = <<d, a>> /\ ByName(File(d, a, h)) = a /\ File(d, a, h).hash = h
    /\ \A a \in Figures : a # SUMMARY
    /\ \A csv \in Csvs : csv # "plots"
<1>1. \A a \in Figures : a # SUMMARY
  BY ArtifactsAre DEF SUMMARY, ScalabilityArtifacts, TopologyArtifacts, PaperArtifacts, KdeArtifacts
<1> QED
  BY <1>1 DEF ByPath, ByName, File, Csvs

\* A directory and a name stand for one hash; so does the name of a figure.
AreDictsOf(P, N, f, s) ==
    /\ DOMAIN P = {<<"plots", a>> : a \in {b \in Figures : f[b] # NoFile}}
                    \cup {<<csv, SUMMARY>> : csv \in {d \in Csvs : s[d] # Missing}}
    /\ \A a \in Figures : f[a] # NoFile => P[<<"plots", a>>] = f[a]
    /\ \A csv \in Csvs : s[csv] # Missing => P[<<csv, SUMMARY>>] = {s[csv]}
    /\ \A a \in Figures : a \in DOMAIN N <=> f[a] # NoFile
    /\ \A a \in Figures : f[a] # NoFile => N[a] = f[a]
\* The two dictionaries of compare() for the repository's layout.
LEMMA LayoutDicts ==
    ASSUME NEW f, NEW s
    PROVE  AreDictsOf(Dict(Layout(f, s), ByPath), Dict(Layout(f, s), ByName), f, s)
<1>1. IsFingerprint(Layout(f, s)) /\ Items(Layout(f, s)) = FigureItems("plots", f) \cup SummaryItems(s)
  BY LayoutItems
<1>2. PICK fp : fp = Layout(f, s)
  OBVIOUS
<1> DEFINE P == Dict(fp, ByPath)
           N == Dict(fp, ByName)
           I == Items(fp)
<1>3. I = FigureItems("plots", f) \cup SummaryItems(s)
  BY <1>1, <1>2
<1>4. \A x \in I : \/ \E a \in Figures : x = File("plots", a, f[a])
                   \/ \E csv \in Csvs : x = File(csv, SUMMARY, {s[csv]} \ {Missing})
  BY <1>3 DEF FigureItems, SummaryItems
<1>5. /\ \A a \in Figures : File("plots", a, f[a]) \in I
      /\ \A csv \in Csvs : File(csv, SUMMARY, {s[csv]} \ {Missing}) \in I
  BY <1>3 DEF FigureItems, SummaryItems
<1>6. \A csv \in Csvs : {s[csv]} \ {Missing} # NoFile <=> s[csv] # Missing
  BY DEF NoFile
<1>7. \A csv \in Csvs : s[csv] # Missing => {s[csv]} \ {Missing} = {s[csv]}
  OBVIOUS
<1>8. /\ DOMAIN P = {ByPath(x) : x \in {y \in I : y.hash # NoFile}}
      /\ \A x \in I : x.hash # NoFile /\ (\A y \in I : ByPath(y) = ByPath(x) => y.hash = x.hash)
                      => P[ByPath(x)] = x.hash
  BY <1>1, <1>2, DictByPath
<1>9. /\ DOMAIN N = {ByName(x) : x \in {y \in I : y.hash # NoFile}}
      /\ \A x \in I : x.hash # NoFile /\ (\A y \in I : ByName(y) = ByName(x) => y.hash = x.hash)
                      => N[ByName(x)] = x.hash
  BY <1>1, <1>2, DictByName
<1> HIDE DEF P, N, I
<1>10. /\ \A d, a, h : /\ ByPath(File(d, a, h)) = <<d, a>> /\ ByName(File(d, a, h)) = a
                       /\ File(d, a, h).hash = h
       /\ \A a \in Figures : a # SUMMARY
       /\ \A csv \in Csvs : csv # "plots"
  BY FileKeys
<1>11. DOMAIN P \subseteq {<<"plots", a>> : a \in {b \in Figures : f[b] # NoFile}}
                            \cup {<<csv, SUMMARY>> : csv \in {d \in Csvs : s[d] # Missing}}
  <2> SUFFICES ASSUME NEW x \in I, x.hash # NoFile
               PROVE  ByPath(x) \in {<<"plots", a>> : a \in {b \in Figures : f[b] # NoFile}}
                                      \cup {<<csv, SUMMARY>> : csv \in {d \in Csvs : s[d] # Missing}}
    BY <1>8
  <2>1. CASE \E a \in Figures : x = File("plots", a, f[a])
    <3>1. PICK a \in Figures : x = File("plots", a, f[a])
      BY <2>1
    <3>2. ByPath(x) = <<"plots", a>> /\ f[a] # NoFile
      BY <1>10, <3>1
    <3> QED
      BY <3>2
  <2>2. CASE \E csv \in Csvs : x = File(csv, SUMMARY, {s[csv]} \ {Missing})
    <3>1. PICK csv \in Csvs : x = File(csv, SUMMARY, {s[csv]} \ {Missing})
      BY <2>2
    <3>2. ByPath(x) = <<csv, SUMMARY>> /\ s[csv] # Missing
      BY <1>6, <1>10, <3>1
    <3> QED
      BY <3>2
  <2> QED
    BY <1>4, <2>1, <2>2
<1>12. ASSUME NEW a \in Figures, f[a] # NoFile
       PROVE  <<"plots", a>> \in DOMAIN P /\ P[<<"plots", a>>] = f[a] /\ a \in DOMAIN N /\ N[a] = f[a]
  <2>1. PICK x \in I : x = File("plots", a, f[a])
    BY <1>5
  <2>2. ByPath(x) = <<"plots", a>> /\ ByName(x) = a /\ x.hash = f[a]
    BY <1>10, <2>1
  <2>3. ASSUME NEW y \in I, ByPath(y) = ByPath(x) \/ ByName(y) = ByName(x)
        PROVE  y.hash = x.hash
    <3>1. CASE \E b \in Figures : y = File("plots", b, f[b])
      <4>1. PICK b \in Figures : y = File("plots", b, f[b])
        BY <3>1
      <4>2. ByPath(y) = <<"plots", b>> /\ ByName(y) = b /\ y.hash = f[b]
        BY <1>10, <4>1
      <4>3. b = a
        BY <2>2, <2>3, <4>2
      <4> QED
        BY <2>2, <4>2, <4>3
    <3>2. CASE \E csv \in Csvs : y = File(csv, SUMMARY, {s[csv]} \ {Missing})
      <4>1. PICK csv \in Csvs : y = File(csv, SUMMARY, {s[csv]} \ {Missing})
        BY <3>2
      <4>2. ByPath(y) = <<csv, SUMMARY>> /\ ByName(y) = SUMMARY
        BY <1>10, <4>1
      <4>3. a # SUMMARY
        BY <1>10
      <4> QED
        BY <2>2, <2>3, <4>2, <4>3
    <3> QED
      BY <1>4, <3>1, <3>2
  <2>4. P[ByPath(x)] = x.hash /\ N[ByName(x)] = x.hash
    BY <1>8, <1>9, <1>12, <2>2, <2>3
  <2>5. ByPath(x) \in DOMAIN P /\ ByName(x) \in DOMAIN N
    BY <1>8, <1>9, <1>12, <2>2
  <2> QED
    BY <2>2, <2>4, <2>5
<1>13. ASSUME NEW csv \in Csvs, s[csv] # Missing
       PROVE  <<csv, SUMMARY>> \in DOMAIN P /\ P[<<csv, SUMMARY>>] = {s[csv]}
  <2>1. PICK x \in I : x = File(csv, SUMMARY, {s[csv]} \ {Missing})
    BY <1>5
  <2>2. ByPath(x) = <<csv, SUMMARY>> /\ x.hash = {s[csv]} \ {Missing} /\ x.hash # NoFile /\ x.hash = {s[csv]}
    BY <1>6, <1>7, <1>10, <1>13, <2>1
  <2>3. ASSUME NEW y \in I, ByPath(y) = ByPath(x)
        PROVE  y.hash = x.hash
    <3>1. CASE \E b \in Figures : y = File("plots", b, f[b])
      <4>1. PICK b \in Figures : y = File("plots", b, f[b])
        BY <3>1
      <4>2. ByPath(y) = <<"plots", b>>
        BY <1>10, <4>1
      <4>3. csv # "plots"
        BY <1>10
      <4> QED
        BY <2>2, <2>3, <4>2, <4>3
    <3>2. CASE \E c \in Csvs : y = File(c, SUMMARY, {s[c]} \ {Missing})
      <4>1. PICK c \in Csvs : y = File(c, SUMMARY, {s[c]} \ {Missing})
        BY <3>2
      <4>2. ByPath(y) = <<c, SUMMARY>>
        BY <1>10, <4>1
      <4>3. c = csv
        BY <2>2, <2>3, <4>2
      <4> QED
        BY <2>1, <4>1, <4>3
    <3> QED
      BY <1>4, <3>1, <3>2
  <2>4. P[ByPath(x)] = x.hash /\ ByPath(x) \in DOMAIN P
    BY <1>8, <2>2, <2>3
  <2> QED
    BY <2>2, <2>4
<1>14. ASSUME NEW a \in Figures, a \in DOMAIN N
       PROVE  f[a] # NoFile
  <2>1. PICK x \in I : x.hash # NoFile /\ ByName(x) = a
    BY <1>9, <1>14
  <2>2. PICK b \in Figures : x = File("plots", b, f[b])
    <3>1. ASSUME NEW csv \in Csvs, x = File(csv, SUMMARY, {s[csv]} \ {Missing})
          PROVE  FALSE
      <4>1. ByName(x) = SUMMARY
        BY <1>10, <3>1
      <4> QED
        BY <1>10, <2>1, <4>1
    <3> QED
      BY <1>4, <3>1
  <2> QED
    BY <1>10, <2>1, <2>2
<1>15. {<<"plots", a>> : a \in {b \in Figures : f[b] # NoFile}}
         \cup {<<csv, SUMMARY>> : csv \in {d \in Csvs : s[d] # Missing}} \subseteq DOMAIN P
  BY <1>12, <1>13
<1>16. DOMAIN P = {<<"plots", a>> : a \in {b \in Figures : f[b] # NoFile}}
                    \cup {<<csv, SUMMARY>> : csv \in {d \in Csvs : s[d] # Missing}}
  BY <1>11, <1>15
<1>17. AreDictsOf(P, N, f, s)
  BY <1>12, <1>13, <1>14, <1>16 DEF AreDictsOf
<1> QED
  BY <1>2, <1>17 DEF P, N

\* And for a folder of figures.
LEMMA FolderDicts ==
    ASSUME NEW f, \A a \in Figures : f[a] # NoFile
    PROVE  /\ DOMAIN Dict(FigureFiles("", f), ByPath) = {<<"", a>> : a \in Figures}
           /\ DOMAIN Dict(FigureFiles("", f), ByName) = Figures
           /\ \A a \in Figures : Dict(FigureFiles("", f), ByName)[a] = f[a]
<1>1. PICK fp : fp = FigureFiles("", f)
  OBVIOUS
<1> DEFINE P == Dict(fp, ByPath)
           N == Dict(fp, ByName)
           I == Items(fp)
<1>2. IsFingerprint(fp) /\ I = FigureItems("", f)
  BY <1>1, FolderItems
<1>3. (\A x \in I : \E a \in Figures : x = File("", a, f[a])) /\ \A a \in Figures : File("", a, f[a]) \in I
  BY <1>2 DEF FigureItems
<1>4. DOMAIN P = {ByPath(x) : x \in {y \in I : y.hash # NoFile}}
  BY <1>2, DictByPath
<1>5. /\ DOMAIN N = {ByName(x) : x \in {y \in I : y.hash # NoFile}}
      /\ \A x \in I : x.hash # NoFile /\ (\A y \in I : ByName(y) = ByName(x) => y.hash = x.hash)
                      => N[ByName(x)] = x.hash
  BY <1>2, DictByName
<1> HIDE DEF P, N, I
<1>6. \A d, a, h : ByPath(File(d, a, h)) = <<d, a>> /\ ByName(File(d, a, h)) = a /\ File(d, a, h).hash = h
  BY FileKeys
<1> DEFINE Stands(x, a) == ByPath(x) = <<"", a>> /\ ByName(x) = a /\ x.hash = f[a] /\ x.hash # NoFile
<1>12. ASSUME NEW a \in Figures
       PROVE  Stands(File("", a, f[a]), a)
  <2>1. f[a] # NoFile
    OBVIOUS
  <2>2. /\ ByPath(File("", a, f[a])) = <<"", a>> /\ ByName(File("", a, f[a])) = a
        /\ File("", a, f[a]).hash = f[a]
    BY <1>6
  <2> QED
    BY <2>1, <2>2
<1> HIDE DEF Stands
<1>13. (\A x \in I : \E a \in Figures : Stands(x, a)) /\ \A a \in Figures : \E x \in I : Stands(x, a)
  BY <1>3, <1>12
<1>7. \A x \in I : \E a \in Figures : ByPath(x) = <<"", a>> /\ ByName(x) = a /\ x.hash = f[a] /\ x.hash # NoFile
  BY <1>13 DEF Stands
<1>8. \A a \in Figures : \E x \in I : ByPath(x) = <<"", a>> /\ ByName(x) = a /\ x.hash = f[a] /\ x.hash # NoFile
  BY <1>13 DEF Stands
<1>9. DOMAIN P = {<<"", a>> : a \in Figures}
  <2>1. DOMAIN P \subseteq {<<"", a>> : a \in Figures}
    BY <1>4, <1>7
  <2>2. ASSUME NEW a \in Figures
        PROVE  <<"", a>> \in DOMAIN P
    BY <1>4, <1>8
  <2> QED
    BY <2>1, <2>2
<1>10. DOMAIN N = Figures
  <2>1. DOMAIN N \subseteq Figures
    BY <1>5, <1>7
  <2>2. ASSUME NEW a \in Figures
        PROVE  a \in DOMAIN N
    BY <1>5, <1>8
  <2> QED
    BY <2>1, <2>2
<1>11. ASSUME NEW a \in Figures
       PROVE  N[a] = f[a]
  <2>1. PICK x \in I : ByName(x) = a /\ x.hash = f[a] /\ x.hash # NoFile
    BY <1>8
  <2>2. \A y \in I : ByName(y) = ByName(x) => y.hash = x.hash
    BY <1>7, <2>1
  <2> QED
    BY <1>5, <2>1, <2>2
<1> QED
  BY <1>1, <1>9, <1>10, <1>11 DEF P, N

\* compare() counts no difference exactly when every saved file is there and the same.
LEMMA VerdictIs ==
    \A c, d : Verdict(c, d) = 0 <=> \A k \in DOMAIN d : k \in DOMAIN c /\ c[k] = d[k]
BY DEF Verdict

\* A saved set in the layout of the repository.
Whole(g, t) == (\A a \in Figures : g[a] # NoFile) /\ \A csv \in Csvs : t[csv] # Missing
Alike(f, s, g, t) == (\A a \in Figures : f[a] = g[a]) /\ \A csv \in Csvs : s[csv] = t[csv]
\* --compare with a saved set in the repository's layout.
LEMMA CompareWithLayout ==
    ASSUME NEW f, NEW s, NEW g, NEW t, Whole(g, t)
    PROVE  CompareCode(Layout(f, s), Layout(g, t)) = 0 <=> Alike(f, s, g, t)
<1>0. (\A a \in Figures : g[a] # NoFile) /\ \A csv \in Csvs : t[csv] # Missing
  BY DEF Whole
<1>1. PICK c, d : c = Layout(f, s) /\ d = Layout(g, t)
  OBVIOUS
<1> DEFINE C == Dict(c, ByPath)
           D == Dict(d, ByPath)
           M == Dict(c, ByName)
           N == Dict(d, ByName)
<1>20. AreDictsOf(C, M, f, s) /\ AreDictsOf(D, N, g, t)
  BY <1>1, LayoutDicts
<1>2. /\ DOMAIN C = {<<"plots", a>> : a \in {b \in Figures : f[b] # NoFile}}
                      \cup {<<csv, SUMMARY>> : csv \in {e \in Csvs : s[e] # Missing}}
      /\ \A a \in Figures : f[a] # NoFile => C[<<"plots", a>>] = f[a]
      /\ \A csv \in Csvs : s[csv] # Missing => C[<<csv, SUMMARY>>] = {s[csv]}
  BY <1>20 DEF AreDictsOf
<1>3. /\ DOMAIN D = {<<"plots", a>> : a \in {b \in Figures : g[b] # NoFile}}
                      \cup {<<csv, SUMMARY>> : csv \in {e \in Csvs : t[e] # Missing}}
      /\ \A a \in Figures : g[a] # NoFile => D[<<"plots", a>>] = g[a]
      /\ \A csv \in Csvs : t[csv] # Missing => D[<<csv, SUMMARY>>] = {t[csv]}
  BY <1>20 DEF AreDictsOf
<1>4. CompareCode(c, d) = IF DOMAIN C \cap DOMAIN D = {} /\ DOMAIN M \cap DOMAIN N # {} THEN Verdict(M, N) ELSE Verdict(C, D)
  BY DEF CompareCode
<1>5. DOMAIN M = {ByName(x) : x \in {y \in Items(c) : y.hash # NoFile}}
      /\ DOMAIN C = {ByPath(x) : x \in {y \in Items(c) : y.hash # NoFile}}
  BY <1>1, LayoutItems, DictByPath, DictByName
<1> HIDE DEF C, D, M, N
<1>6. DOMAIN C \subseteq DOMAIN D
  BY <1>0, <1>2, <1>3
<1>7. CompareCode(c, d) = Verdict(C, D)
  <2>1. DOMAIN C = {} => DOMAIN M = {}
    BY <1>5
  <2> QED
    BY <1>4, <1>6, <2>1
<1>8. Verdict(C, D) = 0 <=> \A k \in DOMAIN D : k \in DOMAIN C /\ C[k] = D[k]
  BY VerdictIs
<1>9. \A csv \in Csvs : csv # "plots"
  BY FileKeys
<1>10. \A a \in Figures : <<"plots", a>> \in DOMAIN C <=> f[a] # NoFile
  BY <1>2, <1>9
<1>11. \A csv \in Csvs : <<csv, SUMMARY>> \in DOMAIN C <=> s[csv] # Missing
  BY <1>2, <1>9
<1>12. ASSUME \A a \in Figures : f[a] = g[a], \A csv \in Csvs : s[csv] = t[csv]
       PROVE  \A k \in DOMAIN D : k \in DOMAIN C /\ C[k] = D[k]
  <2>1. \A a \in Figures : <<"plots", a>> \in DOMAIN C /\ C[<<"plots", a>>] = D[<<"plots", a>>]
    BY <1>0, <1>2, <1>3, <1>10, <1>12
  <2>2. \A csv \in Csvs : <<csv, SUMMARY>> \in DOMAIN C /\ C[<<csv, SUMMARY>>] = D[<<csv, SUMMARY>>]
    BY <1>0, <1>2, <1>3, <1>11, <1>12
  <2> QED
    BY <1>3, <2>1, <2>2
<1>13. ASSUME \A k \in DOMAIN D : k \in DOMAIN C /\ C[k] = D[k]
       PROVE  (\A a \in Figures : f[a] = g[a]) /\ \A csv \in Csvs : s[csv] = t[csv]
  <2>1. ASSUME NEW a \in Figures
        PROVE  f[a] = g[a]
    <3>1. <<"plots", a>> \in DOMAIN D
      BY <1>0, <1>3
    <3>2. <<"plots", a>> \in DOMAIN C /\ C[<<"plots", a>>] = D[<<"plots", a>>]
      BY <1>13, <3>1
    <3> QED
      BY <1>0, <1>2, <1>3, <1>10, <3>2
  <2>2. ASSUME NEW csv \in Csvs
        PROVE  s[csv] = t[csv]
    <3>1. <<csv, SUMMARY>> \in DOMAIN D
      BY <1>0, <1>3
    <3>2. <<csv, SUMMARY>> \in DOMAIN C /\ C[<<csv, SUMMARY>>] = D[<<csv, SUMMARY>>]
      BY <1>13, <3>1
    <3>3. {s[csv]} = {t[csv]}
      BY <1>0, <1>2, <1>3, <1>11, <3>2
    <3> QED
      BY <3>3
  <2> QED
    BY <2>1, <2>2
<1> QED
  BY <1>1, <1>7, <1>8, <1>12, <1>13 DEF Alike

\* A folder of figures.
LEMMA CompareWithFolder ==
    ASSUME NEW f, NEW s, NEW g, \A a \in Figures : g[a] # NoFile
    PROVE  CompareCode(Layout(f, s), FigureFiles("", g)) = 0 <=> \A a \in Figures : f[a] = g[a]
<1>1. PICK c, d : c = Layout(f, s) /\ d = FigureFiles("", g)
  OBVIOUS
<1> DEFINE C == Dict(c, ByPath)
           D == Dict(d, ByPath)
           M == Dict(c, ByName)
           N == Dict(d, ByName)
<1>20. AreDictsOf(C, M, f, s)
  BY <1>1, LayoutDicts
<1>2. /\ DOMAIN C = {<<"plots", a>> : a \in {b \in Figures : f[b] # NoFile}}
                      \cup {<<csv, SUMMARY>> : csv \in {e \in Csvs : s[e] # Missing}}
      /\ \A a \in Figures : a \in DOMAIN M <=> f[a] # NoFile
      /\ \A a \in Figures : f[a] # NoFile => M[a] = f[a]
  BY <1>20 DEF AreDictsOf
<1>3. DOMAIN D = {<<"", a>> : a \in Figures} /\ DOMAIN N = Figures /\ \A a \in Figures : N[a] = g[a]
  BY <1>1, FolderDicts
<1>4. CompareCode(c, d) = IF DOMAIN C \cap DOMAIN D = {} /\ DOMAIN M \cap DOMAIN N # {} THEN Verdict(M, N) ELSE Verdict(C, D)
  BY DEF CompareCode
<1> HIDE DEF C, D, M, N
<1>5. DOMAIN C \cap DOMAIN D = {}
  <2>1. ASSUME NEW k, k \in DOMAIN C
        PROVE  k[1] # ""
    <3>1. (\E a \in Figures : k = <<"plots", a>>) \/ \E csv \in Csvs : k = <<csv, SUMMARY>>
      BY <1>2, <2>1
    <3>2. ASSUME NEW a, k = <<"plots", a>>
          PROVE  k[1] # ""
      BY <3>2
    <3>3. ASSUME NEW csv \in Csvs, k = <<csv, SUMMARY>>
          PROVE  k[1] # ""
      BY <3>3 DEF Csvs
    <3> QED
      BY <3>1, <3>2, <3>3
  <2>2. ASSUME NEW k, k \in DOMAIN D
        PROVE  k[1] = ""
    <3>1. PICK a \in Figures : k = <<"", a>>
      BY <1>3, <2>2
    <3> QED
      BY <3>1
  <2> QED
    BY <2>1, <2>2
<1>6. PICK a : a \in Figures
  BY ArtifactsAre DEF TopologyArtifacts
<1>7. /\ Verdict(M, N) = 0 <=> \A k \in DOMAIN N : k \in DOMAIN M /\ M[k] = N[k]
      /\ Verdict(C, D) = 0 <=> \A k \in DOMAIN D : k \in DOMAIN C /\ C[k] = D[k]
  BY VerdictIs
<1>8. Verdict(C, D) # 0
  BY <1>3, <1>5, <1>6, <1>7
<1>9. Verdict(M, N) = 0 <=> \A b \in Figures : f[b] = g[b]
  BY <1>2, <1>3, <1>7
<1>10. (\A b \in Figures : f[b] = g[b]) => DOMAIN M \cap DOMAIN N # {}
  BY <1>2, <1>3, <1>6
<1> QED
  BY <1>1, <1>4, <1>5, <1>8, <1>9, <1>10

\* A figure is always drawn from something.
LEMMA SomethingIsExpected == \A a \in Figures : \A r : ExpectedFrom(a, r) # NoFile
<1> SUFFICES ASSUME NEW a \in Figures, NEW r
             PROVE  ExpectedFrom(a, r) # {}
  BY DEF NoFile
<1>1. PICK p : p \in Protocol
  BY ConfigFacts
<1>2. \A toml, s : Output(toml, p, s, r, TRUE) \in Runs(toml, s, r)
  BY <1>1 DEF Runs
<1>3. Output("per_prop", p, LastSeed, r, TRUE) \in RunsAt("per_prop", ToSet(Seeds), r)
  BY <1>1, ConfigFacts, RunsAre
<1>4. a \in ScalabilityArtifacts \/ a \in TopologyArtifacts \/ a \in ProgressArtifacts \/ a \in StackedArtifacts
      \/ a \in PaperArtifacts \/ a \in KdeArtifacts
  BY ArtifactsAre DEF Artifacts
<1>5. /\ Runs("progress", RetiredSeed, r) # {} /\ Runs("per_prop", LastSeed, r) # {} /\ Runs("awake", RetiredSeed, r) # {}
      /\ RunsAt("per_prop", ToSet(Seeds), r) # {}
  BY <1>2, <1>3
<1> QED
  BY <1>4, <1>5, ExpectedIs

\* --compare with each of the saved sets that CompareIsExact is about.
LEMMA CompareExact ==
    ASSUME NEW r \in 0 .. MaxEdits
    PROVE  LET same_figures == \A a \in Figures : artifacts[a] = Expected[r][a]
               same_sweeps == \A c \in Csvs : sweeps[c] = SweepOutput(c, r, TRUE)
           IN /\ CompareCode(Disk, SavedRepo(r)) = 0 <=> same_figures /\ same_sweeps
              /\ CompareCode(Disk, SavedFolder(r)) = 0 <=> same_figures
<1> DEFINE g == Expected[r]
           t == [c \in Csvs |-> SweepOutput(c, r, TRUE)]
<1>1. \A a \in Figures : g[a] # NoFile
  <2>1. \A a \in Figures : g[a] = ExpectedFrom(a, r)
    BY DEF Expected
  <2> QED
    BY <2>1, SomethingIsExpected
<1>2. \A c \in Csvs : t[c] = SweepOutput(c, r, TRUE) /\ t[c] # Missing
  <2>1. \A c : SweepOutput(c, r, TRUE).whole = TRUE /\ Missing.whole = FALSE
    BY DEF SweepOutput, Missing, Output
  <2>2. \A c : SweepOutput(c, r, TRUE) # Missing
    BY <2>1
  <2> QED
    BY <2>2
<1>3. /\ Disk = Layout(artifacts, sweeps) /\ SavedRepo(r) = Layout(g, t) /\ SavedFolder(r) = FigureFiles("", g)
  BY DEF Disk, Layout, SavedRepo, SavedFolder
<1> HIDE DEF g, t
<1>7. Whole(g, t)
  BY <1>1, <1>2 DEF Whole
<1>4. CompareCode(Layout(artifacts, sweeps), Layout(g, t)) = 0 <=> Alike(artifacts, sweeps, g, t)
  BY <1>7, CompareWithLayout
<1>5. CompareCode(Layout(artifacts, sweeps), FigureFiles("", g)) = 0 <=> \A a \in Figures : artifacts[a] = g[a]
  BY <1>1, CompareWithFolder
<1>6. (\A csv \in Csvs : sweeps[csv] = t[csv]) <=> \A c \in Csvs : sweeps[c] = SweepOutput(c, r, TRUE)
  BY <1>2
<1>8. Alike(artifacts, sweeps, g, t)
        <=> (\A a \in Figures : artifacts[a] = g[a]) /\ \A c \in Csvs : sweeps[c] = SweepOutput(c, r, TRUE)
  BY <1>6 DEF Alike
<1> QED
  BY <1>3, <1>4, <1>5, <1>8 DEF g

\* regen_figures.py --compare ends with 0 exactly when the disk shows what was saved, in whichever of
\* the two layouts it was saved (CompareIsExact).
THEOREM CompareIsExactAlways == Spec => CompareIsExact
<1> DEFINE Exact(r) ==
      LET same_figures == \A a \in Figures : artifacts[a] = Expected[r][a]
          same_sweeps == \A c \in Csvs : sweeps[c] = SweepOutput(c, r, TRUE)
      IN /\ CompareCode(Disk, SavedRepo(r)) = 0 <=> same_figures /\ same_sweeps
         /\ CompareCode(Disk, SavedFolder(r)) = 0 <=> same_figures
           Right == cmd.kind = "regen" /\ cmd.selected = {} /\ Finish => \A r \in 0 .. MaxEdits : Exact(r)
<1>1. Right
  BY CompareExact
<1>2. [Next]_vars => [Right]_vars
  BY <1>1
<1> QED
  BY <1>2, PTL DEF Spec, CompareIsExact
=============================================================================
