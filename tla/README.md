# A TLA+ model of ctsim

ctsim simulates consensus over *concurrent transmissions* in multi-hop radio
networks: Paxos, two-phase commit (2PC) and totally ordered multicast (TOM),
each on two physical layers, CI (constructive interference: everybody floods
one identical packet) and CE (capture effect: nodes merge what they receive and
flood again). These modules model the parts that decide what the protocols do:
the CI flood, the round-robin loop above it and the three CI protocols; the CE
round, the loop above it and the three CE protocols; and around the simulator
the scripts that turn its runs into the figures and the numbers of the paper.
Modules are checked with TLC on small instances. Every safety property and every
refinement of the simulator's own modules (Paxos, 2PC and TOM on CI, the CI flood,
the three protocols on CE) is also proved with TLAPS, for every network, every
pattern of loss and any number of proposals; and so is what the scripts around it
promise of figures, energies, reports and the patched manuscript.

Paths of Rust files below are relative to `src/src/`, those of scripts to `src/`.

## 1. Inventory

| Component | State it keeps | Operations | Talks to |
|---|---|---|---|
| **Loop** `sim/pipeline.rs` | `current_slot`, `round_num`, the nodes | `run_ci_pipeline`: prepare, flood, process, stop tests | calls a `CiProtocol` and the CI engine |
| **CI engine** `phy/ci.rs`, `node.rs` | per node: `state`, `flood_remaining`, `payload`, slot counters | `flood_identical_round` | reads the graph; charges and samples slots (`metrics.rs`) |
| **Graph** `network.rs` | adjacency | `neighbors`, `diameter`, builders | read by everything |
| **Paxos on CI** `protocol/paxos.rs`, `sim/paxos_pipeline.rs` | per node: log, pending proposals with vote bitmaps, `last_accepted`, `highest_seen_term`; globally: proposal starts, committed terms, the prepared answer | `prepare_round`, `process_round`, `commit_up_to`, `merge_votes_up_to`, `detect_gap` | metrics |
| **2PC on CI** `protocol/two_pc_pipeline.rs`, `sim/two_pc_pipeline.rs` | per node: log of decisions, pending transactions with votes, abort flag and start round; globally: starts, recorded, the prepared answer | the same shape, `finalize_tx`, bounded voting | metrics |
| **TOM on CI** `protocol/tom.rs`, `sim/tom_pipeline.rs` | per node: store, `highest_seen`, `last_delivered`, delivered sequence; globally: starts, delivered terms, the pending answer | the same shape, `try_deliver_in_order`, repair rounds | metrics |
| **CE engine** `phy/ce.rs` | per node: `state`, `last_progress_slot`, payload | `run_ce_round` | `Protocol` trait |
| **CE simulator** `sim.rs` | `current_slot`, progress | one CE round per proposal | CE engine, metrics |
| **CE protocols** `protocol/*_ce.rs` | the term; everything else is in the packets | `merge`, goals, outcome | CE engine |
| **Pure flood** `sim/pure_flood.rs` | coverage counts | one flood after the other | CI engine |
| **Figure scripts** `plots/*/plot_*.py`, `plots/_common.py` | the CSVs under `results/`, the sweep summaries, `PROVENANCE.txt`, their figures | run the simulator, read back, draw | share all files with each other |
| **Figure tools** `tools/*.py` | `MANIFEST.sha256`, `paper/figures`, the evidence files | `regen_figures.py` runs the scripts, fingerprints and compares; `collect_paper_figures.py` copies; `audit_sources_210b.py` recomputes | run the scripts |
| **Energy of a decision** `addition7_collect.py`, `plots/energy/*.py` | – | three computations of the amortised energy | read the two CSVs of a run |
| **Seed collection** `docs/validation/addition7/scripts/addition7_{collect,reconcile}.py` | `runs.csv`, `decisions.csv` | run all arms and seeds, resume, `--force`; compare with the published sweep | run the simulator |
| **Patch specification** `make_patch_spec_v3.py` | the entries, `patch_spec.md`, the patched manuscript | splice, self-check, write | reads the manuscript |
| **Specification audit** `check_patch_spec.py` | the report | recompute every quantity, gate every printed decimal | reads the specification, `runs.csv`, `decisions.csv`, the sweeps and ledgers |
| **Configuration, runner, binaries, statistics** | – | parsing, dispatch, CSV, means and intervals | – |

The simulator is one thread. What makes it hard is the radio it simulates: every
reception may be lost, so nodes hold different parts of the history, learn
things late or never, and repair by negative acknowledgements (NACK) and by
data piggybacked on later floods. The dangerous behaviours are therefore
patterns of loss over several rounds, state that is prepared in one round and
used in a later one, the two or three places in which an event may be noticed
(and must be reported exactly once), the limits that end a run, and the slot
accounting of a round that ends early. The scripts keep nothing in memory between
commands: what makes them hard is the disk they share, on which a step that
failed, was interrupted or ended quietly leaves files of another command, seed,
configuration or revision for the next one to take as its own. `PROJECT.json`
lists these hazards, each at its line.

What makes each component correct, in short:

* CI engine: a round reaches a set of nodes connected around the initiator and
  all of them if nothing is lost; a node counts as participant exactly if it
  has this round's bytes; each slot is charged and sampled once.
* Paxos: one value per term; what a node has is never forgotten; a vote is
  evidence of overhearing; the committed terms are a prefix, each reported
  once; the drain finishes.
* 2PC: a decision is final; all copies of a transaction share one window; the
  proposer decides and reports first; a NO that was seen wins.
* TOM: all applications see prefixes of one sequence; holes are seen and asked
  for; every message is reported once; the repair rounds serve everyone.
* CE: a bit in a merged packet is evidence about the node it names; 2PC is an
  atomic commitment; a node sleeps only when nobody needs it; a reported outcome
  is what the nodes hold; a slot belongs to one round.
* Figures: exit code 0 means that what was asked for was drawn, by this command
  and from its own runs; a forced regeneration depends on the sources only.
* Energy: the three computations agree, and the energies of all proposals add up to
  the awake node-slots inside their windows.
* Collection: what a clean reconciliation accepts has lost or doubled nothing,
  wherever the collector was killed and resumed.
* Specification and audit: what passes the self-check replaces exactly what was
  meant, and a report means that every printed decimal is a recomputed quantity.

## 2. Plan

1. **Core** (done): `CiPipeline`, `PaxosNode`, `PaxosPipeline`; invariants,
   liveness, and their theorems.
2. **CI engine** (done): `CiFlood`, which implements the abstraction that the
   protocols use.
3. **2PC and TOM on CI** (done): the same loop; `TotalOrder` as the abstract
   specification of TOM.
4. **CE** (done): `CeProtocols`, the three protocols as functions on packets;
   `CeSimulator`, the slot loop and the loop over proposals; `AtomicCommit` as
   the abstract specification of its 2PC.
5. **From the simulator to the paper** (done): `FigureScripts`,
   `ArtifactCompare`, `FigurePipeline`; `AmortisedEnergy`, `SeedCollection`,
   `PatchSpec`, `SpecAudit`, `ValidationPipeline`.
6. **Topology builders and pure flood** (done): `TopologyBuilders`, what each
   builder promises of its graph; `PureFlood`, the calibration harness on `CiFlood`.
7. **Proofs of the simulator** (done): the vote, quorum and report invariants of
   Paxos; 2PC; TOM and its refinement of `TotalOrder`; CE and its refinement of
   `AtomicCommit`; the CI flood, its refinement of `LossyFlood` and its
   calibration harness.
8. **Proofs around the simulator** (done): the three computations of the energy agree and
   add up, no collector makes a double row, a report means a complete collection; the
   figure pipeline's forced regeneration, exit codes, provenance and comparison; what
   the patch specification does to the manuscript.
9. **Open**: theorems on what the topology builders promise, which TLC checks.

## 3. The modules

`A -> B` means A extends B.

```
Network -> (standard modules)      CiPipeline -> Network
Topology -> Network                LossyFlood -> CiPipeline
CiFlood -> Topology                CiFlood implements LossyFlood
PureFlood -> CiFlood
TopologyBuilders (uses Topology for diameters)
PaxosNode, TwoPcNode, TomNode -> Network
PaxosPipeline -> CiPipeline, PaxosNode        MCPaxosPipeline
TwoPcPipeline -> CiPipeline, TwoPcNode        MCTwoPcPipeline
TomPipeline   -> CiPipeline, TomNode          MCTomPipeline
TomPipeline implements TotalOrder             MCPureFlood
CeProtocols -> Network                        CeSimulator -> CeProtocols
CeSimulator implements AtomicCommit           MCCeSimulator
FigurePipeline -> FigureScripts, ArtifactCompare                MCFigurePipeline
SeedCollection -> AmortisedEnergy     SpecAudit -> SeedCollection, PatchSpec
ValidationPipeline -> SpecAudit
MCValidationPipeline -> ValidationPipeline, PatchEntries

FiniteIntegerSets (lemmas on finite sets of integers, sums, recursion, ranks, sequences)
PaxosPipelineProofs -> PaxosPipeline, FiniteIntegerSets
TwoPcPipelineProofs -> TwoPcPipeline, FiniteIntegerSets
TomPipelineProofs   -> TomPipeline, FiniteIntegerSets
CeSimulatorProofs   -> CeSimulator
CiFloodProofs       -> PureFlood, FiniteIntegerSets
FigurePipelineProofs     -> FigurePipeline, FiniteIntegerSets
ValidationPipelineProofs -> ValidationPipeline, FiniteIntegerSets
```

**Network, Topology.** The graph is the constant `Edges`. `WithinHops` is the
breadth-first search of `diameter()`, written as a recursive function.

**TopologyBuilders.** `build_graph` and the builders: the fixed shapes as operators,
the random ones link by link, with any outcome for every draw. The loops that draw until they
hit something new are actions that may stutter.

**CiPipeline.** One action per call of the loop. `pc` says which call comes
next, `round_num` is the code's, `heard` is the set of nodes for which
`core.participated` holds, `stopped_by` names the way the loop was left. A flood
is abstracted to its result: any set connected around the initiator
(`FloodOutcomes`), and everything connected to it in rounds after
`LastLossyRound`. Time is counted in completed floods instead of slots, so the
slot budget may end a run at the top of any round (`OutOfSlots`).

**CiFlood** discharges that abstraction. It keeps states, repeats and payloads,
draws in each slot any set of listeners that have a flooding neighbour,
applies the transitions and the two early ends, meters each slot, and delivers
the bytes at the end. `ImplementsLossyFlood` maps `heard` to the nodes asleep at
the end plus the initiator. The packet is the number of the round.

**PureFlood** puts the loop of the calibration harness on the same engine, beside that
of a protocol (`driver` says which), and counts what its report shows: receivers
covered, packets in range, packets received.

**PaxosNode / PaxosPipeline.** A proposal `"tx<t>"` is represented by `t`. The
log and the pending list have at most one entry per term, so both are functions
of the term, and a bitmap is the set of its true indices. `PrepareRound` is
`prepare_round` as a whole; `ProcessRound` is `process_round` for every
participant plus the tail of the loop. Participants are served in node order
but touch only their own state, except for the prepared answer, which the last
holder writes; so one simultaneous update is exact. `term_counter` stands for
`proposals_generated` too.

**TwoPcNode / TwoPcPipeline.** The same, with a decision per transaction. The
draw against `abort_probability` is a choice (`Draws`). `voted_no` and
`took_part` are history for the properties.

**TomNode / TomPipeline.** `store` is a function of the term, `delivered` the
sequence of the code. `Announced` is what a round floods: a new message, a
repaired one, or nothing. The code looks at the states of *all* nodes to find
the earliest missing term and a copy of it; so does the model (`NeededTerm`,
`CopyOf`).

**TotalOrder** says what TOM promises: a published sequence that only grows, and
applications that are given growing prefixes of it.

**CeProtocols.** The `Protocol` trait: one operator per method and protocol, on
packets `[term, phase, bits]`. `merge` returns `NewInfo` exactly if it changed the
packet, so the operators return the packet only. The application's vote is a
hash of term and node in the code; here it is the set `against`, chosen when the
proposal starts and fixed for its round.

**CeSimulator.** `Propose`, `GiveUp`, `Complete` and `RecordProposal` are the loop of
`sim.rs`; `Slot`, `GoalReached` and `DeadlineReached` are one iteration of the slot
loop and its two exits. In a slot any set of stalled listeners recovers by
flooding, and any other listener captures the packet of one flooding neighbour
or none; targets only change their own packet and senders are not targets, so
one simultaneous update is exact. A recovering node may hold nothing and flood
an empty packet, which can be captured: `NoPacket`. `protocol` is chosen in `Init`.

**AtomicCommit** says what 2PC promises for each transaction: one verdict for
all, a commit only if nobody is against it, an abort only if somebody is.

**FigureScripts.** Each script of `plots/` as the sequence of its steps on the disk:
run a sweep or a configuration, look at `PROVENANCE.txt`, read back, write
figures; and what it does when nothing it read has committed. `STEPS` is the
table of `regen_figures.py`, `MAPPING` that of `collect_paper_figures.py`.

**FigurePipeline.** The disk, the command in progress and the script it is running.
One action per kind of step, of which any may fail, and one each for the loop
(`NextStep`), the end with its manifest, Ctrl-C (`Interrupt`), the collection and
an edit of the sources. A file is what it was made from: a simulator output is its
configuration, protocol, seed and revision and whether it is complete
(`Output`), a figure the set of outputs the script had read. The two CSVs of a
run are one pair. `steps` are the places in `STEPS` of the scripts still to come. The
manifest is modelled for the figures.

**ArtifactCompare.** `--compare` as a function on two lists of files: the keys,
the fallback to file names, the exit code. A fingerprint lists every file looked for,
with `NoFile` where there is none.

**AmortisedEnergy.** The three computations as operators on a run, in whole
numbers (everything is multiplied by `Scale`, a common multiple of the numbers of
windows that share a slot; the scripts divide floating-point numbers).

**SeedCollection.** The collector: `--force` with its two removals, the skipping of what
`runs.csv` holds, run and measurement, the two appends, and `Kill` anywhere,
within the second append too. `Rebuild` changes the simulator between runs, to any
revision, that of the published sweep included. `ExportPair` is `export_pair`: the two CSVs are
exported one after the other, either may fail without the other, and a file that
failed keeps what it held, or some of the new rows (`LeftBehind`); the binary prints what it charged all
the same. So the collector may read fresh proposals next to a slot series of another seed or
another build. `Reconciled` is what `addition7_reconcile.py` says of the files. Two history
variables, which no guard reads, let the properties speak of the past: `source` is the pair of
CSVs a row was computed from, `cut` what kills have cut short since both files were empty.

**PatchSpec, PatchEntries.** The generator: splicing bottom-up, and each of its
checks as an operator that says when it fails. A line is a name with the
features the checks look at (`Text`). `PatchEntries` has the spans and lengths of
the 34 published entries, whose sizes an assumption compares with the numbers the
script asserts.

**SpecAudit.** Each section of `check_patch_spec.py` as a pair: when it fails, and
the quantities it records, as fractions. `LiteralsFail` is the gate on the
decimals printed in the blocks.

**ValidationPipeline** puts collector, generator and audit on one disk. The audit reads
the collector's own files, which its environment variables can name; the copies
under `docs/` are made by hand. A killed generator leaves the file it was writing as it was or the first
lines of it (`KillScript`), a killed audit a report that is not whole.

Files are cut between rows or lines, never within one. A binary that is killed
while it exports is not modelled by itself: it leaves what two failing exports leave, and the collector
stops (`Kill`).

Left out everywhere: printing, the counters of NACKs, piggybacks, timeouts and
receptions (written, never read), and the fields `sender`, `state`, and `data`
where nothing tells them apart.

## 4. The runs

Full meshes are used for the protocol runs because there a flood may end with
*every* set of nodes around the initiator: the behaviours of any other topology
on as many nodes are among them.

| Run | Instance | What it shows |
|---|---|---|
| `paxos_mesh4` | 4 nodes (majority 3), 3 proposals, any loss, every run to its end | types, `DataIntegrity`, `OneHome`; what is behind votes and commits (`QuorumsHaveEvidence`, which includes that no commit comes too early); each commit reported once, and the ways to stop (`ReportSound`); the action property `NothingForgotten` |
| `paxos_live` | 3 nodes, loss in the first three rounds | `EveryoneLearns` |
| `flood_kite5` | a clique of 4 and a leaf, 2 repeats, loss in two of three rounds, under a protocol and under the calibration harness | `ImplementsLossyFlood`, also when the bound cuts a wave; `WaveIsRight` (a lossless round reaches all in time, everybody with the same bytes); `SnapshotsMatchTicks`; `CoverageIsOfThisFlood` |
| `builders` | every topology on 5 nodes (9 for the grid), degrees 2 to 3, m = 2 | `BuiltGraphIsSound` (usable, of its kind, attached by degree), `BuildersEnd` |
| `two_pc_mesh3` | 3 nodes, 2 transactions, any votes, any loss | one window and who decides first (`OneWindow`), evidence of votes and NOs (`VotesAreSound`), reporting and stopping (`ReportSound`), `DecisionsAreFinal` |
| `two_pc_live` | 3 nodes, 2 transactions, any votes, loss in three rounds | `DecisionsReachEveryone` |
| `tom_mesh3` | 3 nodes, 5 messages, any loss | `ImplementsTotalOrder`, `StoresAreSound` (right data, holes seen), `PendingUntilAnswered`, `ReportSound` |
| `tom_live` | 3 nodes, 4 messages, loss in five rounds | `EveryoneDelivers` |
| `ce_mesh3` | the three CE protocols on 3 nodes, up to 3 rounds of 6 slots, any loss, any votes | `EvidenceIsSound` (bits, sleeping and outcomes), `ImplementsAtomicCommit`, `SlotsChargedOnce` |
| `figures` | 2 protocols, 2 seeds, 1 edit, 2 commands, 1 failure or interruption | `ForcedRegenIsCanonical`, `ExitCodeIsHonest`, `EnergyFromThisRun`, `ProvenanceIsRight`, `CompareIsExact` |
| `validation` | one protocol over CI and one over CE, 2 seeds, 2 revisions, 4 starts, 2 kills or failures | `ReconciledIsComplete`, `EnergyIsConserved`, `AppliedIsIntended`, `ReportMeansReproduced` |

**Bounds.** Three nodes are the least for which a majority, an unanimous vote
and "the others" are three different things, and for which the round-robin
order matters; four separate a majority from the nodes one flood can miss, and
the quorum properties use them. Three proposals give a hole in the middle of a
sequence with something on both sides. The drain, idle and repair limits of the
code (`5*diameter`, `1000`, `19*num+500` rounds beyond the proposals) are constants:
small in the safety runs, so that runs reach every way to stop, and large enough
for the repair to finish in the liveness runs. `MaxRounds` stands for the loop's
1 000 000 and binds only where it is below the limits. In `FloodKite`, initiators
in a row are not neighbours, the last one is as far from the leaf as the
diameter allows (so that a bound one slot short would show), and `MaxSlots` lets
some runs end by the slot budget. In `CeMesh3`, six slots are enough for a 2PC
commit to be known to be known by all (so the sleep rule is reached), and short enough
for every way to miss the deadline; the slot budget lets a run stop after two
rounds or take all three.

In `Builders`, five nodes are the least for which scale-free
attachment has a choice twice and a random graph can exceed its degrees.

In `Figures`, two commands are needed for one to meet what the other left; one
fault is enough for a half-written sweep or a script that stops half-way, and two
protocols for one to be stale and the other fresh; revision 1 commits nothing, for
the scripts that end quietly then. In `Validation`, two revisions, of which the other one differs in the awake
nodes of one run and not in its length, are enough for a stale series to be as long as the fresh one; two
faults let both exports of a run fail, or a removal and an append be cut short. It takes four
to lose decisions of a seed after a removal that was cut short has doubled
them, which is what the exception for `cut` in `ReconciledIsComplete` is for: with
`MaxFaults = 4`, and with `Drafts`, `EntryLists` and `DataSets` empty, the
property holds too (3.9 million states); without the exception it fails there, and with three
faults it does not. The two proposals of a run
overlap, so that slots are shared; lists of one and two entries over a
manuscript of six lines meet every check of the generator; the decimals are one
that is a recomputed quantity and one that is not; `SampleRuns` are all runs of up to three slots
with two windows. Deadlock is not checked in this run only: `MaxStarts` ends
every behaviour.

**Fairness.** `FairSpec` is weak fairness of the whole next-state relation: the
loop is one thread, never blocks, and takes its next call until it stops. No
action is treated separately: in particular nothing says that `OutOfSlots` does
not happen, so the liveness properties allow for `max_slots`. That packets get
through after `LastLossyRound` is an assumption about the environment: with a
loss rate below 1 every finite stretch of lossless rounds has positive
probability, and with losses in every round nothing could be promised. Nothing
live is claimed of CE: whether a round meets its goal before its deadline
depends on the coin each stalled node throws. For the builders, weak fairness of the
steps that change something says that a loop drawing until it hits something new hits it if
it exists; the draws are independent, so that has probability 1.

**Violation run.** `paxos_doc_majority` states a sentence of the documentation and
finds a behaviour of the code against it, which the finding in `PROJECT.json`
quotes: votes are cumulative, so a term is committed while one node of three
holds it.

**Further disagreements.** The modules end with the other sentences the code
does not keep. They have no run of their own: TLC refutes each when it is added
to the configuration named here.

| Definition, configuration | The code does |
|---|---|
| `BitMeansVoted`, `PaxosMesh4` | a drain packet carries the vote of an initiator that never had the term (`paxos_pipeline.rs:139`) |
| `GapIsNacked`, `PaxosMesh4` | gaps below `last_accepted` are not looked for (`paxos.rs:139`) |
| `HolesAreFilled`, `PaxosLive` | so logs can keep a hole to the end of a run without further loss |
| `Term0GapIsNacked`, `PaxosMesh4`; `MissingTxIsNacked`, `TwoPcMesh3`; `LowerTermIsNacked`, `TomMesh3` | a gap at 0 is sent as NACK 0, which means "none" |
| `ProgressMeansHeldByAll`, `PaxosMesh4` | `progress_count` is the least log *length*; the logs may have nothing in common |
| `UnanimousCommit`, `TwoPcMesh3` | against `docs/protocols/2pc_ci.md`, a receiver's NO is not propagated, and its YES for a later transaction counts for the earlier one |
| `SameVerdict`, `TwoPcMesh3` | nodes that saw different votes decide differently |
| `DecidedAtBound`, `TwoPcMesh3` | a node that misses the flood at the bound does not decide there |
| `FirstDeliveryIsRecorded`, `TomMesh3` | the publisher's own delivery is not reported |
| `AnswersFromOwnStore`, `TomMesh3` | an initiator sends recovery data it does not hold |
| `IdleFloodsAreEmpty`, `TomMesh3` | floods after the last publication carry messages |
| `ProgressCountsCompleted`, `CeMesh3` | `progress_count` counts proposals that timed out once a later one is decided (`sim.rs:126`) |
| `ReportedAbortIsSafe`, `CeMesh3` | an abort is reported at the deadline although a node holds the commit (`two_pc_ce.rs:283`) |
| `GoalMeansAllHold`, `CeMesh3` | a node's TOM goal is to hold the message, not a full bitmap (`tom_ce.rs:129`) |
| `DegreeWithinBounds`, `Builders` | `docs/simulator.md:96` gives random graphs degrees 2 to 5; each link a node draws raises the degree of the other end too (`network.rs:292`) |
| `InitiatorFloodsRepeats`, `FloodKite` with `RoundSlots = 1` | a short `round_slots` cuts the initiator's repeats |
| `SameCommandSameOutput`, `Figures` | `plots/README.md` promises the same output for the same command; a sweep that was interrupted leaves a header, which the next run takes for a cached summary and plots |
| `EvidenceNamesItsRevision`, `Figures` | `audit_sources_210b.py` keeps the "Pre-generation source revision" of an earlier file (`:23-30`) and writes it above new numbers (`:58`) |
| `PrintableOnceReconciled`, `Validation` | `docs/validation/addition7.md:50` calls the numbers printable once the reconciliation is clean; the costs may be of a stale slot series, because the two CSVs of a run are exported, and lost, one by one (`main.rs:35-40`) |

Also, `docs/protocols/paxos_ci.md` still says that a recovered proposal is stored
with a full bitmap; since the fix of issue 257 it has the receiver's vote only,
which is what `Recover` models (`RecoverAllVotes`, the earlier behaviour, is the
mutant of `QuorumsHaveEvidence`). And `docs/protocols/2pc_ce.md` describes how nodes
flood once more and sleep when they know the full bitmap; the round is over by
then (`DoneBeforeSleep`, in `EvidenceIsSound`).

The scripts depart from their own words in these places, which the modules keep
as the code has them:

* `plots/README.md:94` says seed 99 is retired; the progress configurations and
  `plot_kde_awake.py` use it (`RetiredSeed`).
* `plots/README.md:27` names a flag `--list` that `regen_figures.py` does not have; its
  comment on "two hard dependencies" (`:40`) leaves out that the efficiency and summary
  steps read what the scalability step sweeps.
* The manifest covers every artifact on disk, not "only what was produced" (`:253`).
* `--compare` does not fingerprint the CSVs under `docs/` on the current side, so a full copy of
  the repository always differs; when only file names line up, the two
  `sweep_summary.csv` become one.
* `_common.py:3` promises fresh data; the simulator ends with 0 also when it could not
  write its CSVs, and then the old ones are read. The properties that need this
  not to happen say so (`~lost`).
* The energy figures drawn from `results/` show the last seed only.
* `require_per_slot_series` is called without the end slot, so a series that covers a
  prefix of a run passes (`PerSlot`).
* The simulator starts a sweep when the *path* of the configuration contains "sweep".
* `addition7_collect.py:8` appends so that "a timeout does not lose the run"; a kill
  between the two appends loses its decisions for good, because the next start skips
  the run. `addition7_reconcile.py` finds that for the arms over CI and is blind to
  it for those over CE, which is why the second half of `ReconciledIsComplete` is about the former.
* `docs/validation/addition7.md:50` concludes from a clean reconciliation that the numbers
  are "printable" (:25: `runs.csv` is "a deterministic re-execution of the same seeds").
  When only the export of the snapshots fails (`main.rs:38`), the series of an earlier run of the arm stays
  next to the fresh proposals. If it is as long, the row agrees with the published one, whose columns come from
  stdout and the proposals, and the sum over `decisions.csv` agrees with the row, since both are
  of the same stale series: everything is clean, and the costs are not those of the published runs.
  TLC finds it for `PrintableOnceReconciled`, with a build of another revision; what a clean
  reconciliation does mean is `ReconciledIsComplete`.
* `make_patch_spec_v3.py:897` says condition (d) "cannot fail by construction". That is so
  when no two spans share a line (`AppliedCorrect`), which nothing in the script asks for:
  of the lists that overlap it is (d) that rejects some, and others pass everything.

## 5. The proofs

**Assumptions**: only those on the constants, named in the modules that declare
them: `N >= 2` (`SimConfig::validate`), at least one proposal or message, links between
nodes, limits that are numbers, and for the flood at least one repeat and a
snapshot interval of at least one. Nothing is assumed about the graph (it may be in
parts), about which packets are lost, or about the bounds that TLC needs. For the scripts:
no protocol and no seed of the collection is listed twice (`CollectionAssumption`) and no
protocol of the figures (`ScriptsAssumption`); the scripts run by hand are scripts of
`plots/` (`PipelineAssumption`); an entry of a patch specification names at least one line and
replaces it by at least one, and manuscripts and replacements are made of lines of `Text`
(`PipelineAssumption`, `TextAssumption`); and what the simulator has to export is a whole run (`RunsAssumption`: no window ends before it starts
or beyond the series, and `Scale` is divisible by every number of windows that may share a slot). What the
exports leave behind need not be one. That a series has a row per slot is assumed of the samples only;
of the CSVs the collector checks it.

Each module below proves one inductive invariant, checked by TLC first, in the
form `Init`, one lemma per action, `Invariance`; the theorems on the properties
follow from it.

| Module | Theorem | States |
|---|---|---|
| `PaxosPipelineProofs` | `PipelineInvariant`, `EvidenceInvariant` | `Spec => []PipelineInv`, `Spec => []EvidenceInv` |
| | `TypeCorrect` | `Spec => []TypeOK` |
| | `IntegrityTheorem`, `OneHomeTheorem` | `Spec => []DataIntegrity`, `Spec => []OneHome` |
| | `NothingForgottenTheorem` | `Spec => NothingForgotten` |
| | `QuorumTheorem` | `Spec => []QuorumsHaveEvidence` |
| | `ReportTheorem` | `Spec => []ReportSound` |
| `TwoPcPipelineProofs` | `Invariance`, `TypeCorrect` | `Spec => []TwoPcInv`, `Spec => []TypeOK` |
| | `WindowTheorem` | `Spec => []OneWindow` |
| | `VotesTheorem` | `Spec => []VotesAreSound` |
| | `ReportTheorem` | `Spec => []ReportSound` |
| | `DecisionsTheorem` | `Spec => DecisionsAreFinal` |
| `TomPipelineProofs` | `Invariance`, `TypeCorrect` | `Spec => []TomInv`, `Spec => []TypeOK` |
| | `StoresTheorem` | `Spec => []StoresAreSound` |
| | `ReportTheorem` | `Spec => []ReportSound` |
| | `PendingTheorem` | `Spec => PendingUntilAnswered` |
| | `TotalOrderImplemented` | `Spec => ImplementsTotalOrder` |
| `CeSimulatorProofs` | `Invariance`, `TypeCorrect` | `Spec => []CeInv`, `Spec => []TypeOK` |
| | `EvidenceHolds` | `Spec => []EvidenceIsSound` |
| | `SlotsAreChargedOnce` | `Spec => []SlotsChargedOnce` |
| | `AtomicCommitImplemented` | `Spec => ImplementsAtomicCommit` |
| `CiFloodProofs` | `Invariance`, `TypeCorrect` | `DriverSpec => []FloodInv`, `DriverSpec => []TypeOK` |
| | `SnapshotTheorem` | `DriverSpec => []SnapshotsMatchTicks` |
| | `WaveTheorem` | `DriverSpec => []WaveIsRight` |
| | `LossyFloodImplemented` | `NeverCut /\ DriverSpec => ImplementsLossyFlood` |
| | `CoverageTheorem` | `DriverSpec => CoverageIsOfThisFlood` |
| `ValidationPipelineProofs` | `CollectCorrect` | `Spec => []CollectInv` |
| | `ReconciledCorrect` | `Spec => []ReconciledIsComplete` |
| | `EnergyCorrect` | `Spec => []EnergyIsConserved` |
| | `ReportCorrect` | `Spec => ReportMeansReproduced` |
| | `AppliedCorrect` | `ASSUME SpansApart PROVE Spec => []AppliedIsIntended` |
| `FigurePipelineProofs` | `FiguresInvariant`, `FigureTypes` | `Spec => []FigureInv`, `Spec => []FigureTypeOK` |
| | `ForcedRegenCanonical` | `Spec => []ForcedRegenIsCanonical` |
| | `ExitCodeHonest` | `Spec => []ExitCodeIsHonest` |
| | `EnergyIsFromThisRun` | `Spec => []EnergyFromThisRun` |
| | `ProvenanceRight` | `Spec => ProvenanceIsRight` |
| | `CompareIsExactAlways` | `Spec => CompareIsExact` |

**Paxos.** `TypeOK` is not inductive: that a packet's term exists, or
that data stored from a piggyback is the right data, depends on what the sender
had. `PipelineInv` adds that every node state is `WellFormed` for the current
`term_counter` (logs and pending lists disjoint, bitmaps of pending terms only,
log below `last_accepted`, nothing from terms not proposed yet, each with its own data), that the
prepared answer and the one in the packet are of a term already proposed with its data
(`GoodPiggyback`), and that between preparing and processing the packet speaks
of proposed terms (`GoodPacket`). The lemmas on `PaxosNode` show that each method of the node keeps
`WellFormed` and only lets the node grow (`CommitKeepsWellFormed`,
`PushKeepsWellFormed`, `MergeKeepsWellFormed`, chained by `GrowsTransitive`);
`OverhearKeepsWellFormed` and `RecoverKeepsWellFormed` compose them into
what a participant does with a packet, `AnswerIsGood` covers the NACK.
`NothingForgotten` follows because each step of that proof also yields growth.

`EvidenceInv` adds time. The proposals are made in the order of the rounds (`Schedule`:
term `t` starts in round `t`), whoever holds a term pending was in its flood
or a later one (`PendingIsSeen`), and a bitmap of `t` grows, apart from the node's
own bit, only by the initiators of the rounds since `t`, one a round
(`VotesTakeRounds`). A majority then needs `N \div 2` further rounds, which is
`NoEarlyCommit`, and each bit in it is a node that has seen the term, which is
`MajorityBehindAccepted`. That recovery stores the receiver's vote only (issue 257) is
what keeps `VotesTakeRounds`: the fix is needed exactly there.

**2PC.** The window of `N` rounds is also the time a node waits for its next turn, and the
proof is about that coincidence. `TwoPcInv` says that transaction `t` is opened
in round `t` (`PaceInv`); its proposer therefore initiates next in round `t + N`,
the first round in which any copy of `t` may reach its bound, and decides and reports it
in `prepare_round`, before anyone processes that round's flood (`ProposerInv`). So a
node that decides at the bound, or learns the decision by piggyback, decides
what is reported already, and nobody needs to report it again. The rest of `NodeInv`
ties each bit to the flood its node was in, and each NO to the abort flag it set.

**TOM.** `TomInv` says that the delivered sequence of a node is exactly the messages `0 ..
last_delivered`, that all it stores was published, with its data (`Good`), and that it
is `Settled`: nothing it stores could be delivered now. The exception is the initiator
between preparing and processing. From `Settled`, every hole below something a node knows of
lies above `last_delivered`, so the search for gaps finds it (`GapsAreSeen`). The
refinement follows: publishing appends to the abstract sequence, serving a round
extends each application's prefix of it, in one step, and everything else stutters.

**CE.** `CeInv` says that every packet held is `Truthful`: it names the term of the round, its
bits are of nodes that set them, and next to a verdict only bits of nodes with that
verdict. The lemma that carries it is about `merge` (`MergeFacts`): of two truthful packets it
makes a truthful one, because it copies bits only next to the verdict they were set
under, and drops none of the receiver's own; and a verdict once held stays. So a full bitmap
is unanimity, and the verdict is the same for all, which is the step of the refinement.
That no node sleeps is part of the invariant: the only way to be allowed to is to know the goal
reached, and the round ends at the top of the next slot.

**CI flood.** `ConnectedInv` is about every bound at once: for each `k` the nodes with at
most `k` repeats left are connected around the initiator, because a node starts to
flood after the one it heard. For `k = 0` these are the participants, wherever the
bound falls. `WaveInv` says that without loss the flood is a
breadth-first search in time: `k` slots after the start, a node `d` hops away listens if
`k < d`, floods up to `k = d + flood_repeats`, and sleeps then. This needs facts on the graph
(`ComponentClosed`, `DistanceFacts`, `EccentricityFacts`: the recursive
function `WithinHops` reaches all of a component within its eccentricity), and
`DefaultLengthSuffices` shows that the default length of a round is never too short,
on any graph. `MeterInv` has the slot accounting: the next snapshot is the first multiple
of the interval not in the past, and the ticks of a slot sum to `N`, with the lemmas on
sums of `FiniteIntegerSets`.

`LossyFloodImplemented` has the hypothesis `NeverCut`: the configuration sets no
`round_slots` of its own, or no flood is lossless. A short `round_slots` can end a flood
that loses nothing while its wave still moves, and then not everybody connected
participates, as `LossyFlood` says of lossless rounds. The liveness runs above the
abstraction therefore speak of configurations with the default length; the safety theorems
hold for both, since they allow any loss in any round.

**Energy and collection.** That the methods agree is arithmetic on one run without a gap
(`Sane`). The prefix sums are unrolled (`PrefixFacts`, `PrefixIsSum`): each of the three
is the sum of the shares over the positions of the window (`ByPrefixIsSum`), the
look-up because the slots it skips have no share (`LookupAgrees`), the one over the slots
present because all of them are (`PresentAgrees`). Over all proposals the sums are exchanged
(`SumsExchange`): each slot's share is counted once for every window it is in, which is
the number it was divided by (`ShareFacts`, `DivideExactly`), so that the awake nodes of
the slot come back (`EnergiesAddUp`). `CollectInv` carries this to the files: each of the two CSVs of
an arm is what some run of that arm, of whatever seed and revision, had to export, or the first rows of it
(nothing says that both are of one run), and what `collect` accepts has
no gap. Every row in `runs.csv` is that of its `source`, which was accepted. Its other half is about `runs.csv`: what is left to do is of the
loops, each pair once, and none of it in the file (`TodoInv`; between the two appends, none but
the first), so a pair is never appended twice. The audit compares only the *number* of rows
with that of the pairs; with no doubles, this means all of them (`TableIsFull`).

`ReconciledCorrect` rests on `LedgerInv`, which follows `decisions.csv` through kills and removals: a
pair that is not in `runs.csv` has no decisions there, unless the removal of `--force` was cut short (`cut.removal`); and
what a pair in `runs.csv` has, when it is as many as the row says, is exactly the decisions of its
`source` (`ExactIfCounted`), unless both the removal and then the append of this pair were cut short. An append
adds positions beyond the old end (`ShiftFacts`, `AppendFacts`), so it disturbs no other pair, and a part of it on
top of nothing is as long as the whole only if it is the whole (`DecisionRowsFacts`); left-overs of a
removal that was cut short make the count too large unless something else is missing. The count that
`CountsAgree` compares then does the rest; the comparison of the row, which includes what
the binary charged, makes the CSVs as long as the published run, because `collect` has
asserted that they are as long as the charge.

**Patch specification.** The generator splices from the last entry to the first, the
property speaks of all places at once. Both sorts of the code are written as the choice
of the entry with so many before it; the lemmas on ranks turn that into an order of the lines
(`InLineOrder`). The spans in the base and those of the replacements in
the result are then two rows of intervals with the same gaps between them
(`LayoutFacts`), and `Reached` says what the lines are after each splice:
nothing has happened in front of the next entry, and what is behind it is in place but for
the shift still to come. `SpliceStep` is its induction step. At the end every
replacement is where the specification says, and a map of the gaps that keeps their order makes
what is kept the same sequence on both sides (`KeptAlike`, `SameInOrder`). The document lists the
entries sorted, so sorting it again changes nothing, and applying it by hand gives the manuscript
that the generator wrote (`DocumentApplied`); `PatchInv` says when the two files
belong together.

The hypothesis `SpansApart` is that no list that passes the checks names a line twice. The
generator does not look at that. Its published list satisfies it, which
`PublishedListIsConsistent` asserts of all 34 entries, and so does
every list of the run `validation` that passes, though the run offers it
overlapping ones. It cannot be dropped: check (8) finds an overlap by
applying the document from the other end, and two overlapping replacements that happen to agree
on the shared lines give the same result both ways.

**Figures.** `FigureInv` follows a command through `STEPS` and a script through its program
(`ControlInv`); everything else is said relative to the two places. `FrameInv` and
`ResultsInv`: what a script has read is its last burst of runs, which are the
ones on disk. `ContentInv` and `DrawnInv`: what this command has drawn is what its program reads at
that place, and a step that is done has drawn all of its figures. Exit code 0 then
means what its reader takes it to mean because no figure is drawn by two scripts of `STEPS`
(`Undrawn`), so nothing drawn is overwritten by a later step. The scripts that end quietly
need `EnergyReady` and `QuietInv`: `plot_paper_energy.py` comes right behind the last
runs of `plot_stacked_bar.py` and reads the same files, so if nothing was committed in them it fails
and the exit code shows it. `SweepsInv` is what `--force` adds. `ProvenanceInv` says that a
script whose name stands last in `PROVENANCE.txt` has run, or is running and
will run, every protocol whose files are of another configuration, provided no run failed.
`IdleInv` keeps the report true until the next command starts. `CompareIsExactAlways` is about the
dictionaries that `--compare` builds: in the repository's layout, and for a flat folder, the keys of
the two sides meet in the files they should (`LayoutDicts`, `FolderDicts`), although by file name the two
`sweep_summary.csv` are one.

**Lemmas.** The facts on the loop that the three CI protocols share, how a round
ends and whose turn is when, stand at the head of each protocol's module.
`FiniteIntegerSets` has the facts on `Min` and `Max`
that the code's searches (lowest gap, highest quorum, last holder, least log) need, an
induction over finite sets stated with a set in place of a predicate, and from it that the
sums of the community modules are sums, in any order, that split, scale and exchange.
`RecursionExists` and `SubsetRecursionExists` say that a function defined by recursion, on `0 .. n`
and on the subsets of a finite set, exists, which is what it takes to reason about one and to unroll
a fold. The lemmas on ranks are about picking the element with so many before it.

**Model-checked only.** Liveness (`EveryoneLearns`, `DecisionsReachEveryone`,
`EveryoneDelivers`, `BuildersEnd`): fairness and `ENABLED` are out of this
prover's reach.
`AppliedIsIntended` where spans overlap and the checks pass all the same. The
builders (`BuiltGraphIsSound` and their type invariant), whose diameters and degrees would need
a theory of paths for every shape: they have no theorems.

## 6. Not modelled

Configuration parsing, the runner and the CSV format. The random
draws are choices, so nothing is said about probabilities, rates or the
measured results; nor about the size of packets on the air. `snapshot_interval
= 0` and `flood_repeats = 0`, which `validate` lets through, are excluded by an
assumption of `CiFlood`.

Of the scripts: what a figure looks like and what the tools print;
`make_patch_spec.py`, which `make_patch_spec_v3.py` supersedes and nothing runs; the
statistics of the validation rounds (`addition7_{report,boxplot,charges}.py`,
`addition8` and `addition12` to `addition15`), straight-line computations over
recorded CSVs; half-widths, which need a square root, and the report on the
strength of the evidence, which decides nothing, in the audit; CSVs under `results/` in the
manifest. One command runs at a time in the models, as the workflow intends; nothing in the
scripts enforces it.
