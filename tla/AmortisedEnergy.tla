--------------------------- MODULE AmortisedEnergy ---------------------------
(***************************************************************************)
(* The energy of a decision, Eq. (5) of the paper: the awake node-slots of *)
(* each slot of its window, shared among the C_t proposals whose windows   *)
(* contain the slot.  Three scripts compute it, each in its own way.  All  *)
(* energies are multiplied by Scale, so that the shares are whole numbers. *)
(*                                                                         *)
(* What a run of the simulator leaves behind is a record with              *)
(*   series     snapshots_<p>.csv, a sequence of [slot, awake]             *)
(*   proposals  results_<p>.csv, a sequence of [start, end, outcome]       *)
(* and what it prints is charged, [awake, asleep] in node-slots.           *)
(***************************************************************************)
EXTENDS Integers, Sequences, FiniteSets, FiniteSetsExt, SequencesExt

CONSTANTS
    NumNodes,   \* N of the reference point
    Scale       \* a common multiple of the C_t that may occur

ASSUME EnergyAssumption == NumNodes \in Nat \ {0} /\ Scale \in Nat \ {0}

Proposals(run) == DOMAIN run.proposals
Committed(run) == {p \in Proposals(run) : run.proposals[p].outcome = "committed"}
Window(run, p) == run.proposals[p].start .. run.proposals[p].end - 1
EndSlot(run) == Max({run.proposals[p].end : p \in Proposals(run)})
SumLatency(run) == MapThenSumSet(LAMBDA p : Cardinality(Window(run, p)), Committed(run))

\* C_t, the proposals alive in slot t, aborted ones included.
Concurrency(run, t) == Cardinality({p \in Proposals(run) : t \in Window(run, p)})

SumConcurrency(run) ==
    MapThenSumSet(LAMBDA k : Concurrency(run, run.series[k].slot), DOMAIN run.series)

Share(run, row) ==
    IF Concurrency(run, row.slot) = 0
    THEN 0 ELSE (row.awake * Scale) \div Concurrency(run, row.slot)

\* require_per_slot_series, as both of its callers use it: without the end
\* slot, so that a series which covers only a prefix of the run passes.
PerSlot(run) ==
    Len(run.series) >= 2 /\ \A k \in DOMAIN run.series : run.series[k].slot = k - 1

\* plot_stacked_bar.py: every slot of the window looked up on its own.
EnergyByLookup(run, p) ==
    MapThenSumSet(LAMBDA k : Share(run, run.series[k]),
                  {k \in DOMAIN run.series :
                     run.series[k].slot \in Window(run, p) /\ run.series[k].awake > 0})

\* pref[k]: the shares of the first k - 1 slots of the series.
Prefix(run) ==
    LET pref[k \in 0 .. Len(run.series)] ==
          IF k = 0 THEN 0 ELSE pref[k - 1] + Share(run, run.series[k])
    IN pref

\* addition7_collect.py: the difference of two prefix sums.
\* Mutant: the last slot of the window is left out.
EnergyToLastSlot(run, p) ==
    Prefix(run)[Max({run.proposals[p].end - 1, 0})] - Prefix(run)[run.proposals[p].start]
EnergyByPrefix(run, p) ==
    Prefix(run)[run.proposals[p].end] - Prefix(run)[run.proposals[p].start]

\* load_amortized of plot_paper_energy.py: the same, over the slots present.
EnergyOfPresent(run, p) ==
    LET present == {k \in DOMAIN run.series : run.series[k].slot \in Window(run, p)}
    IN IF present = {} THEN 0 ELSE Prefix(run)[Max(present)] - Prefix(run)[Min(present) - 1]

\* The awake node-slots inside and outside all windows.
AwakeWhere(run, Test(_)) ==
    MapThenSumSet(LAMBDA k : run.series[k].awake,
                  {k \in DOMAIN run.series : Test(Concurrency(run, run.series[k].slot))})
AwakeInside(run) == AwakeWhere(run, LAMBDA c : c > 0)
AwakeOutside(run) == AwakeWhere(run, LAMBDA c : c = 0)
=============================================================================
