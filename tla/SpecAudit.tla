------------------------------ MODULE SpecAudit ------------------------------
(***************************************************************************)
(* check_patch_spec.py: every quantity the specification quotes is         *)
(* recomputed from the data, and every decimal printed in a replacement    *)
(* block must be the rounding of one of them.  A section below is a pair:  *)
(* when it fails (or ends the script with an exception, which comes to the *)
(* same: no report), and otherwise the quantities it records.              *)
(*                                                                         *)
(* A file is [here, rows]; a quantity is a fraction, for its name and      *)
(* provenance are only printed.  Half-widths, which need a square root,    *)
(* and the report on the strength of the evidence, which decides nothing,  *)
(* are left out.                                                           *)
(***************************************************************************)
EXTENDS SeedCollection, PatchSpec

CONSTANTS
    Topologies,    \* of the topology sweep
    LedgerSeeds,   \* the seeds of which addition9 holds the proposals
    SpreadArm,     \* "paxos_ce", the arm over CE of section G
    ResidualArm,   \* "2pc_ce", the arm of section E
    CAP            \* ce.max_round_slots

ASSUME AuditAssumption ==
    /\ Len(CiArms) = Len(CeArms)
    /\ {SpreadArm, ResidualArm} \subseteq ToSet(CeArms) /\ CAP \in Nat

NoFile == [here |-> FALSE, rows |-> <<>>]
File(rows) == [here |-> TRUE, rows |-> rows]

----------------------------------------------------------------------------
(***************************************************************************)
(* Fractions.                                                              *)
(***************************************************************************)
Over(x, y) ==
    IF y.num < 0 THEN [num |-> -x.num * y.den, den |-> -x.den * y.num]
    ELSE [num |-> x.num * y.den, den |-> x.den * y.num]
Frac(n, d) == [num |-> n, den |-> d]
Times(x, y) == Frac(x.num * y.num, x.den * y.den)
Plus(x, y) ==
    IF x.den = y.den THEN Frac(x.num + y.num, x.den)
    ELSE Frac(x.num * y.den + y.num * x.den, x.den * y.den)
Minus1(x) == Frac(x.num - x.den, x.den)
Int1(n) == Frac(n, 1)
Percent(x) == Frac(100 * x.num, x.den)

SumOf(rows, Of(_)) == FoldLeft(LAMBDA acc, r : acc + Of(r), 0, rows)
MeanOf(rows, Of(_)) ==
    LET sum == FoldLeft(LAMBDA acc, r : Plus(acc, Of(r)), Frac(0, 1), rows)
    IN Frac(sum.num, sum.den * Len(rows))
Pooled(rows, Num(_), Den(_)) == Frac(SumOf(rows, Num), SumOf(rows, Den))

\* Per-row values.
CommitRate(r) == Frac(100 * r.committed, r.proposals)
Throughput(r) == Frac(r.committed, r.end_slot)
AvgLatency(r) == IF r.committed = 0 THEN Frac(0, 1) ELSE Frac(r.latency, r.committed)
energy_per_dec(r) == Frac(r.awake, r.committed)
ZeroCommit(rows) == \E k \in DOMAIN rows : rows[k].committed = 0

Of(rows, arm) == SelectSeq(rows, LAMBDA r : r.arm = arm)
OfTopology(rows, t, arm) == SelectSeq(rows, LAMBDA r : r.topology = t /\ r.arm = arm)
SeedsOf(rows) == [k \in DOMAIN rows |-> rows[k].seed]
Sizes(rows) ==
    \/ Len(rows) # Len(Arms) * Len(Seeds)
    \/ \E arm \in ToSet(Arms) : Len(Of(rows, arm)) # Len(Seeds)

\* The columns of sections A and C.
Efficiency(r) == Over(Times(Frac(1000, 1), Throughput(r)), energy_per_dec(r))
Columns(rows) ==
    LET thr == MeanOf(rows, Throughput)
        lat == MeanOf(rows, AvgLatency)
        depth_mop == MeanOf(rows, LAMBDA r : Times(Throughput(r), AvgLatency(r)))
        depth_pom == Times(thr, lat)
        end == MeanOf(rows, LAMBDA r : Int1(r.end_slot))
    IN {MeanOf(rows, CommitRate), thr, lat, depth_mop, depth_pom, end}
         \cup IF ZeroCommit(rows) THEN {}
              ELSE {MeanOf(rows, energy_per_dec), MeanOf(rows, Efficiency)}

----------------------------------------------------------------------------
\* A. The baseline cell of the scalability sweep.
BaselineFails(scal) ==
    ~scal.here \/ Sizes(scal.rows) \/ ZeroCommit(scal.rows)
Baseline(scal) ==
    UNION {Columns(Of(scal.rows, arm)) : arm \in ToSet(Arms)}

\* B. CE over CI, by the estimators of the paper and the scripts.
EscapeFails(scal) ==
    \E i \in DOMAIN CiArms :
        LET seeds(arm) == ToSet(SeedsOf(Of(scal.rows, arm)))
        IN seeds(CiArms[i]) # seeds(CeArms[i])
RatioOfMeans(ci, ce) == Over(MeanOf(ce, energy_per_dec), MeanOf(ci, energy_per_dec))
EscapeOf(ci, ce) ==
    LET awake(r) == r.awake
        committed(r) == r.committed
        paired == [k \in DOMAIN ci |->
                     [ci |-> ci[k], ce |-> (CHOOSE r \in ToSet(ce) : r.seed = ci[k].seed)]]
    IN {RatioOfMeans(ci, ce),
        Over(Pooled(ce, awake, committed), Pooled(ci, awake, committed)),
        MeanOf(paired, LAMBDA p : Over(energy_per_dec(p.ce), energy_per_dec(p.ci)))}
Escape(scal) ==
    UNION {EscapeOf(Of(scal.rows, CiArms[i]), Of(scal.rows, CeArms[i])) : i \in DOMAIN CiArms}

\* C. The topology sweep.  The loop is over the topologies the file has.
TopologyFails(topo) ==
    \/ ~topo.here \/ Len(topo.rows) # Cardinality(Topologies) * Len(Arms) * Len(Seeds)
    \/ \E k \in DOMAIN topo.rows : topo.rows[k].timed_out # 0
    \/ \E k \in DOMAIN topo.rows, arm \in ToSet(Arms) :
         Len(OfTopology(topo.rows, topo.rows[k].topology, arm)) # Len(Seeds)
Topology(topo) ==
    {Int1(0)} \cup UNION {
      UNION {Columns(OfTopology(topo.rows, t, arm)) : arm \in ToSet(Arms)}
        \cup {RatioOfMeans(OfTopology(topo.rows, t, CiArms[i]),
                           OfTopology(topo.rows, t, CeArms[i])) :
                i \in {j \in DOMAIN CiArms :
                         ~ZeroCommit(OfTopology(topo.rows, t, CiArms[j])
                                       \o OfTopology(topo.rows, t, CeArms[j]))}}
      : t \in {topo.rows[k].topology : k \in DOMAIN topo.rows}}

\* D. The ledgers: the time no committed proposal accounts for is that of the
\* aborted ones, CAP slots each.
Aborts(ledger) == Cardinality({p \in Proposals(ledger) : ledger.proposals[p].outcome = "aborted"})
LedgerFails(ledger) ==
    \/ ~ledger.here
    \/ \E p \in Proposals(ledger) : ledger.proposals[p].outcome = "timed_out"
    \/ SumLatency(ledger) = 0
    \/ EndSlot(ledger) - SumLatency(ledger) # Aborts(ledger) * CAP
\* 100 * (end_slot / sum_latency - 1).
Residual(end, latency) == Percent(Minus1(Frac(end, latency)))
LedgerOf(ledger) ==
    LET end == EndSlot(ledger)
        latency == SumLatency(ledger)
        orphan == end - latency
        counts == {Cardinality(Committed(ledger)), Aborts(ledger), latency, end, orphan}
    IN {Int1(n) : n \in counts}
         \cup {Frac(latency, end), Residual(end, latency), Percent(Frac(orphan, end))}
LedgersFail(ledgers) ==
    \E arm \in ToSet(CeArms), s \in LedgerSeeds : LedgerFails(ledgers[<<arm, s>>])
Ledgers(ledgers) ==
    UNION {LedgerOf(ledgers[<<arm, s>>]) : arm \in ToSet(CeArms), s \in LedgerSeeds}

\* E. The same residual for every seed of one arm, which the sweep gives by
\* the law of section D only; where there is a ledger the two must agree.
LineRows(topo) == OfTopology(topo.rows, "line", ResidualArm)
RowResidual(r) == Residual(r.end_slot, r.end_slot - r.aborted * CAP)
LineFails(topo, ledgers) ==
    \/ LineRows(topo) = <<>>
    \/ \E r \in ToSet(LineRows(topo)) :
         \/ r.end_slot = r.aborted * CAP
         \/ r.seed \in LedgerSeeds /\
              LET ledger == ledgers[<<ResidualArm, r.seed>>]
                  other == Residual(EndSlot(ledger), SumLatency(ledger))
              IN RowResidual(r).num * other.den # other.num * RowResidual(r).den
Line(topo) ==
    {MeanOf(LineRows(topo), RowResidual)} \cup {RowResidual(r) : r \in ToSet(LineRows(topo))}

\* F. Duty cycle, drain and the gap between the two metrics, from runs.csv.
DutyFails(file) ==
    \/ ~file.here \/ Sizes(file.rows)
    \/ \E arm \in ToSet(Arms) : SumOf(Of(file.rows, arm), LAMBDA r : r.committed) = 0
Duty(r) == Frac(r.awake, NumNodes * r.slots)
DutyOf(arm, rows) ==
    LET slots(r) == r.slots
        end(r) == r.end_slot
        drain(r) == r.slots - r.end_slot
        worst == CHOOSE r \in ToSet(rows) :
                   \A x \in ToSet(rows) : drain(r) * end(x) >= drain(x) * end(r)
        duty == Pooled(rows, LAMBDA r : r.awake, LAMBDA r : NumNodes * r.slots)
        shared == Pooled(rows, LAMBDA r : r.amortised, LAMBDA r : Scale * r.awake)
    IN {Pooled(rows, slots, LAMBDA r : r.committed), Percent(Pooled(rows, drain, end)),
        Percent(Frac(drain(worst), end(worst)))}
         \cup IF arm \notin ToSet(CiArms) THEN {}
              ELSE {duty, Over(Int1(1), duty), MeanOf(rows, Duty), Percent(Minus1(shared)),
                    MeanOf(rows, LAMBDA r : Frac(r.concurrency, r.slots))}
\* The closure: the inverse duty cycle of TOM against its escape ratio.
Closure(file, scal) ==
    LET rows == Of(file.rows, CiArms[1])
        inverse == Pooled(rows, LAMBDA r : NumNodes * r.slots, LAMBDA r : r.awake)
    IN Percent(Minus1(Over(inverse, RatioOfMeans(Of(scal.rows, CiArms[1]),
                                                     Of(scal.rows, CeArms[1])))))
DutyFamily(file, scal) ==
    UNION {DutyOf(arm, Of(file.rows, arm)) : arm \in ToSet(Arms)} \cup {Closure(file, scal)}

\* G. The distribution of the cost of a decision, from decisions.csv.
CostsOf(rows, arms) ==
    LET found == SelectSeq(rows, LAMBDA d : d.arm \in arms)
    IN SortSeq([k \in DOMAIN found |-> found[k].amortised], LAMBDA x, y : x < y)
\* Linear interpolation at pr = k / 100.
qtl(xs, k) ==
    LET h == (Len(xs) - 1) * k
        lo == h \div 100 + 1
        hi == Min({lo + 1, Len(xs)})
    IN Frac(100 * xs[lo] + (h % 100) * (xs[hi] - xs[lo]), 100 * Scale)
SpreadFails(file) ==
    ~file.here \/ \E arm \in ToSet(CiArms) \cup {SpreadArm} : CostsOf(file.rows, {arm}) = <<>>
SpreadOf(xs) ==
    {Int1(Len(xs)), Plus(qtl(xs, 75), Frac(-qtl(xs, 25).num, 100 * Scale))}
      \cup {qtl(xs, k) : k \in {0, 1, 25, 50, 75, 99, 100}}
Spread(file) ==
    LET costs(arm) == CostsOf(file.rows, {arm})
        pooled == CostsOf(file.rows, ToSet(CiArms))
        separation == Over(qtl(costs(SpreadArm), 25), qtl(pooled, 75))
        rise == Over(qtl(costs(CiArms[Len(CiArms)]), 50), qtl(costs(CiArms[1]), 50))
    IN UNION {SpreadOf(costs(arm)) : arm \in ToSet(CiArms) \cup {SpreadArm}}
         \cup {qtl(pooled, k) : k \in {75, 99, 100}}
         \cup {separation, Percent(Minus1(rise))}

\* H. The analytical cost of the measured latency under CE.
Ceilings(scal) ==
    UNION {LET rows == Of(scal.rows, arm)
               ceiling == Times(Frac(NumNodes, 1), MeanOf(rows, AvgLatency))
           IN {ceiling, Over(ceiling, MeanOf(rows, energy_per_dec))} : arm \in ToSet(CiArms)}

\* H2. The scale-free topology against the random one.
DegreeFails(topo) ==
    \E arm \in ToSet(CiArms), t \in {"random", "scale_free"} :
        OfTopology(topo.rows, t, arm) = <<>>
DegreeOf(topo, arm, Value(_)) ==
    LET mean(t) == MeanOf(OfTopology(topo.rows, t, arm), Value)
    IN {mean("random"), mean("scale_free"),
        Percent(Minus1(Over(mean("scale_free"), mean("random"))))}
Degree(topo) ==
    UNION {DegreeOf(topo, arm, AvgLatency) \cup DegreeOf(topo, arm, Throughput) :
             arm \in ToSet(CiArms)}

----------------------------------------------------------------------------
(***************************************************************************)
(* I. The literal audit.  A decimal is [digits, places]; the sign is       *)
(* typeset apart from it.                                                  *)
(***************************************************************************)
Abs(n) == IF n < 0 THEN -n ELSE n
Printed(q, places) == (2 * Abs(q.num) * 10 ^ places + q.den) \div (2 * q.den)
Reproduced(lit, Q) == \E q \in Q : Printed(q, lit.places) = lit.digits

Decimals(blocks) ==
    UNION {UNION {Text[l].decimals : l \in ToSet(blocks[k].repl)} : k \in DOMAIN blocks}
\* Mutant: a specification without blocks passes.
LiteralsFailIfAny(spec, Q) ==
    ~spec.here \/ \E lit \in Decimals(spec.rows) : ~Reproduced(lit, Q)
LiteralsFail(spec, Q) ==
    ~spec.here \/ spec.rows = <<>> \/ \E lit \in Decimals(spec.rows) : ~Reproduced(lit, Q)

Quantities(d) ==
    Baseline(d.scal) \cup Escape(d.scal) \cup Topology(d.topo) \cup Ledgers(d.ledgers)
      \cup Line(d.topo) \cup DutyFamily(d.runs, d.scal) \cup Spread(d.decisions)
      \cup Ceilings(d.scal) \cup Degree(d.topo)

AuditFails(d) ==
    \/ BaselineFails(d.scal) \/ EscapeFails(d.scal) \/ TopologyFails(d.topo)
    \/ LedgersFail(d.ledgers) \/ LineFails(d.topo, d.ledgers)
    \/ DutyFails(d.runs) \/ SpreadFails(d.decisions) \/ DegreeFails(d.topo)
    \/ LiteralsFail(d.spec, Quantities(d))
=============================================================================
