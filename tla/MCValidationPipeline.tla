------------------------ MODULE MCValidationPipeline ------------------------
(***************************************************************************)
(* ValidationPipeline with one protocol over CI and over CE, two seeds, a  *)
(* manuscript of six lines and two entries.                                *)
(***************************************************************************)
EXTENDS ValidationPipeline, PatchEntries

CiArm == <<"tom_pipeline">>
CeArm == <<"tom_ce">>
TwoSeeds == <<2, 3>>

\* Simulator runs: awake nodes per slot, and proposals <<start, end, committed>>.
Run(awake, windows) ==
    [series |-> [k \in DOMAIN awake |-> [slot |-> k - 1, awake |-> awake[k]]],
     proposals |-> [p \in DOMAIN windows |->
        [start |-> windows[p][1], end |-> windows[p][2],
         outcome |-> IF windows[p][3] THEN "committed" ELSE "aborted"]]]
Charge(awake) ==
    LET total == FoldLeft(LAMBDA s, n : s + n, 0, awake)
    IN [awake |-> total, asleep |-> 2 * Len(awake) - total]
Made(awake, windows) ==
    [series |-> Run(awake, windows).series, proposals |-> Run(awake, windows).proposals,
     charged |-> Charge(awake)]

Overlapping == <<<<0, 2, TRUE>>, <<1, 3, TRUE>>>>
Traces(revision, arm, seed) ==
    CASE arm = "tom_ce" /\ seed = 2 -> Made(<<2, 2, 2>>, <<<<0, 1, TRUE>>, <<1, 3, TRUE>>>>)
      [] arm = "tom_ce" /\ seed = 3 -> Made(<<2, 2, 2, 2>>, <<<<0, 2, TRUE>>, <<2, 4, TRUE>>>>)
      [] arm = "tom_pipeline" /\ seed = 3 ->
           Made(<<2, 1, 2, 1, 1>>, <<<<0, 3, TRUE>>, <<1, 4, TRUE>>, <<2, 4, TRUE>>>>)
      [] arm = "tom_pipeline" /\ seed = 2 /\ revision = 0 -> Made(<<2, 2, 1, 1>>, Overlapping)
      [] arm = "tom_pipeline" /\ seed = 2 /\ revision = 1 -> Made(<<2, 2, 2, 1>>, Overlapping)

(***************************************************************************)
(* The manuscript.                                                         *)
(***************************************************************************)
Features(long, retired, tbd, open, labels, refs, decimals) ==
    [long |-> long, retired |-> retired, tbd |-> tbd, open |-> open, labels |-> labels,
     refs |-> refs, decimals |-> decimals]
Plain == Features(FALSE, {}, 0, 0, {}, {}, {})
Decimal(digits, places) == [digits |-> digits, places |-> places]
Lines ==
    [l \in {"", "begin", "old", "label", "prose", "end", "new", "typo", "TBD", "see"} |->
       CASE l = "begin" -> [Plain EXCEPT !.open = 1]
         [] l = "end" -> [Plain EXCEPT !.open = -1]
         [] l = "old" -> [Plain EXCEPT !.retired = {"358"}]
         [] l = "label" -> [Plain EXCEPT !.labels = {"tab:depth"}]
         [] l = "prose" -> [Plain EXCEPT !.long = TRUE]
         [] l = "new" -> [Plain EXCEPT !.decimals = {Decimal(225, 2)}]
         [] l = "typo" -> [Plain EXCEPT !.decimals = {Decimal(999, 2)}]
         [] l = "TBD" -> [Plain EXCEPT !.tbd = 1]
         [] l = "see" -> [Plain EXCEPT !.refs = {"tab:depth"}, !.decimals = {Decimal(316, 2)}]
         [] OTHER -> Plain]
Agreed == <<"begin", "old", "label", "prose", "end", "">>
Edited == <<"begin", "new", "label", "prose", "end", "">>
Manuscripts == {Agreed, Edited}

Replacements == {<<"new">>, <<"typo">>, <<"see", "label">>}
Spans == {<<1, 1>>, <<1, 2>>, <<2, 2>>, <<2, 3>>, <<3, 4>>, <<5, 6>>, <<6, 7>>}
OneEntry == {Entry(s[1], s[2], r) : s \in Spans, r \in Replacements}
Lists == {<<e, f>> : e, f \in OneEntry} \cup {<<e>> : e \in OneEntry}

(***************************************************************************)
(* The other data files: a good set, and one with an arm short of a seed.  *)
(***************************************************************************)
TopologyRow(t, arm, seed, committed, awake, end, latency, aborted) ==
    [topology |-> t, arm |-> arm, seed |-> seed, committed |-> committed, proposals |-> 2,
     awake |-> awake, end_slot |-> end, latency |-> latency, aborted |-> aborted,
     timed_out |-> 0]
TopologyRows ==
    <<TopologyRow("line", "tom_pipeline", 2, 0, 5, 4, 0, 2),
      TopologyRow("line", "tom_pipeline", 3, 2, 6, 4, 5, 0),
      TopologyRow("line", "tom_ce", 2, 1, 10, 5, 3, 1),
      TopologyRow("line", "tom_ce", 3, 2, 8, 4, 4, 0)>>
    \o FlattenSeq([t \in 1 .. 2 |->
         LET name == <<"random", "scale_free">>[t] IN
         <<TopologyRow(name, "tom_pipeline", 2, 2, 6, 3, 4, 0),
           TopologyRow(name, "tom_pipeline", 3, 2, 6 + t, 4, 5, 0),
           TopologyRow(name, "tom_ce", 2, 2, 6, 3, 3, 0),
           TopologyRow(name, "tom_ce", 3, 2, 8, 4, 4, 0)>>])
Sweep == [k \in DOMAIN Loop |-> SweepRow(Loop[k][1], Loop[k][2])]
LedgerRuns ==
    [x \in {<<"tom_ce", 2>>} |->
       [here |-> TRUE, proposals |-> Run(<<2>>, <<<<0, 3, TRUE>>, <<3, 5, FALSE>>>>).proposals]]
GoodData == [scal |-> File(Sweep), topo |-> File(TopologyRows), ledgers |-> LedgerRuns]
Data == {GoodData, [GoodData EXCEPT !.topo = File(Tail(TopologyRows))]}
LineTopologies == {"line", "random", "scale_free"}
OneLedger == {2}

(***************************************************************************)
(* Every run of up to three slots with two windows.                        *)
(***************************************************************************)
SmallRuns ==
    UNION {{Run(awake, <<w1, w2>>) :
              awake \in [1 .. n -> 0 .. 2],
              w1 \in {<<a, n, TRUE>> : a \in 0 .. n},
              w2 \in {<<a, a + d, c>> : a \in 0 .. n - 1, d \in 0 .. 1, c \in BOOLEAN}} :
           n \in 1 .. 3}
=============================================================================
