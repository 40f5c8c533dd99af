-------------------------- MODULE MCFigurePipeline --------------------------
(***************************************************************************)
(* FigurePipeline with two protocols, two seeds and a few commands.        *)
(***************************************************************************)
EXTENDS FigurePipeline

TwoProtocols == <<"paxos", "paxos_ce">>
TwoSeeds == <<2, 47>>
Keys == {"energy"}
HandRun == {"plot_paper_energy", "plot_kde_no_run", "audit_sources_210b"}
=============================================================================
