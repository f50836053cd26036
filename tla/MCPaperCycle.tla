----------------------------- MODULE MCPaperCycle -----------------------------
(***************************************************************************)
(* PaperCycle on small instances: what the operator may type, the steps of *)
(* a cycle and how far the cycle count goes are set per configuration.     *)
(* The steps left out of a short list behave like one that is in it: they  *)
(* only pass or fail.                                                      *)
(***************************************************************************)
EXTENDS PaperCycle

\* cli_arm takes the same steps as arm_strategy, to a lower mode, and
\* arm_research and cli_disarm those of arm_strategy and disarm.
Mix == {"disarm", "arm_strategy", "signal"}

TwoLevels == {"RESEARCH", "STRATEGY"}

MonitorScan == <<"market_monitor", "paper_scan">>
FreshOnly == <<"fresh_oos_replay">>
=============================================================================
