----------------------------- MODULE MCPaperLedger -----------------------------
(***************************************************************************)
(* PaperLedger on four signals against the limits and a portfolio trade    *)
(* whose entry the evaluator's window leaves behind.                       *)
(***************************************************************************)
EXTENDS PaperLedger

\* Signals 1 to 4, the first two of one symbol, then a portfolio trade.
LimitSignals == 1..4
LimitPortfolio == {5}
LimitSymbol == <<"btc", "btc", "eth", "sol", "xrp">>
LimitBorn == <<1, 1, 2, 2, 1>>

Moving == {"quiet", "stop", "target"}
AnyAnswer == {"fails", "empty", "late", "current"}
=============================================================================
