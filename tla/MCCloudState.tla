----------------------------- MODULE MCCloudState -----------------------------
(* A small instance of CloudState for TLC: see the configurations. *)
EXTENDS CloudState

CONSTANTS history, decisions, ledger

AllFiles == {history, decisions, ledger}
StateFiles == {history, decisions}
Directories == {history}
=============================================================================
