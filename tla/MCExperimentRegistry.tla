------------------------- MODULE MCExperimentRegistry -------------------------
(***************************************************************************)
(* ExperimentRegistry on small instances.                                  *)
(***************************************************************************)
EXTENDS ExperimentRegistry, TLC

CONSTANTS c1, c2, h1, h2, i1, i2

Symmetry == Permutations({c1, c2}) \cup Permutations({h1, h2}) \cup Permutations({i1, i2})
=============================================================================
