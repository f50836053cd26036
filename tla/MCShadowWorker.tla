---------------------------- MODULE MCShadowWorker ----------------------------
(***************************************************************************)
(* ShadowWorker on small instances: the controllers do the same, and so do *)
(* the workers of each kind.                                               *)
(***************************************************************************)
EXTENDS ShadowWorker, TLC

Alike == Permutations(Controller) \cup Permutations(Exact) \cup Permutations(Worker \ Exact)
=============================================================================
