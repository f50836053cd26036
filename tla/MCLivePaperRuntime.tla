-------------------------- MODULE MCLivePaperRuntime --------------------------
(***************************************************************************)
(* LivePaperRuntime with one process at a time and interchangeable memes.  *)
(***************************************************************************)
EXTENDS LivePaperRuntime, TLC

MemeSymmetry == Permutations(Meme)
=============================================================================
