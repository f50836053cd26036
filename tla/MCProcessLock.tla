---------------------------- MODULE MCProcessLock ----------------------------
(***************************************************************************)
(* ProcessLock with three interchangeable pids.                            *)
(***************************************************************************)
EXTENDS ProcessLock, TLC

PidSymmetry == Permutations(Pid)
=============================================================================
