------------------------------ MODULE SoleRunner ------------------------------
(***************************************************************************)
(* What a single-instance guard of the program promises: of the processes  *)
(* that could run, at most one does, and the next one begins only after    *)
(* the last one has ended.  ProcessLock and ShadowWorker each implement it *)
(* in their own way.                                                       *)
(***************************************************************************)
CONSTANT Runner

VARIABLE running        \* the runners that are at work

Init == running = {}

Begin(r) ==
    /\ running = {}
    /\ running' = {r}

End(r) ==
    /\ running = {r}
    /\ running' = {}

Next == \E r \in Runner : Begin(r) \/ End(r)

Spec == Init /\ [][Next]_running
=============================================================================
