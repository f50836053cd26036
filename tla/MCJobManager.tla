----------------------------- MODULE MCJobManager -----------------------------
(***************************************************************************)
(* JobManager on small instances.                                          *)
(***************************************************************************)
EXTENDS JobManager

CONSTANT Long    \* a job whose plan has two steps; the others have one

Plan == [j \in Job |-> IF j = Long THEN 2 ELSE 1]

\* A session may go away while it lists the jobs or before it has launched the
\* worker; from Popen to the write of the pid, and from the cancel file to the
\* status, it completes.
BeforeLaunch == {"read", "probe", "settle", "queue", "popen"}
=============================================================================
