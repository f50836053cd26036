----------------------------- MODULE ProcessLock -----------------------------
(***************************************************************************)
(* The single-process lock of the paper orchestrator                       *)
(* (freakto/paper/orchestrator.py, class ProcessLock).                     *)
(*                                                                         *)
(* orchestrator.lock is created with O_CREAT|O_EXCL and filled with the    *)
(* creator's pid in a second step; a launch that finds the file reads the  *)
(* pid, asks the operating system whether it is alive, and unlinks the     *)
(* file if it is not.  Nothing ties the unlink to the file that was read,  *)
(* and release() unlinks whatever file is there: the model keeps every one *)
(* of these system calls a step of its own.                                *)
(*                                                                         *)
(* A member of Pid is a process identifier and the process that has it.    *)
(* A killed process leaves the file behind; its pid may be given again to  *)
(* a new launch or to a foreign program (PidReuse).                        *)
(***************************************************************************)
EXTENDS Naturals, FiniteSets

CONSTANTS
    Pid,          \* process identifiers
    NoPid,        \* what an absent, empty or unparsable file yields (pid 0)
    NoFile,       \* orchestrator.lock does not exist
    Overlap,      \* TRUE: launches may overlap; FALSE: one launch at a time
    PidReuse      \* TRUE: the system may give a dead process's pid again

ASSUME PidAssumption == NoPid \notin Pid /\ Overlap \in BOOLEAN /\ PidReuse \in BOOLEAN

\* "for _ in range(2)" in acquire
MaxAttempts == 2

VARIABLES
    lockFile,       \* NoFile, or who created the file and whether the pid is in it
    lockPc,         \* what each process is doing
    lockAttempt,    \* round of acquire's loop
    found           \* pid the process read from the file

lockVars == <<lockFile, lockPc, lockAttempt, found>>

\* The pcs of a process inside acquire(), in the order of its system calls.
Acquiring == {"open", "write", "read", "probe", "unlink"}

File == [by : Pid, filled : BOOLEAN]

ASSUME FileAssumption == NoFile \notin File

LockTypeOK ==
    /\ lockFile \in File \cup {NoFile}
    /\ lockPc \in [Pid -> Acquiring \cup {"unborn", "held", "exiting", "dead", "foreign"}]
    /\ lockAttempt \in [Pid -> 1..MaxAttempts]
    /\ found \in [Pid -> Pid \cup {NoPid}]

LockInit ==
    /\ lockFile = NoFile
    /\ lockPc = [p \in Pid |-> "unborn"]
    /\ lockAttempt = [p \in Pid |-> 1]
    /\ found = [p \in Pid |-> NoPid]

\* _pid_alive: pid 0 is dead, one's own pid is alive, otherwise ask the system;
\* a foreign program that was given the pid answers like the orchestrator did.
PidAlive(p) == p \in Pid /\ lockPc[p] \notin {"unborn", "dead"}

Goto(p, label) == lockPc' = [lockPc EXCEPT ![p] = label]

-----------------------------------------------------------------------------
\* Plausible bugs: each replaces one of the definitions below in a run that
\* must then fail.

\* open() without O_EXCL.
CreateFileNotExclusive(p) ==
    /\ lockPc[p] = "open"
    /\ lockFile' = [by |-> p, filled |-> FALSE]
    /\ Goto(p, "write")
    /\ UNCHANGED <<lockAttempt, found>>

\* release() in a finally clause, without the acquired flag.
RefuseAndUnlink(p) ==
    /\ lockPc[p] = "probe"
    /\ PidAlive(found[p])
    /\ Goto(p, "dead")
    /\ lockFile' = NoFile
    /\ UNCHANGED <<lockAttempt, found>>

\* "while True" instead of two rounds, and an unlink that may fail unnoticed.
RemoveStaleForever(p) ==
    /\ lockPc[p] = "unlink"
    /\ lockFile' \in {lockFile, NoFile}
    /\ Goto(p, "open")
    /\ UNCHANGED <<lockAttempt, found>>

-----------------------------------------------------------------------------
\* A process starts and calls acquire(). The pid is a fresh one, or a dead
\* process's when the system reuses pids.
Acquire(p) ==
    /\ \/ lockPc[p] = "unborn"
       \/ PidReuse /\ lockPc[p] = "dead"
    /\ Overlap \/ \A q \in Pid : lockPc[q] \notin Acquiring
    /\ Goto(p, "open")
    /\ lockAttempt' = [lockAttempt EXCEPT ![p] = 1]
    /\ found' = [found EXCEPT ![p] = NoPid]
    /\ UNCHANGED lockFile

\* os.open(O_CREAT | O_EXCL) succeeds: the file exists and is empty.
CreateFile(p) ==
    /\ lockPc[p] = "open"
    /\ lockFile = NoFile
    /\ lockFile' = [by |-> p, filled |-> FALSE]
    /\ Goto(p, "write")
    /\ UNCHANGED <<lockAttempt, found>>

\* os.open raises FileExistsError.
FileExists(p) ==
    /\ lockPc[p] = "open"
    /\ lockFile # NoFile
    /\ Goto(p, "read")
    /\ UNCHANGED <<lockFile, lockAttempt, found>>

\* json.dump through the descriptor: it fills the file p created, which
\* another launch may have unlinked meanwhile. acquired = True.
WritePid(p) ==
    /\ lockPc[p] = "write"
    /\ lockFile' = IF lockFile # NoFile /\ lockFile.by = p
                     THEN [lockFile EXCEPT !.filled = TRUE]
                     ELSE lockFile
    /\ Goto(p, "held")
    /\ UNCHANGED <<lockAttempt, found>>

\* Reading the file: missing, empty or half-written, it is pid 0.
ReadPid(p) ==
    /\ lockPc[p] = "read"
    /\ found' = [found EXCEPT ![p] =
                   IF lockFile # NoFile /\ lockFile.filled THEN lockFile.by ELSE NoPid]
    /\ Goto(p, "probe")
    /\ UNCHANGED <<lockFile, lockAttempt>>

\* The recorded pid is alive: RuntimeError, main() returns 3.
Refuse(p) ==
    /\ lockPc[p] = "probe"
    /\ PidAlive(found[p])
    /\ Goto(p, "dead")
    /\ UNCHANGED <<lockFile, lockAttempt, found>>

\* The recorded pid is dead: the file counts as stale.
JudgeStale(p) ==
    /\ lockPc[p] = "probe"
    /\ ~PidAlive(found[p])
    /\ Goto(p, "unlink")
    /\ UNCHANGED <<lockFile, lockAttempt, found>>

\* path.unlink(missing_ok=True), then the loop's next round, or
\* "Could not acquire" after the last.
RemoveStale(p) ==
    /\ lockPc[p] = "unlink"
    /\ lockFile' = NoFile
    /\ IF lockAttempt[p] < MaxAttempts
         THEN Goto(p, "open") /\ lockAttempt' = [lockAttempt EXCEPT ![p] = @ + 1]
         ELSE Goto(p, "dead") /\ UNCHANGED lockAttempt
    /\ UNCHANGED found

\* __exit__: unlink without looking whose file it is; the process is still
\* alive for a while.
Release(p) ==
    /\ lockPc[p] = "held"
    /\ lockFile' = NoFile
    /\ Goto(p, "exiting")
    /\ UNCHANGED <<lockAttempt, found>>

Exit(p) ==
    /\ lockPc[p] = "exiting"
    /\ Goto(p, "dead")
    /\ UNCHANGED <<lockFile, lockAttempt, found>>

\* Killed, or an OSError that acquire() does not catch: the file stays.
Die(p) ==
    /\ lockPc[p] \in Acquiring \cup {"held"}
    /\ Goto(p, "dead")
    /\ UNCHANGED <<lockFile, lockAttempt, found>>

\* The system gives a dead process's pid to a program that is no orchestrator,
\* and that program ends.
Recycle(p) ==
    /\ PidReuse
    /\ \/ lockPc[p] = "dead" /\ Goto(p, "foreign")
       \/ lockPc[p] = "foreign" /\ Goto(p, "dead")
    /\ UNCHANGED <<lockFile, lockAttempt, found>>

\* The steps acquire() takes by itself once called.
AcquireStep(p) ==
    \/ CreateFile(p) \/ FileExists(p) \/ WritePid(p) \/ ReadPid(p)
    \/ Refuse(p) \/ JudgeStale(p) \/ RemoveStale(p)

LockNext ==
    \E p \in Pid :
        Acquire(p) \/ AcquireStep(p) \/ Release(p) \/ Exit(p) \/ Die(p) \/ Recycle(p)

LockSpec == LockInit /\ [][LockNext]_lockVars

\* acquire() never waits: the scheduler keeps running it. Releases, crashes and
\* launches carry no fairness.
LockFairSpec == LockSpec /\ \A p \in Pid : WF_lockVars(AcquireStep(p))

-----------------------------------------------------------------------------
Holders == {p \in Pid : lockPc[p] = "held"}

\* Two orchestrators never run their cycles at once. The runbook promises it of
\* every launch; the code keeps it when launches do not overlap, whatever
\* crashes, half-written files and recycled pids the file meets in between.
MutualExclusion == \A p, q \in Holders : p = q

\* The same as a protocol: an orchestrator begins its cycles when none is at
\* work, and ends them before the next one begins.
Sole == INSTANCE SoleRunner WITH Runner <- Pid, running <- Holders

OneOrchestratorAtATime == Sole!Spec

\* While an orchestrator runs, the file is its own and says so: no recovery of
\* an older file ever removed or replaced it.
HolderOwnsTheFile == \A p \in Holders : lockFile = [by |-> p, filled |-> TRUE]

\* A running orchestrator whose file is in place and readable, when no other
\* process is past the point where it judges an older file.
Settled(p) ==
    /\ lockPc[p] = "held"
    /\ lockFile = [by |-> p, filled |-> TRUE]
    /\ \A q \in Pid \ {p} :
          /\ lockPc[q] \notin {"write", "held", "unlink"}
          /\ lockPc[q] = "probe" => found[q] = p

\* However launches overlap, a settled lock stays settled until its holder
\* releases it or dies: the window in which the lock can be stolen is closed
\* for good once the launches that judged an older file are done.
SettledLockStays == [][\A p \in Pid : Settled(p) => Settled(p)' \/ lockPc'[p] # "held"]_lockVars

\* acquire() answers every launch: two rounds, whatever the others do.
LaunchIsAnswered == \A p \in Pid : lockPc[p] = "open" ~> lockPc[p] \in {"held", "dead"}

=============================================================================
