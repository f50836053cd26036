----------------------------- MODULE ShadowWorker -----------------------------
(***************************************************************************)
(* The controller of the live paper workers                                *)
(* (engine/shadow_process_controller.py) and their runtime.lock            *)
(* (RuntimeLock in engine/live_paper_runtime.py).                          *)
(*                                                                         *)
(* A worker creates runtime.lock with O_CREAT|O_EXCL, fills in its pid in  *)
(* a second step and gives up if the file exists; it never looks for a     *)
(* stale one.  The controller does: it unlinks a lock whose pid is not a   *)
(* worker's, an empty one included.  The controller also keeps the pid in  *)
(* a metadata file.                                                        *)
(*                                                                         *)
(* A pid counts only while its command line can be read and holds the      *)
(* absolute path of live_paper.py and "--mode <mode>", so a recycled pid   *)
(* is no danger here.  A worker that somebody starts as "python            *)
(* live_paper.py --loop" has neither: the controller never finds it, takes *)
(* its lock for stale, starts a second worker beside it and reports a stop *)
(* while it runs.  What is promised of the workers holds until such an     *)
(* outsider has been started.                                              *)
(***************************************************************************)
EXTENDS Naturals, FiniteSets

CONSTANTS
    Worker,       \* worker processes, each launched once; also their pids
    Exact,        \* those whose command line is the one the controller looks for
    Controller,   \* sessions that call the controller
    NoPid,        \* no pid in a file
    NoFile,       \* runtime.lock does not exist
    Overlap,      \* TRUE: calls of several controllers may overlap
    Slow,         \* TRUE: a worker may still be without its lock when start() stops
                  \* waiting for it, or when the next call or launch comes
    Readable      \* FALSE: reading a live process's command line may fail

ASSUME WorkerAssumption ==
    /\ Exact \subseteq Worker
    /\ NoPid \notin Worker
    /\ Overlap \in BOOLEAN
    /\ Slow \in BOOLEAN
    /\ Readable \in BOOLEAN

VARIABLES
    lock,         \* runtime.lock: who created it, and whether the pid is in it
    metaPid,      \* pid in the metadata file
    worker,       \* what each worker is doing
    caller        \* place, request and local pid of each controller

vars == <<lock, metaPid, worker, caller>>

File == [by : Worker, filled : BOOLEAN]

ASSUME FileAssumption == NoFile \notin File

Alive == {"boot", "fill", "run"}
Asks == {"start", "stop", "restart"}
Place == {"idle", "meta", "lockpid", "kill", "stale", "judge", "record", "popen",
          "launched", "poll", "giveup"}

TypeOK ==
    /\ lock \in File \cup {NoFile}
    /\ metaPid \in Worker \cup {NoPid}
    /\ worker \in [Worker -> Alive \cup {"unborn", "dead"}]
    /\ caller \in [Controller -> [at : Place, asks : Asks, pid : Worker \cup {NoPid}]]

Live(w) == worker[w] \in Alive

\* _validated_process: a live process with the script's absolute path and the mode
\* in its command line ...
Validated(p) == p \in Exact /\ Live(p)

\* ... which _process_command may fail to read (OSError, PowerShell's timeout): no
\* command line, no worker.
Rejected(p) == ~Validated(p) \/ ~Readable

\* _lock_metadata: a missing or empty file has no pid.
LockPid == IF lock # NoFile /\ lock.filled THEN lock.by ELSE NoPid

Init ==
    /\ lock = NoFile
    /\ metaPid = NoPid
    /\ worker = [w \in Worker |-> "unborn"]
    /\ caller = [c \in Controller |-> [at |-> "idle", asks |-> "start", pid |-> NoPid]]

At(c, place) == caller[c].at = place
Goto(c, place) == caller' = [caller EXCEPT ![c].at = place]
WorkerGoto(w, place) == worker' = [worker EXCEPT ![w] = place]

-----------------------------------------------------------------------------
\* Plausible bugs: each replaces one of the definitions below in a run that
\* must then fail.

\* A lock without a readable pid is left alone.
JudgeStaleFilled(c) ==
    /\ At(c, "judge")
    /\ Rejected(caller[c].pid)
    /\ lock' = IF caller[c].pid = NoPid THEN lock ELSE NoFile
    /\ Goto(c, IF caller[c].asks = "start" THEN "popen" ELSE "record")
    /\ UNCHANGED <<metaPid, worker>>

\* The lock is removed whoever holds it: the controller has looked already.
RefuseRunningNever(c) ==
    /\ At(c, "judge")
    /\ Validated(caller[c].pid)
    /\ lock' = NoFile
    /\ Goto(c, IF caller[c].asks = "start" THEN "popen" ELSE "record")
    /\ UNCHANGED <<metaPid, worker>>

\* The lock is opened without O_EXCL.
CreateLockAnyway(w) ==
    /\ worker[w] = "boot"
    /\ lock' = [by |-> w, filled |-> FALSE]
    /\ WorkerGoto(w, "fill")
    /\ UNCHANGED <<metaPid, caller>>

\* The pid stays in a buffer: the file is written again and left empty.
FillLockAnew(w) ==
    /\ worker[w] = "fill"
    /\ lock' = [by |-> w, filled |-> FALSE]
    /\ WorkerGoto(w, "run")
    /\ UNCHANGED <<metaPid, caller>>

-----------------------------------------------------------------------------
(* The worker: RuntimeLock around its loop. *)

CreateLock(w) ==
    /\ worker[w] = "boot"
    /\ lock = NoFile
    /\ lock' = [by |-> w, filled |-> FALSE]
    /\ WorkerGoto(w, "fill")
    /\ UNCHANGED <<metaPid, caller>>

\* RuntimeAlreadyRunningError.
TurnedAway(w) ==
    /\ worker[w] = "boot"
    /\ lock # NoFile
    /\ WorkerGoto(w, "dead")
    /\ UNCHANGED <<lock, metaPid, caller>>

\* The pid goes into the file w created, which may have been unlinked.
FillLock(w) ==
    /\ worker[w] = "fill"
    /\ lock' = IF lock # NoFile /\ lock.by = w THEN [lock EXCEPT !.filled = TRUE] ELSE lock
    /\ WorkerGoto(w, "run")
    /\ UNCHANGED <<metaPid, caller>>

\* Ctrl+C or an exception: __exit__ unlinks whatever file is there.
Leave(w) ==
    /\ worker[w] = "run"
    /\ lock' = NoFile
    /\ WorkerGoto(w, "dead")
    /\ UNCHANGED <<metaPid, caller>>

\* Killed, or an exception before the lock: the file stays.
Crash(w) ==
    /\ Live(w)
    /\ WorkerGoto(w, "dead")
    /\ UNCHANGED <<lock, metaPid, caller>>

-----------------------------------------------------------------------------
(* The controller: start, stop and restart. *)

\* No other call is under way, and no worker on its way to its lock.
Undisturbed ==
    /\ Overlap \/ \A c \in Controller : At(c, "idle")
    /\ Slow \/ \A w \in Worker : worker[w] \notin {"boot", "fill"}

\* live_paper.py --loop in a terminal, without the controller, as the controller
\* would start it or not.
LaunchByHand(w) ==
    /\ worker[w] = "unborn"
    /\ Undisturbed
    /\ WorkerGoto(w, "boot")
    /\ UNCHANGED <<lock, metaPid, caller>>

Call(c, asks) ==
    /\ At(c, "idle")
    /\ Undisturbed
    /\ asks \in {"start", "restart"} => \E w \in Exact : worker[w] = "unborn"
    /\ caller' = [caller EXCEPT ![c] = [at |-> "meta", asks |-> asks, pid |-> NoPid]]
    /\ UNCHANGED <<lock, metaPid, worker>>

\* What follows once _running_pid has answered: a start of a running worker
\* returns it, a stop signals it; without one, the lock is looked at.
Answered(c, p) ==
    caller' = [caller EXCEPT ![c] =
        [@ EXCEPT !.pid = p,
                  !.at = CASE p = NoPid -> "stale"
                           [] p # NoPid /\ caller[c].asks = "start" -> "idle"
                           [] OTHER -> "kill"]]

\* _running_pid: first the metadata's pid, then the lock's.
ReadMeta(c) ==
    /\ At(c, "meta")
    /\ \/ Validated(metaPid) /\ Answered(c, metaPid)
       \/ Rejected(metaPid) /\ Goto(c, "lockpid")
    /\ UNCHANGED <<lock, metaPid, worker>>

ReadLockPid(c) ==
    /\ At(c, "lockpid")
    /\ \/ Validated(LockPid) /\ Answered(c, LockPid)
       \/ Rejected(LockPid) /\ Answered(c, NoPid)
    /\ UNCHANGED <<lock, metaPid, worker>>

\* SIGTERM, then up to ten seconds of waiting, then SIGKILL, for which nobody
\* waits. The worker has no handler: it dies with its lock in place.
Kill(c) ==
    /\ At(c, "kill")
    /\ worker' \in {worker, [worker EXCEPT ![caller[c].pid] = "dead"]}
    /\ Goto(c, "stale")
    /\ UNCHANGED <<lock, metaPid>>

\* _remove_stale_runtime_lock: no file, or the pid in the file ...
NothingStale(c) ==
    /\ At(c, "stale")
    /\ lock = NoFile
    /\ Goto(c, IF caller[c].asks = "start" THEN "popen" ELSE "record")
    /\ UNCHANGED <<lock, metaPid, worker>>

ReadStale(c) ==
    /\ At(c, "stale")
    /\ lock # NoFile
    /\ caller' = [caller EXCEPT ![c] = [@ EXCEPT !.at = "judge", !.pid = LockPid]]
    /\ UNCHANGED <<lock, metaPid, worker>>

\* ... is a worker's: "worker is already running" ...
RefuseRunning(c) ==
    /\ At(c, "judge")
    /\ Validated(caller[c].pid)
    /\ Goto(c, "idle")
    /\ UNCHANGED <<lock, metaPid, worker>>

\* ... or is nobody's: whatever file is there now is unlinked.
JudgeStale(c) ==
    /\ At(c, "judge")
    /\ Rejected(caller[c].pid)
    /\ lock' = NoFile
    /\ Goto(c, IF caller[c].asks = "start" THEN "popen" ELSE "record")
    /\ UNCHANGED <<metaPid, worker>>

\* "worker stopped safely"; a restart goes on with a start.
RecordStopped(c) ==
    /\ At(c, "record")
    /\ metaPid' = NoPid
    /\ caller' = [caller EXCEPT ![c] =
         IF @.asks = "restart" THEN [@ EXCEPT !.at = "meta", !.asks = "start"] ELSE [@ EXCEPT !.at = "idle"]]
    /\ UNCHANGED <<lock, worker>>

Popen(c) ==
    /\ At(c, "popen")
    /\ \E w \in Exact :
          /\ worker[w] = "unborn"
          /\ WorkerGoto(w, "boot")
          /\ caller' = [caller EXCEPT ![c] = [@ EXCEPT !.at = "launched", !.pid = w]]
    /\ UNCHANGED <<lock, metaPid>>

RecordLaunched(c) ==
    /\ At(c, "launched")
    /\ metaPid' = caller[c].pid
    /\ Goto(c, "poll")
    /\ UNCHANGED <<lock, worker>>

\* The lock names a worker: it is the one reported, whoever launched it.
Started(c) ==
    /\ At(c, "poll")
    /\ Live(caller[c].pid)
    /\ Validated(LockPid)
    /\ metaPid' = LockPid
    /\ Goto(c, "idle")
    /\ UNCHANGED <<lock, worker>>

\* The process has ended, or eight seconds have passed without a lock that names a
\* worker: none yet, one whose pid is not recognised, or none any more.
StopPolling(c) ==
    /\ At(c, "poll")
    /\ \/ ~Live(caller[c].pid)
       \/ Slow
       \/ worker[caller[c].pid] = "run" /\ Rejected(LockPid)
    /\ Goto(c, "giveup")
    /\ UNCHANGED <<lock, metaPid, worker>>

\* "worker failed during startup": its pid is forgotten, alive or not.
GiveUp(c) ==
    /\ At(c, "giveup")
    /\ metaPid' = NoPid
    /\ Goto(c, "idle")
    /\ UNCHANGED <<lock, worker>>

\* The session is closed or killed in the middle of a call.
Break(c) ==
    /\ ~At(c, "idle")
    /\ Goto(c, "idle")
    /\ UNCHANGED <<lock, metaPid, worker>>

CallStep(c) ==
    \/ ReadMeta(c) \/ ReadLockPid(c) \/ Kill(c) \/ NothingStale(c) \/ ReadStale(c)
    \/ RefuseRunning(c) \/ JudgeStale(c) \/ RecordStopped(c) \/ Popen(c)
    \/ RecordLaunched(c) \/ Started(c) \/ StopPolling(c) \/ GiveUp(c)

Next ==
    \/ \E c \in Controller : (\E asks \in Asks : Call(c, asks)) \/ CallStep(c) \/ Break(c)
    \/ \E w \in Worker :
          LaunchByHand(w) \/ CreateLock(w) \/ TurnedAway(w) \/ FillLock(w) \/ Leave(w) \/ Crash(w)

Spec == Init /\ [][Next]_vars

-----------------------------------------------------------------------------
\* No worker that the controller cannot recognise has ever been started.
NoOutsider == \A w \in Worker \ Exact : worker[w] = "unborn"

Running == {w \in Worker : worker[w] = "run"}

Sole == INSTANCE SoleRunner
            WITH Runner <- Worker, running <- IF NoOutsider THEN Running ELSE {}

\* "A real worker's lock is never stolen", so one worker at a time trades on
\* the account: kept when calls do not overlap, a worker has its lock before
\* start() stops waiting for it and command lines can be read, through crashes
\* that leave a full or an empty lock behind, until an outsider is started.
OneWorkerAtATime == Sole!Spec

\* After "stopped safely" no worker is alive, not even one about to boot, if there
\* was never an outsider.
StoppedIsStopped ==
    [][NoOutsider => \A c \in Controller : RecordStopped(c) => \A w \in Worker : ~Live(w)]_vars

\* A worker that runs is the one that status, stop and the next start find: in
\* the metadata file or in a lock that is its own, if there was never an outsider.
RunningWorkerIsFound ==
    NoOutsider =>
        \A w \in Running : (metaPid = w \/ lock = [by |-> w, filled |-> TRUE]) /\ Validated(w)

\* A stale lock, full or empty, never keeps a worker of the controller out, outsiders
\* or not: it is turned away only by another worker. One launched by hand has no
\* such help.
TurnedAwayOnlyByAWorker ==
    [][\A c \in Controller, w \in Worker :
          At(c, "poll") /\ caller[c].pid = w /\ TurnedAway(w) => \E v \in Worker \ {w} : Live(v)]_vars
=============================================================================
