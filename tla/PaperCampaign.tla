----------------------------- MODULE PaperCampaign -----------------------------
(***************************************************************************)
(* The manager of the 60-day paper campaign (freakto/paper/campaign.py)    *)
(* and the worker it launches (freakto/paper/orchestrator.py --loop).      *)
(*                                                                         *)
(* Callers are command lines and sessions of the control center.  Each     *)
(* reads state.json, decides, and writes its own copy back; none takes a   *)
(* lock.  Manager and worker meet in two places: the pid in state.json and *)
(* campaign_stop.flag.  The worker is alone thanks to its process lock     *)
(* (module ProcessLock), of which this module keeps the holder only.       *)
(***************************************************************************)
EXTENDS Naturals, FiniteSets

CONSTANTS
    Callers,    \* processes that call status, start and stop, at the same time
    CrashAt,    \* places where a caller may die
    NoPid,      \* "pid": None
    MaxLaunch,  \* bound on launches; the n-th worker has pid n
    MaxWindow   \* bound on observation windows opened

Pids == 1..MaxLaunch

\* An orchestrator that an operator runs by hand (--once) under the same lock.
ByHand == 0

\* Where a caller is between two of its accesses to what others can see.
Places == {"decide", "arm", "unflag", "starting", "launch", "running", "failed", "flag", "request"}

ASSUME CampaignAssumption ==
    /\ CrashAt \subseteq Places
    /\ MaxLaunch \in Nat /\ MaxWindow \in Nat /\ NoPid \notin Nat

VARIABLES
    state,      \* state.json: status, pid and the start of the observation window
    stopFlag,   \* campaign_stop.flag exists
    caller,     \* per caller: its command, where it is and its copy of the state
    worker,     \* per pid: none yet, booting, waiting, in a cycle, exited
    holder,     \* who holds orchestrator.lock
    foreign,    \* pids of dead workers that answer: not reaped yet or given to another program
    launches,   \* workers launched so far
    clock       \* windows opened so far: utc_now() of a start that resumes nothing

vars == <<state, stopFlag, caller, worker, holder, foreign, launches, clock>>

-----------------------------------------------------------------------------
Active == {"STARTING", "RUNNING", "STOP_REQUESTED"}

Resumable == {"STOPPED", "STALE_RECOVERED"}

Statuses == Active \cup Resumable \cup {"NOT_STARTED", "FAILED"}

File == [status : Statuses, pid : Pids \cup {NoPid}, started : 0..MaxWindow]

Empty == [status |-> "NOT_STARTED", pid |-> NoPid, started |-> 0]

Alive == {"booting", "waiting", "cycling", "stopping"}

TypeOK ==
    /\ state \in File
    /\ stopFlag \in BOOLEAN
    /\ caller \in [Callers -> [command : {"none", "status", "start", "stop"},
                               at : {"idle"} \cup Places,
                               copy : File]]
    /\ worker \in [Pids -> {"none", "exited"} \cup Alive]
    /\ holder \in Pids \cup {NoPid, ByHand}
    /\ foreign \subseteq Pids
    /\ launches \in 0..MaxLaunch /\ clock \in 0..MaxWindow

Idle == [command |-> "none", at |-> "idle", copy |-> Empty]

\* A caller goes on, with the copy of the state it holds now, or is done.
Continue(c, at, copy) ==
    caller' = [caller EXCEPT ![c] = [command |-> @.command, at |-> at, copy |-> copy]]

Done(c) == caller' = [caller EXCEPT ![c] = Idle]

Init ==
    /\ state = Empty /\ stopFlag = FALSE
    /\ caller = [c \in Callers |-> Idle]
    /\ worker = [p \in Pids |-> "none"]
    /\ holder = NoPid /\ foreign = {}
    /\ launches = 0 /\ clock = 0

-----------------------------------------------------------------------------
(***************************************************************************)
(* Plausible bugs, used only to show that the properties can fail.         *)
(***************************************************************************)
\* A stop that was asked for counts as done.
RecoveredTooSoon(s) ==
    CASE s.status = "RUNNING" /\ s.pid # NoPid /\ worker[s.pid] \notin Alive ->
             [s EXCEPT !.status = "STALE_RECOVERED"]
      [] s.status = "STOP_REQUESTED" -> [s EXCEPT !.status = "STOPPED"]
      [] OTHER -> s

\* Only a running campaign is recovered: a stop that was asked for stays asked for.
RecoveredRunningOnly(s) ==
    IF s.status = "RUNNING" /\ worker[s.pid] \notin Alive /\ s.pid \notin foreign
      THEN [s EXCEPT !.status = "STALE_RECOVERED"] ELSE s

\* A campaign that is stopping may be started again.
DecideRunningOnly(c) ==
    /\ caller[c].at = "decide"
    /\ state' = IF caller[c].copy.status = "NOT_STARTED" THEN state ELSE caller[c].copy
    /\ LET goesOn == \/ caller[c].command = "start" /\ caller[c].copy.status # "RUNNING"
                     \/ caller[c].command = "stop" /\ caller[c].copy.status = "RUNNING"
       IN  IF goesOn
             THEN Continue(c, IF caller[c].command = "start" THEN "arm" ELSE "flag", caller[c].copy)
             ELSE Done(c)
    /\ UNCHANGED <<stopFlag, worker, holder, foreign, launches, clock>>

\* A campaign recovered as stale opens a new window.
StartingAfresh(c) ==
    /\ caller[c].at = "starting" /\ clock < MaxWindow
    /\ LET resumes == state.status = "STOPPED"
           next == [status |-> "STARTING", pid |-> NoPid,
                    started |-> IF resumes THEN state.started ELSE clock + 1]
       IN  /\ state' = next
           /\ clock' = IF resumes THEN clock ELSE clock + 1
           /\ Continue(c, "launch", next)
    /\ UNCHANGED <<stopFlag, worker, holder, foreign, launches>>

\* The loop does not look for the flag before a cycle.
BeginCycleRegardless(p) ==
    /\ worker[p] = "waiting"
    /\ worker' = [worker EXCEPT ![p] = "cycling"]
    /\ UNCHANGED <<state, stopFlag, caller, launches, clock, holder, foreign>>

-----------------------------------------------------------------------------
\* _pid_liveness: os.kill(pid, 0) finds a program, whoever it is.
Exists(p) == p # NoPid /\ (worker[p] \in Alive \/ p \in foreign)

\* _recover_process_state.  The heartbeat's identity only labels the result.
Recovered(s) ==
    IF Exists(s.pid) THEN s
    ELSE CASE s.status = "RUNNING" -> [s EXCEPT !.status = "STALE_RECOVERED"]
           [] s.status = "STOP_REQUESTED" -> [s EXCEPT !.status = "STOPPED"]
           [] OTHER -> s

Goto(c, at) == Continue(c, at, caller[c].copy)

managed == <<state, stopFlag>>
workers == <<worker, holder, foreign>>

\* A caller begins: campaign_status reads the state and recovers its copy.
Call(c, command) ==
    /\ caller[c] = Idle
    /\ command = "start" => launches < MaxLaunch /\ clock < MaxWindow
    /\ caller' = [caller EXCEPT ![c] =
                    [command |-> command, at |-> "decide", copy |-> Recovered(state)]]
    /\ UNCHANGED <<managed, workers, launches, clock>>

\* campaign_status ends with a write of the copy; without a state it writes
\* nothing.  Then start refuses an active campaign and stop an inactive one.
Decide(c) ==
    /\ caller[c].at = "decide"
    /\ state' = IF caller[c].copy.status = "NOT_STARTED" THEN state ELSE caller[c].copy
    /\ LET goesOn == \/ caller[c].command = "start" /\ caller[c].copy.status \notin Active
                     \/ caller[c].command = "stop" /\ caller[c].copy.status \in {"STARTING", "RUNNING"}
       IN  IF goesOn
             THEN Goto(c, IF caller[c].command = "start" THEN "arm" ELSE "flag")
             ELSE Done(c)
    /\ UNCHANGED <<stopFlag, workers, launches, clock>>

-----------------------------------------------------------------------------
\* Preflight and arm-research, two command lines of their own, may refuse.
Arm(c) ==
    /\ caller[c].at = "arm"
    /\ \/ Goto(c, "unflag")
       \/ Done(c)
    /\ UNCHANGED <<managed, workers, launches, clock>>

Unflag(c) ==
    /\ caller[c].at = "unflag"
    /\ stopFlag' = FALSE
    /\ Goto(c, "starting")
    /\ UNCHANGED <<state, workers, launches, clock>>

\* The previous state is read again; a resumable one hands over its window.
Starting(c) ==
    /\ caller[c].at = "starting" /\ clock < MaxWindow
    /\ LET resumes == state.status \in Resumable
           next == [status |-> "STARTING", pid |-> NoPid,
                    started |-> IF resumes THEN state.started ELSE clock + 1]
       IN  /\ state' = next
           /\ clock' = IF resumes THEN clock ELSE clock + 1
           /\ Continue(c, "launch", next)
    /\ UNCHANGED <<stopFlag, workers, launches>>

\* Popen.
Launch(c) ==
    /\ caller[c].at = "launch"
    /\ launches < MaxLaunch
    /\ LET pid == launches + 1
       IN  /\ worker' = [worker EXCEPT ![pid] = "booting"]
           /\ launches' = pid
           /\ Continue(c, "running", [caller[c].copy EXCEPT !.status = "RUNNING", !.pid = pid])
    /\ UNCHANGED <<managed, holder, foreign, clock>>

LaunchFails(c) ==
    /\ caller[c].at = "launch"
    /\ Continue(c, "failed", [caller[c].copy EXCEPT !.status = "FAILED"])
    /\ UNCHANGED <<managed, workers, launches, clock>>

\* The last write of a start; campaign_status follows once the launch was good.
WriteLaunched(c) ==
    /\ caller[c].at \in {"running", "failed"}
    /\ state' = caller[c].copy
    /\ caller' = [caller EXCEPT ![c] =
                    IF caller[c].at = "failed" THEN Idle
                    ELSE [command |-> "status", at |-> "decide",
                          copy |-> Recovered(caller[c].copy)]]
    /\ UNCHANGED <<stopFlag, workers, launches, clock>>

-----------------------------------------------------------------------------
\* stop_campaign: the flag, then the state.
Flag(c) ==
    /\ caller[c].at = "flag"
    /\ stopFlag' = TRUE
    /\ Goto(c, "request")
    /\ UNCHANGED <<state, workers, launches, clock>>

Request(c) ==
    /\ caller[c].at = "request"
    /\ state' = [caller[c].copy EXCEPT !.status = "STOP_REQUESTED"]
    /\ Done(c)
    /\ UNCHANGED <<stopFlag, workers, launches, clock>>

CallerCrash(c) ==
    /\ caller[c].at \in CrashAt
    /\ Done(c)
    /\ UNCHANGED <<managed, workers, launches, clock>>

-----------------------------------------------------------------------------
outside == <<managed, caller, launches, clock>>

\* The worker takes the process lock or leaves with exit code 3.
Boot(p) ==
    /\ worker[p] = "booting"
    /\ IF holder = NoPid
         THEN holder' = p /\ worker' = [worker EXCEPT ![p] = "waiting"]
         ELSE UNCHANGED holder /\ worker' = [worker EXCEPT ![p] = "exited"]
    /\ UNCHANGED <<outside, foreign>>

\* run_loop waits for the next candle and looks for the flag while it does.
SeeFlag(p) ==
    /\ worker[p] = "waiting" /\ stopFlag
    /\ worker' = [worker EXCEPT ![p] = "stopping"]
    /\ UNCHANGED <<outside, holder, foreign>>

\* A candle closed and the flag was not there at the last look.
BeginCycle(p) ==
    /\ worker[p] = "waiting" /\ ~stopFlag
    /\ worker' = [worker EXCEPT ![p] = "cycling"]
    /\ UNCHANGED <<outside, holder, foreign>>

EndCycle(p) ==
    /\ worker[p] = "cycling"
    /\ worker' = [worker EXCEPT ![p] = "waiting"]
    /\ UNCHANGED <<outside, holder, foreign>>

\* The lock is released; a lock file left by a dead holder is stale at once.
Leave(p) ==
    /\ holder' = IF holder = p THEN NoPid ELSE holder
    /\ worker' = [worker EXCEPT ![p] = "exited"]
    /\ UNCHANGED <<outside, foreign>>

Stop(p) == worker[p] = "stopping" /\ Leave(p)

WorkerCrash(p) == worker[p] \in Alive /\ Leave(p)

RunByHand ==
    /\ holder \in {NoPid, ByHand}
    /\ holder' = IF holder = NoPid THEN ByHand ELSE NoPid
    /\ UNCHANGED <<outside, worker, foreign>>

\* os.kill finds a dead worker while its parent has not reaped it and when the
\* system has given its pid to another program.
Recycle(p) ==
    /\ worker[p] = "exited"
    /\ foreign' = IF p \in foreign THEN foreign \ {p} ELSE foreign \cup {p}
    /\ UNCHANGED <<outside, worker, holder>>

Caller(c) ==
    \/ \E command \in {"status", "start", "stop"} : Call(c, command)
    \/ Decide(c) \/ Arm(c) \/ Unflag(c) \/ Starting(c) \/ Launch(c) \/ LaunchFails(c)
    \/ WriteLaunched(c) \/ Flag(c) \/ Request(c) \/ CallerCrash(c)

WorkerStep(p) == Boot(p) \/ SeeFlag(p) \/ BeginCycle(p) \/ EndCycle(p) \/ Stop(p)

Next ==
    \/ \E c \in Callers : Caller(c)
    \/ \E p \in Pids : WorkerStep(p) \/ WorkerCrash(p) \/ Recycle(p)
    \/ RunByHand

Spec == Init /\ [][Next]_vars

\* The worker's loop runs on: it sleeps 30 seconds at most between two looks at
\* the flag, and a cycle ends (CycleEnds of PaperCycle).
FairSpec == Spec /\ \A p \in Pids : WF_vars(WorkerStep(p))

-----------------------------------------------------------------------------
\* The control center shows "The Paper campaign is stopped." for STOPPED: once the
\* calls under way have ended no worker is left, and the same for a campaign
\* recovered as stale.
ReportedStopIsReal ==
    state.status \in Resumable /\ (\A c \in Callers : caller[c] = Idle)
        => \A p \in Pids : worker[p] \notin Alive

\* A worker that runs is the one the state names, unless a start is under way: the
\* operator can always stop what collects evidence.
WorkerIsManaged ==
    \A p \in Pids : worker[p] \in {"waiting", "cycling"} =>
        \/ state.pid = p /\ state.status \in Active
        \/ \E c \in Callers : caller[c].at = "running" /\ caller[c].copy.pid = p

\* "The Paper campaign is already active.": a start is refused only while some program
\* answers under the recorded pid, the worker or another that was given its pid. A stop
\* that was asked for, a worker that died and a finished launch leave nothing that refuses
\* for good; a start that dies inside its launch does (STARTING), and no run has that.
RefusedOnlyWhileAlive ==
    [][\A c \in Callers :
          /\ caller[c] = Idle /\ caller'[c].command = "start"
          /\ caller'[c].copy.status \in Active
          => Exists(caller'[c].copy.pid)]_vars

\* The observation window of 60 days survives every stop, crash and restart of
\* the worker; only a launch that failed loses it.
WindowKept ==
    [][state'.started # state.started => state.status \in {"NOT_STARTED", "FAILED"}]_vars

\* A worker alive when the flag is set stops: no start takes the flag away first.
StopIsObeyed ==
    \A p \in Pids : (stopFlag /\ worker[p] \in Alive) ~> worker[p] = "exited"
=============================================================================
