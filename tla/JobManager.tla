------------------------------ MODULE JobManager ------------------------------
(***************************************************************************)
(* Background jobs of the control center (freakto/ui/job_manager.py and    *)
(* control_center_worker.py).                                              *)
(*                                                                         *)
(* Every job has a directory with state.json and a file cancel.requested.  *)
(* Callers (pages of the control center, the automation scheduler) and the *)
(* job's worker process all read state.json, change a copy and write the   *)
(* copy back; nothing orders these writes, and all of them go through one  *)
(* state.tmp, which is opened, filled and renamed.  Two writes that        *)
(* overlap share that file: what becomes state.json may be empty, garbled  *)
(* or the other's text, and the second rename finds no file and raises.    *)
(* An unreadable state.json reads as {}: nobody's job.                     *)
(*                                                                         *)
(* A caller decides whether a job is over by its recorded pid, which may   *)
(* answer after the worker has ended: a zombie is reaped when its session  *)
(* starts another process, and another program may be given the pid.       *)
(*                                                                         *)
(* Files behave as on POSIX: a writer keeps the file it has opened when    *)
(* that file is renamed.                                                   *)
(***************************************************************************)
EXTENDS Naturals, FiniteSets

CONSTANTS
    Job,          \* job identifiers, one for each start
    Caller,       \* sessions that call the job manager
    Steps,        \* number of steps of each job's plan
    Overlap,      \* TRUE: calls of several callers may overlap
    BlindStart,   \* FALSE bounds a run: no start goes on that met an unreadable file
    Breakable     \* places of a call at which its caller may be killed

ASSUME JobAssumption ==
    /\ Job # {}
    /\ Job \cap Caller = {}
    /\ Steps \in [Job -> Nat]
    /\ Overlap \in BOOLEAN /\ BlindStart \in BOOLEAN

VARIABLES
    state,        \* content of state.json of each job
    pen,          \* each writer's file: not open, state.tmp, already state.json, or gone
    stray,        \* what a killed writer left in a state.tmp that others still write
    flag,         \* jobs whose cancel.requested exists
    worker,       \* what each job's worker process is doing, or how it ended
    reached,      \* verdicts a job's worker has come to; only remembered
    left,         \* steps of the plan the worker has still to do
    late,         \* steps begun after the cancel request; only remembered
    caller        \* place, request and local variables of each caller

files == <<state, pen, stray>>
process == <<worker, reached, left, late>>
vars == <<files, flag, process, caller>>

ACTIVE == {"QUEUED", "RUNNING", "CANCEL_REQUESTED"}
TERMINAL == {"SUCCEEDED", "FAILED", "CANCELLED", "INTERRUPTED"}

\* Statuses whose pid reconcile() looks up; QUEUED is not one of them.
Probed == {"RUNNING", "CANCEL_REQUESTED"}

\* A content: its status, and whether the worker's pid is in it.
Content == [status : ACTIVE \cup TERMINAL \cup {"none", "blank", "garbled"}, pid : BOOLEAN]

NoFile == [status |-> "none", pid |-> FALSE]      \* the file does not exist
Blank == [status |-> "blank", pid |-> FALSE]      \* opened, nothing written yet
Garbled == [status |-> "garbled", pid |-> FALSE]  \* a text over a longer one
Queued == [status |-> "QUEUED", pid |-> FALSE]
Failed == [status |-> "FAILED", pid |-> FALSE]

\* read_state() returns something else than {}.
Readable(s) == s.status \in ACTIVE \cup TERMINAL

\* Places at which the worker writes the state, the last of which are its verdict.
LastWrite == {"won", "off", "lost", "raised"}
WorkerWrites == {"enroll", "begin", "keep"} \cup LastWrite
Verdict == {"SUCCEEDED", "FAILED", "CANCELLED"}
Working == {"boot", "look", "work"} \cup WorkerWrites

Request == {"page", "start", "cancel", "retry"}
CallWrites == {"settle", "queue", "fail", "pid", "request"}
Place == {"idle", "read", "probe", "popen", "reread"} \cup CallWrites

Writer == Job \cup Caller

TypeOK ==
    /\ state \in [Job -> Content] /\ stray \in [Job -> Content]
    /\ pen \in [Writer -> {"shut", "temp", "state", "gone"}]
    /\ flag \subseteq Job
    /\ worker \in [Job -> Working \cup {"none", "over"}]
    /\ reached \in [Job -> SUBSET Verdict]
    /\ left \in [Job -> Nat]
    /\ late \in [Job -> Nat]
    /\ caller \in [Caller -> [at : Place, asks : Request, job : Job, todo : SUBSET Job,
                              copy : Content, busy : BOOLEAN, blind : BOOLEAN]]

Status(j) == state[j].status

Live(j) == worker[j] \in Working

\* Alive, and not about to write how the job ended.
AtWork(j) == worker[j] \in Working \ LastWrite

Known == {j \in Job : state[j] # NoFile}

\* Jobs that some start has already taken.
Begun == Known \cup {caller[c].job : c \in {d \in Caller : caller[d].at = "queue"}}

\* A caller between two calls, with no local variables; blind only remembers that
\* the listing of this call met a file it could not read.
Idle == [at |-> "idle", asks |-> "page", job |-> CHOOSE j \in Job : TRUE, todo |-> {},
         copy |-> Queued, busy |-> FALSE, blind |-> FALSE]

Init ==
    /\ state = [j \in Job |-> NoFile] /\ stray = [j \in Job |-> NoFile]
    /\ pen = [w \in Writer |-> "shut"]
    /\ flag = {}
    /\ worker = [j \in Job |-> "none"] /\ reached = [j \in Job |-> {}]
    /\ left = Steps
    /\ late = [j \in Job |-> 0]
    /\ caller = [c \in Caller |-> Idle]

Goto(c, place) == caller' = [caller EXCEPT ![c].at = place]
Return(c) == caller' = [caller EXCEPT ![c] = Idle]
WorkerGoto(j, place) == worker' = [worker EXCEPT ![j] = place]

\* A worker that has ended has no local variables; what was remembered of its steps
\* is of no more use.
WorkerEnds(j) ==
    /\ WorkerGoto(j, "over")
    /\ left' = [left EXCEPT ![j] = 0]
    /\ late' = [late EXCEPT ![j] = 0]

-----------------------------------------------------------------------------
\* Plausible bugs: each replaces one of the definitions below in a run that
\* must then fail.

\* Only RUNNING counts as active when a start looks for other jobs.
SeenBusyRunning(busy, s) == busy \/ s.status = "RUNNING"

\* A job that was asked to cancel is left to its worker.
IsProbedRunning(status) == status = "RUNNING"

\* The starter leaves it to the worker to write its pid.
WithoutPid(s) == s

\* A cancel marks the job as cancelled at once.
RequestedAsDone(s) == [s EXCEPT !.status = "CANCELLED"]

\* The worker looks only before its first step.
CancelledBeforeWork(j) == j \in flag /\ worker[j] = "look" /\ left[j] = Steps[j]

-----------------------------------------------------------------------------
(* write_state(), by a worker or by a caller: open, fill, rename. What is  *)
(* in state.tmp can be seen only once it is renamed, so that it is chosen   *)
(* then, among what the writers that have it open may have put there.      *)

FileOf(w) == IF w \in Job THEN w ELSE caller[w].job

Writes(w) == IF w \in Job THEN worker[w] \in WorkerWrites ELSE caller[w].at \in CallWrites

\* What the worker writes: its own pid, and the status it is at.
WorkerText(place) ==
    [status |-> CASE place = "won" -> "SUCCEEDED"
                  [] place = "off" -> "CANCELLED"
                  [] place \in {"lost", "raised"} -> "FAILED"
                  [] OTHER -> "RUNNING",
     pid |-> TRUE]

Text(w) == IF w \in Job THEN WorkerText(worker[w]) ELSE caller[w].copy

\* Writers of the file of w, other than w, that have it open at a place.
Others(w, place) == {v \in Writer \ {w} : pen[v] = place /\ FileOf(v) = FileOf(w)}

\* write_text() creates the file or empties it, whoever else is writing it.
Open(w) ==
    /\ Writes(w) /\ pen[w] = "shut"
    /\ pen' = [pen EXCEPT ![w] = "temp"]
    /\ stray' = [stray EXCEPT ![FileOf(w)] = NoFile]
    /\ UNCHANGED <<state, flag, process, caller>>

\* The content of state.tmp when w renames it and those in done have filled it: the
\* text of one of them, a mixture of two, or nothing if a writer has just opened it.
InTemp(w, done) ==
    LET dead == {stray[FileOf(w)]} \ {NoFile}
        fillers == done \cup (IF pen[w] = "temp" THEN {w} ELSE {})
        mixed == \E v \in fillers : dead # {} \/ fillers # {v}
        emptied == Others(w, "temp") # done
    IN  {Text(v) : v \in fillers} \cup dead
            \cup (IF mixed THEN {Garbled} ELSE {}) \cup (IF emptied THEN {Blank} ELSE {})

\* os.replace(): w is done, and goes on. The others keep the file they have opened.
Rename(w) ==
    /\ \/ pen[w] = "temp"
       \/ pen[w] = "gone" /\ (Others(w, "temp") # {} \/ stray[FileOf(w)] # NoFile)
    /\ \E done \in SUBSET Others(w, "temp") :
          /\ \E s \in InTemp(w, done) : state' = [state EXCEPT ![FileOf(w)] = s]
          /\ pen' = [v \in Writer |->
                IF v = w THEN "shut"
                ELSE IF v \in Others(w, "temp") \ done THEN "state"
                ELSE IF v \in done \cup Others(w, "state") THEN "gone" ELSE pen[v]]
    /\ stray' = [stray EXCEPT ![FileOf(w)] = NoFile]

\* The file that w opened has become state.json before it was filled: so much for
\* the rename. A text over a longer one leaves the end of it.
Overwrite(w) ==
    /\ pen[w] = "state"
    /\ \E s \in {Text(w)} \cup (IF state[FileOf(w)] = Blank THEN {} ELSE {Garbled}) :
          state' = [state EXCEPT ![FileOf(w)] = s]
    /\ pen' = [pen EXCEPT ![w] = "gone"]
    /\ UNCHANGED <<stray, flag, process, caller>>

\* FileNotFoundError: somebody else has renamed the file.
NothingToRename(w) ==
    /\ pen[w] = "gone" /\ Others(w, "temp") = {} /\ stray[FileOf(w)] = NoFile
    /\ pen' = [pen EXCEPT ![w] = "shut"]
    /\ UNCHANGED <<state, stray>>

\* The writer w is killed. What it has put into a state.tmp that others have open stays
\* there; the next that opens the file empties it.
Drops(w) ==
    /\ pen' = [pen EXCEPT ![w] = "shut"]
    /\ IF pen[w] = "temp" /\ \E v \in Writer \ {w} : pen[v] # "shut" /\ FileOf(v) = FileOf(w)
         THEN \E s \in {Blank, Text(w)} : stray' = [stray EXCEPT ![FileOf(w)] = s]
         ELSE UNCHANGED stray
    /\ UNCHANGED state

\* What a reader of state.json gets: a part of it while a text is written over it.
Seen(j) ==
    {state[j]} \cup IF \E w \in Writer : pen[w] = "state" /\ FileOf(w) = j THEN {Garbled} ELSE {}

-----------------------------------------------------------------------------
(* Calls of the job manager. *)

\* A page lists the jobs, starts one, cancels or retries one. The set of jobs
\* bounds the number of starts.
Call(c, request, j) ==
    /\ caller[c].at = "idle"
    /\ Overlap \/ \A d \in Caller : caller[d].at = "idle"
    /\ IF request \in {"cancel", "retry"} THEN j \in Known ELSE j = Idle.job
    /\ request \in {"start", "retry"} => Begun # Job
    /\ caller' = [caller EXCEPT ![c] =
                    [Idle EXCEPT !.at = "read", !.asks = request, !.job = j,
                              !.todo = IF request \in {"cancel", "retry"} THEN {j} ELSE Known]]
    /\ UNCHANGED <<files, flag, process>>

SeenBusy(busy, s) == busy \/ s.status \in ACTIVE

\* The caller r has reconciled a file to s. A start remembers of it only whether it is
\* active, a page nothing.
Noted(r, s) ==
    CASE r.asks = "page" -> [r EXCEPT !.at = "read", !.copy = Queued]
      [] r.asks = "start" -> [r EXCEPT !.at = "read", !.copy = Queued,
                                       !.busy = SeenBusy(r.busy, s),
                                       !.blind = r.blind \/ ~Readable(s)]
      [] OTHER -> [r EXCEPT !.at = "read", !.copy = s]

IsProbed(status) == status \in Probed

\* reconcile(), first half: read the file; the pid of some statuses is looked
\* up before anything is concluded.
ReadState(c) ==
    /\ caller[c].at = "read"
    /\ \E j \in caller[c].todo : \E s \in Seen(j) :
          LET r == [caller[c] EXCEPT !.job = j, !.todo = @ \ {j}]
          IN  caller' = [caller EXCEPT ![c] =
                  IF IsProbed(s.status) THEN [r EXCEPT !.at = "probe", !.copy = s] ELSE Noted(r, s)]
    /\ UNCHANGED <<files, flag, process>>

\* reconcile(), second half: a job whose pid answers is what its file says ...
FoundAlive(c) ==
    /\ caller[c].at = "probe"
    /\ caller[c].copy.pid
    /\ caller' = [caller EXCEPT ![c] = Noted(@, @.copy)]
    /\ UNCHANGED <<files, flag, process>>

\* ... and one whose pid is missing or dead is written back as INTERRUPTED, over
\* whatever was written meanwhile.
FoundDead(c) ==
    /\ caller[c].at = "probe"
    /\ caller[c].copy.pid => ~Live(caller[c].job)
    /\ caller' = [caller EXCEPT ![c] = [@ EXCEPT !.at = "settle", !.copy.status = "INTERRUPTED"]]
    /\ UNCHANGED <<files, flag, process>>

\* All files of the request have been reconciled.
Reconciled(c, request) ==
    /\ caller[c].at = "read"
    /\ caller[c].todo = {}
    /\ caller[c].asks = request

EndPage(c) ==
    /\ Reconciled(c, "page")
    /\ Return(c)
    /\ UNCHANGED <<files, flag, process>>

\* "Active job already exists", "Only an active job can be cancelled", "Only a
\* terminal job can be retried".
Refuse(c) ==
    /\ \/ Reconciled(c, "start") /\ (caller[c].busy \/ Begun = Job \/ (caller[c].blind /\ ~BlindStart))
       \/ Reconciled(c, "cancel") /\ caller[c].copy.status \notin ACTIVE
       \/ Reconciled(c, "retry") /\ caller[c].copy.status \notin TERMINAL
    /\ Return(c)
    /\ UNCHANGED <<files, flag, process>>

\* retry_job(): a start of a new job of the same kind.
Retry(c) ==
    /\ Reconciled(c, "retry")
    /\ caller[c].copy.status \in TERMINAL
    /\ caller' = [caller EXCEPT ![c] = [@ EXCEPT !.asks = "start", !.todo = Known]]
    /\ UNCHANGED <<files, flag, process>>

\* _start_job(): no active job was seen, the new one is written as QUEUED, in a
\* directory of its own.
Queue(c) ==
    /\ Reconciled(c, "start")
    /\ ~caller[c].busy
    /\ caller[c].blind => BlindStart
    /\ Begun # Job
    /\ caller' = [caller EXCEPT ![c] =
         [@ EXCEPT !.at = "queue", !.job = CHOOSE j \in Job : j \notin Begun, !.copy = Queued]]
    /\ UNCHANGED <<files, flag, process>>

Popen(c) ==
    /\ caller[c].at = "popen"
    /\ WorkerGoto(caller[c].job, "boot")
    /\ Goto(c, "reread")
    /\ UNCHANGED <<files, flag, reached, left, late>>

\* "Worker launch failed": the starter writes its own copy, and raises.
PopenFails(c) ==
    /\ caller[c].at = "popen"
    /\ caller' = [caller EXCEPT ![c] = [@ EXCEPT !.at = "fail", !.copy = Failed]]
    /\ UNCHANGED <<files, flag, process>>

WithPid(s) == [s EXCEPT !.pid = TRUE]

\* latest = read_state() or the starter's own copy: with the pid it goes back, over
\* what the worker has written since.
Reread(c) ==
    /\ caller[c].at = "reread"
    /\ \E s \in Seen(caller[c].job) :
          caller' = [caller EXCEPT ![c] =
              [@ EXCEPT !.at = "pid", !.copy = WithPid(IF Readable(s) THEN s ELSE Queued)]]
    /\ UNCHANGED <<files, flag, process>>

Requested(s) == [s EXCEPT !.status = "CANCEL_REQUESTED"]

\* request_cancel(): the flag first, the status second.
Flag(c) ==
    /\ Reconciled(c, "cancel")
    /\ caller[c].copy.status \in ACTIVE
    /\ flag' = flag \cup {caller[c].job}
    /\ caller' = [caller EXCEPT ![c] = [@ EXCEPT !.at = "request", !.copy = Requested(caller[c].copy)]]
    /\ UNCHANGED <<files, process>>

\* The caller's write is done: it goes on with the listing or the launch, or returns.
Wrote(c) ==
    /\ Rename(c)
    /\ CASE caller[c].at = "settle" -> caller' = [caller EXCEPT ![c] = Noted(@, @.copy)]
         [] caller[c].at = "queue" -> Goto(c, "popen")
         [] OTHER -> Return(c)
    /\ UNCHANGED <<flag, process>>

\* The exception of a lost state.tmp ends the call.
WriteRaises(c) ==
    /\ NothingToRename(c)
    /\ Return(c)
    /\ UNCHANGED <<flag, process>>

\* The session is closed or killed in the middle of a call.
Break(c) ==
    /\ caller[c].at \in Breakable
    /\ Drops(c)
    /\ Return(c)
    /\ UNCHANGED <<flag, process>>

CallStep(c) ==
    \/ ReadState(c) \/ FoundAlive(c) \/ FoundDead(c) \/ EndPage(c) \/ Refuse(c) \/ Retry(c)
    \/ Queue(c) \/ Popen(c) \/ PopenFails(c) \/ Reread(c) \/ Flag(c)
    \/ Open(c) \/ Overwrite(c) \/ Wrote(c) \/ WriteRaises(c)

-----------------------------------------------------------------------------
(* The worker. Its copy of the state has its own pid and the status it     *)
(* wrote last, whatever others have written since.                         *)

outside == <<files, flag, caller>>

\* It reads kind and options from the state; with {} there is no plan, and it dies.
Boot(j) ==
    /\ worker[j] = "boot"
    /\ \E s \in Seen(j) :
          IF Readable(s) THEN WorkerGoto(j, "enroll") /\ UNCHANGED <<left, late>> ELSE WorkerEnds(j)
    /\ UNCHANGED <<outside, reached>>

Cancelled(j) == j \in flag

\* The worker comes to a verdict, which it goes on to write.
Conclude(j, place) ==
    /\ WorkerGoto(j, place)
    /\ reached' = [reached EXCEPT ![j] = @ \cup {WorkerText(place).status}]
    /\ UNCHANGED <<outside, left, late>>

\* Before a step: is there a request to cancel?
Look(j) ==
    /\ worker[j] = "look"
    /\ left[j] > 0
    /\ ~Cancelled(j)
    /\ WorkerGoto(j, "begin")
    /\ UNCHANGED <<outside, reached, left, late>>

\* The step's subprocess has ended, within its timeout: with an accepted exit code and
\* no request seen its result is written ...
KeepGoing(j) ==
    /\ worker[j] = "work"
    /\ ~Cancelled(j)
    /\ WorkerGoto(j, "keep")
    /\ left' = [left EXCEPT ![j] = @ - 1]
    /\ UNCHANGED <<outside, reached, late>>

\* ... with another one the job has failed.
Fail(j) == worker[j] = "work" /\ ~Cancelled(j) /\ Conclude(j, "lost")

\* A request is seen before or after a step; after it, it wins over a failure.
Cancel(j) ==
    /\ Cancelled(j)
    /\ (worker[j] = "look" /\ left[j] > 0) \/ worker[j] = "work"
    /\ Conclude(j, "off")

Succeed(j) == worker[j] = "look" /\ left[j] = 0 /\ Conclude(j, "won")

\* An exception in the middle of a step.
Raise(j) == worker[j] = "work" /\ Conclude(j, "raised")

\* The worker's write is done: the step begins, the loop goes on, or all is over.
WorkerWrote(j) ==
    /\ Rename(j)
    /\ CASE worker[j] \in {"enroll", "keep"} -> WorkerGoto(j, "look") /\ UNCHANGED <<left, late>>
         [] worker[j] = "begin" ->
              /\ WorkerGoto(j, "work")
              /\ late' = [late EXCEPT ![j] = IF j \in flag THEN @ + 1 ELSE @]
              /\ UNCHANGED left
         [] OTHER -> WorkerEnds(j)
    /\ UNCHANGED <<flag, reached, caller>>

\* A lost state.tmp is one more exception: caught inside the try block, where the
\* job becomes FAILED, and fatal outside of it.
WorkerRaises(j) ==
    /\ NothingToRename(j)
    /\ IF worker[j] \in {"enroll", "raised"}
         THEN WorkerEnds(j) /\ UNCHANGED reached
         ELSE /\ WorkerGoto(j, "raised")
              /\ reached' = [reached EXCEPT ![j] = @ \cup {"FAILED"}]
              /\ UNCHANGED <<left, late>>
    /\ UNCHANGED <<flag, caller>>

WorkerStep(j) ==
    \/ Boot(j) \/ Look(j) \/ KeepGoing(j) \/ Succeed(j) \/ Cancel(j) \/ Fail(j)
    \/ Raise(j) \/ Open(j) \/ Overwrite(j) \/ WorkerWrote(j) \/ WorkerRaises(j)

\* The worker is killed: the files stay.
Kill(j) ==
    /\ Live(j)
    /\ WorkerEnds(j)
    /\ Drops(j)
    /\ UNCHANGED <<flag, reached, caller>>

Next ==
    \/ \E c \in Caller :
          \/ \E request \in Request, j \in Job : Call(c, request, j)
          \/ CallStep(c)
          \/ Break(c)
    \/ \E j \in Job : WorkerStep(j) \/ Kill(j)

Spec == Init /\ [][Next]_vars

\* Each step of a plan runs under a timeout, and neither a worker nor a call
\* waits for anybody.
FairSpec ==
    /\ Spec
    /\ \A j \in Job : WF_vars(WorkerStep(j))
    /\ \A c \in Caller : WF_vars(CallStep(c))

-----------------------------------------------------------------------------
\* "Active job already exists": no worker is launched beside one that is at work,
\* though the check and the launch are apart, workers die and their files are
\* rewritten by others; unless the start met an unreadable state.json, whose job
\* it takes for none. Kept when calls do not overlap.
StartsAlone ==
    [][\A c \in Caller : Popen(c) => caller[c].blind \/ \A j \in Job : ~AtWork(j)]_vars

\* While a worker is at work its file does not say that the job is over: it exists,
\* and is active or torn by writes that overlap. None of the copies written back by a
\* page, the starter or the worker itself makes a running job look finished.
RunningJobIsNotOver == \A j \in Job : AtWork(j) => j \in Known /\ Status(j) \notin TERMINAL

\* What the page shows as the worker's verdict is one the worker has come to,
\* however the four writers of the file interleave. INTERRUPTED is not a verdict,
\* and FAILED is also what a failed launch writes.
ShownResultIsReal ==
    \A j \in Job :
        Status(j) \in {"SUCCEEDED", "CANCELLED", "FAILED"} =>
            Status(j) \in reached[j] \/ (Status(j) = "FAILED" /\ worker[j] = "none")

\* Again and again some listing of the jobs is completed: a page shows them
\* whenever it is drawn, and a running scheduler lists them every poll.
KeepsListing == []<><<\E c \in Caller : EndPage(c)>>_vars

\* A worker that has ended is found alive a finite number of times. The code cannot
\* see to it: while another program has the pid of a worker that was killed, its
\* job stays active and no other can be started.
PidsAreGivenUp == <>[][\A c \in Caller : FoundAlive(c) => Live(caller[c].job)]_vars

\* A cancel ends the job and frees the queue: a worker obeys the flag though it
\* overwrites CANCEL_REQUESTED with its own copy, and a job without a worker is
\* seen to be over, also one that a starter that died, or one that wrote an old
\* copy back, left QUEUED: nothing but a cancel removes such a job.
CancelFreesTheQueue ==
    KeepsListing /\ PidsAreGivenUp =>
        \A j \in Job : j \in flag ~> ~Live(j) /\ Status(j) \notin ACTIVE

\* At most one more step begins after the request: the one whose look at the
\* file came just before it.
OneStepAfterCancel == \A j \in Job : late[j] <= 1
=============================================================================
