-------------------------- MODULE ShadowWorker_proofs --------------------------
(***************************************************************************)
(* Theorems about ShadowWorker, for any workers of either kind and any     *)
(* controllers: its type in every case; and, when calls do not overlap,    *)
(* workers have their lock in time and command lines can be read, that no  *)
(* stale lock keeps a launched worker out and, until a worker is started   *)
(* with another command line, that it implements SoleRunner, that the      *)
(* worker is found and that a stop leaves none.                            *)
(***************************************************************************)
EXTENDS ShadowWorker, TLAPS

USE WorkerAssumption, FileAssumption

Local == [at : Place, asks : Asks, pid : Worker \cup {NoPid}]

\* A call moves one controller.
Only(c) == \A d \in Controller \ {c} : caller'[d] = caller[d]

LEMMA GotoFacts ==
    ASSUME TypeOK, NEW c \in Controller, NEW place \in Place, Goto(c, place)
    PROVE  /\ caller' \in [Controller -> Local] /\ Only(c)
           /\ caller'[c].at = place /\ caller'[c].asks = caller[c].asks
           /\ caller'[c].pid = caller[c].pid
<1>1. caller[c] \in Local /\ caller \in [Controller -> Local]
  BY DEF TypeOK, Local
<1>2. /\ [caller[c] EXCEPT !.at = place] \in Local
      /\ [caller[c] EXCEPT !.at = place].at = place
      /\ [caller[c] EXCEPT !.at = place].asks = caller[c].asks
      /\ [caller[c] EXCEPT !.at = place].pid = caller[c].pid
  BY <1>1 DEF Local
<1>3. caller' = [caller EXCEPT ![c] = [caller[c] EXCEPT !.at = place]]
  BY DEF Goto
<1> QED
  BY <1>1, <1>2, <1>3 DEF Only

LEMMA PlaceFacts ==
    {"idle", "meta", "lockpid", "kill", "stale", "judge", "record", "popen", "launched",
     "poll", "giveup"} \subseteq Place
  BY DEF Place

\* The places an answer leads to.
LEMMA AnswerFacts ==
    ASSUME TypeOK, NEW c \in Controller, NEW p \in Worker \cup {NoPid}, Answered(c, p)
    PROVE  /\ caller' \in [Controller -> Local] /\ Only(c)
           /\ caller'[c].at \in {"stale", "idle", "kill"} /\ caller'[c].pid = p
           /\ caller'[c].at = "kill" => p \in Worker
<1> DEFINE place == CASE p = NoPid -> "stale"
                      [] p # NoPid /\ caller[c].asks = "start" -> "idle"
                      [] OTHER -> "kill"
<1>1. place \in {"stale", "idle", "kill"} /\ (place = "kill" => p \in Worker)
  OBVIOUS
<1>2. caller[c] \in Local /\ caller \in [Controller -> Local]
  BY DEF TypeOK, Local
<1>3. caller' = [caller EXCEPT ![c] = [caller[c] EXCEPT !.pid = p, !.at = place]]
  BY DEF Answered
<1> HIDE DEF place
<1>4. /\ [caller[c] EXCEPT !.pid = p, !.at = place] \in Local
      /\ [caller[c] EXCEPT !.pid = p, !.at = place].at = place
      /\ [caller[c] EXCEPT !.pid = p, !.at = place].pid = p
  BY <1>1, <1>2, PlaceFacts DEF Local
<1> QED
  BY <1>1, <1>2, <1>3, <1>4 DEF Only

LEMMA LockPidFacts == TypeOK => LockPid \in Worker \cup {NoPid}
  BY DEF TypeOK, LockPid, File

LEMMA FileFacts ==
    /\ \A w \in Worker, b \in BOOLEAN :
           [by |-> w, filled |-> b] \in File /\ [by |-> w, filled |-> b] # NoFile
    /\ \A f \in File : [f EXCEPT !.filled = TRUE] \in File
<1>1. ASSUME NEW w \in Worker, NEW b \in BOOLEAN
      PROVE  [by |-> w, filled |-> b] \in File /\ [by |-> w, filled |-> b] # NoFile
  <2>1. [by |-> w, filled |-> b] \in File
    BY DEF File
  <2> QED
    BY <2>1
<1>2. ASSUME NEW f \in File PROVE [f EXCEPT !.filled = TRUE] \in File
  BY Zenon DEF File
<1> QED
  BY <1>1, <1>2

\* A full lock names its creator.
LEMMA FullLock ==
    ASSUME NEW w \in Worker, lock = [by |-> w, filled |-> TRUE] PROVE LockPid = w
<1>1. lock # NoFile
  BY FileFacts
<1>2. lock.filled = TRUE /\ lock.by = w
  OBVIOUS
<1> QED
  BY <1>1, <1>2 DEF LockPid

LEMMA WorkerFacts ==
    ASSUME TypeOK, NEW w \in Worker, NEW place \in Alive \cup {"unborn", "dead"},
           WorkerGoto(w, place)
    PROVE  /\ worker' \in [Worker -> Alive \cup {"unborn", "dead"}]
           /\ worker'[w] = place
           /\ \A v \in Worker \ {w} : worker'[v] = worker[v]
  BY DEF TypeOK, WorkerGoto

LEMMA TypeKept == TypeOK /\ [Next]_vars => TypeOK'
<1> SUFFICES ASSUME TypeOK, [Next]_vars PROVE TypeOK'
  OBVIOUS
<1>0. /\ lock \in File \cup {NoFile} /\ metaPid \in Worker \cup {NoPid}
      /\ worker \in [Worker -> Alive \cup {"unborn", "dead"}]
      /\ caller \in [Controller -> Local]
  BY DEF TypeOK, Local
<1>t. ASSUME lock' \in File \cup {NoFile}, metaPid' \in Worker \cup {NoPid},
             worker' \in [Worker -> Alive \cup {"unborn", "dead"}],
             caller' \in [Controller -> Local]
      PROVE  TypeOK'
  BY <1>t DEF TypeOK, Local
<1>1. CASE \E c \in Controller, asks \in Asks : Call(c, asks)
  <2> PICK c \in Controller, asks \in Asks : Call(c, asks)
    BY <1>1
  <2>1. [at |-> "meta", asks |-> asks, pid |-> NoPid] \in Local
    BY PlaceFacts DEF Local
  <2> QED
    BY <1>0, <1>t, <2>1 DEF Call
<1>2. CASE \E c \in Controller : CallStep(c) \/ Break(c)
  <2> PICK c \in Controller : CallStep(c) \/ Break(c)
    BY <1>2
  <2>1. CASE ReadMeta(c)
    <3>1. caller' \in [Controller -> Local]
      BY <2>1, GotoFacts, AnswerFacts, PlaceFacts DEF ReadMeta, Validated
    <3> QED
      BY <1>0, <1>t, <2>1, <3>1 DEF ReadMeta
  <2>2. CASE ReadLockPid(c)
    <3>1. caller' \in [Controller -> Local]
      BY <2>2, AnswerFacts, LockPidFacts DEF ReadLockPid
    <3> QED
      BY <1>0, <1>t, <2>2, <3>1 DEF ReadLockPid
  <2>3. CASE Kill(c)
    <3>1. caller' \in [Controller -> Local]
      BY <2>3, GotoFacts, PlaceFacts DEF Kill
    <3> QED
      BY <1>0, <1>t, <2>3, <3>1 DEF Kill
  <2>4. CASE NothingStale(c) \/ RefuseRunning(c) \/ JudgeStale(c)
    <3>1. \E place \in Place : Goto(c, place)
      BY <2>4, PlaceFacts DEF NothingStale, RefuseRunning, JudgeStale
    <3>2. caller' \in [Controller -> Local]
      BY <3>1, GotoFacts
    <3> QED
      BY <1>0, <1>t, <2>4, <3>2 DEF NothingStale, RefuseRunning, JudgeStale
  <2>5. CASE ReadStale(c)
    <3>1. caller' = [caller EXCEPT ![c] = [caller[c] EXCEPT !.at = "judge", !.pid = LockPid]]
      BY <2>5 DEF ReadStale
    <3>2. [caller[c] EXCEPT !.at = "judge", !.pid = LockPid] \in Local
      BY <1>0, PlaceFacts, LockPidFacts DEF Local
    <3> QED
      BY <1>0, <1>t, <2>5, <3>1, <3>2 DEF ReadStale
  <2>6. CASE RecordStopped(c)
    <3>1. /\ [caller[c] EXCEPT !.at = "meta", !.asks = "start"] \in Local
          /\ [caller[c] EXCEPT !.at = "idle"] \in Local
      BY <1>0, PlaceFacts DEF Local, Asks
    <3> QED
      BY <1>0, <1>t, <2>6, <3>1 DEF RecordStopped
  <2>7. CASE Popen(c)
    <3> PICK w \in Worker : WorkerGoto(w, "boot") /\ caller' =
               [caller EXCEPT ![c] = [caller[c] EXCEPT !.at = "launched", !.pid = w]]
      BY <2>7 DEF Popen
    <3>1. [caller[c] EXCEPT !.at = "launched", !.pid = w] \in Local
      BY <1>0, PlaceFacts DEF Local
    <3>2. worker' \in [Worker -> Alive \cup {"unborn", "dead"}]
      BY WorkerFacts DEF Alive
    <3> QED
      BY <1>0, <1>t, <2>7, <3>1, <3>2 DEF Popen
  <2>8. CASE RecordLaunched(c) \/ Started(c) \/ StopPolling(c) \/ GiveUp(c) \/ Break(c)
    <3>1. \E place \in Place : Goto(c, place)
      BY <2>8, PlaceFacts DEF RecordLaunched, Started, StopPolling, GiveUp, Break
    <3>2. caller' \in [Controller -> Local]
      BY <3>1, GotoFacts
    <3>3. caller[c].pid \in Worker \cup {NoPid}
      BY <1>0 DEF Local
    <3> QED
      BY <1>0, <1>t, <2>8, <3>2, <3>3, LockPidFacts
         DEF RecordLaunched, Started, StopPolling, GiveUp, Break
  <2> QED
    BY <2>1, <2>2, <2>3, <2>4, <2>5, <2>6, <2>7, <2>8 DEF CallStep
<1>3. CASE \E w \in Worker : LaunchByHand(w) \/ CreateLock(w) \/ TurnedAway(w) \/ FillLock(w)
                             \/ Leave(w) \/ Crash(w)
  <2> PICK w \in Worker : LaunchByHand(w) \/ CreateLock(w) \/ TurnedAway(w) \/ FillLock(w)
                             \/ Leave(w) \/ Crash(w)
    BY <1>3
  <2>1. \/ WorkerGoto(w, "boot") \/ WorkerGoto(w, "fill")
        \/ WorkerGoto(w, "run") \/ WorkerGoto(w, "dead")
    BY DEF LaunchByHand, CreateLock, TurnedAway, FillLock, Leave, Crash
  <2>2. worker' \in [Worker -> Alive \cup {"unborn", "dead"}]
    BY <2>1, WorkerFacts DEF Alive
  <2>3. lock' \in File \cup {NoFile}
    BY <1>0, FileFacts DEF LaunchByHand, CreateLock, TurnedAway, FillLock, Leave, Crash
  <2> QED
    BY <1>0, <1>t, <2>2, <2>3 DEF LaunchByHand, CreateLock, TurnedAway, FillLock, Leave, Crash
<1>4. CASE UNCHANGED vars
  BY <1>4, <1>0, <1>t DEF vars
<1> QED
  BY <1>1, <1>2, <1>3, <1>4 DEF Next

\* Type correctness, whatever overlaps and however slow a worker boots.
THEOREM TypeCorrect == Spec => []TypeOK
<1>1. Init => TypeOK
  <2> SUFFICES ASSUME Init PROVE TypeOK
    OBVIOUS
  <2>1. [at |-> "idle", asks |-> "start", pid |-> NoPid] \in Local
    BY PlaceFacts DEF Local, Asks
  <2> QED
    BY <2>1 DEF Init, TypeOK, Local
<1> QED
  BY <1>1, TypeKept, PTL DEF Spec

-----------------------------------------------------------------------------
\* What follows holds when calls do not overlap, no worker is slow and command lines
\* can be read.
Serial == ~Overlap /\ ~Slow /\ Readable

\* A call that has not launched a worker yet; one that has found nobody; one
\* that waits for the worker it launched.
Early == {"meta", "lockpid", "kill", "stale", "judge", "record", "popen"}
Clear == {"record", "popen"}
Waiting == {"launched", "poll"}

\* Outsiders or not: one call at a time; no worker is on its way to its lock while a
\* call decides what is stale; the one that a call waits for finds no lock.
Calls ==
    /\ \A c, d \in Controller : ~At(c, "idle") /\ ~At(d, "idle") => c = d
    /\ \A c \in Controller, w \in Worker :
           /\ caller[c].at \in Early => worker[w] \notin {"boot", "fill"}
           /\ caller[c].at \in Waiting /\ worker[w] \in {"boot", "fill"} => caller[c].pid = w
           /\ caller[c].at \in Waiting /\ worker[w] = "boot" => lock = NoFile
    /\ \A c \in Controller : At(c, "popen") => lock = NoFile

\* Why a lock is never stolen from a worker that the controller recognises: one that
\* fills or holds the lock is its creator, so the pid a call has read is that of the
\* one worker that may run, if any.
Holders ==
    /\ \A w \in Worker : worker[w] = "run" => lock = [by |-> w, filled |-> TRUE]
    /\ \A w \in Worker : worker[w] = "fill" => lock = [by |-> w, filled |-> FALSE]
    /\ \A c \in Controller, w \in Worker :
           /\ At(c, "judge") => (worker[w] = "run" => caller[c].pid = w)
           /\ caller[c].at \in Clear => ~Live(w)
           /\ caller[c].at \in Waiting => (Live(w) => caller[c].pid = w)

SerialInv == TypeOK /\ Calls /\ (NoOutsider => Holders)

\* Until an outsider is started, a live worker is one of the controller's kind, and an
\* outsider once started is never forgotten.
LEMMA OnlyExact ==
    /\ TypeOK /\ NoOutsider => \A p : Rejected(p) /\ Readable => ~(p \in Worker /\ Live(p))
    /\ TypeOK /\ [Next]_vars /\ NoOutsider' => NoOutsider
<1>1. ASSUME TypeOK, NoOutsider, Readable, NEW p, Rejected(p) PROVE ~(p \in Worker /\ Live(p))
  BY <1>1 DEF NoOutsider, Rejected, Validated, Live, Alive
<1>2. ASSUME TypeOK, [Next]_vars, NoOutsider' PROVE NoOutsider
  <2> SUFFICES ASSUME NEW w \in Worker \ Exact, worker[w] # "unborn" PROVE worker'[w] # "unborn"
    BY <1>2 DEF NoOutsider
  <2>1. \A v \in Worker, place \in {"boot", "fill", "run", "dead"} :
            WorkerGoto(v, place) => worker'[w] # "unborn"
    BY <1>2 DEF WorkerGoto, TypeOK
  <2>2. CASE \E v \in Worker : LaunchByHand(v) \/ CreateLock(v) \/ TurnedAway(v) \/ FillLock(v)
                               \/ Leave(v) \/ Crash(v)
    BY <2>1, <2>2 DEF LaunchByHand, CreateLock, TurnedAway, FillLock, Leave, Crash
  <2>3. CASE \E c \in Controller : Kill(c)
    BY <1>2, <2>3 DEF Kill, TypeOK
  <2>4. CASE \E c \in Controller : Popen(c)
    BY <2>1, <2>4 DEF Popen
  <2>5. CASE \E c \in Controller :
               \/ (CallStep(c) /\ ~Kill(c) /\ ~Popen(c)) \/ Break(c) \/ \E asks \in Asks : Call(c, asks)
    <3>1. worker' = worker
      BY <2>5 DEF CallStep, ReadMeta, ReadLockPid, NothingStale, ReadStale, RefuseRunning,
                  JudgeStale, RecordStopped, RecordLaunched, Started, StopPolling, GiveUp, Break,
                  Call
    <3> QED
      BY <3>1
  <2>6. CASE UNCHANGED vars
    BY <2>6 DEF vars
  <2> QED
    BY <1>2, <2>2, <2>3, <2>4, <2>5, <2>6 DEF Next
<1> QED
  BY <1>1, <1>2

LEMMA CallsKept == ASSUME Serial, TypeOK, Calls, [Next]_vars PROVE Calls'
<1>1. ASSUME NEW c \in Controller, NEW asks \in Asks, Call(c, asks) PROVE Calls'
  <2>1. /\ \A d \in Controller : At(d, "idle")
        /\ \A w \in Worker : worker[w] \notin {"boot", "fill"}
    BY <1>1 DEF Call, Undisturbed, Serial
  <2>2. caller'[c].at = "meta" /\ Only(c) /\ UNCHANGED <<lock, worker>>
    BY <1>1 DEF Call, Only, TypeOK
  <2> QED
    BY <2>1, <2>2 DEF Calls, At, Only, Early, Waiting
<1>2. ASSUME NEW c \in Controller, CallStep(c) \/ Break(c) PROVE Calls'
  <2>0. ~At(c, "idle") /\ \A d \in Controller \ {c} : At(d, "idle")
    BY <1>2 DEF Calls, CallStep, ReadMeta, ReadLockPid, Kill, NothingStale, ReadStale,
                RefuseRunning, JudgeStale, RecordStopped, Popen, RecordLaunched, Started,
                StopPolling, GiveUp, Break, At
  \* It is enough to say what the step does to the controller that takes it.
  <2>s. ASSUME Only(c),
               \A w \in Worker :
                  /\ caller'[c].at \in Early => worker'[w] \notin {"boot", "fill"}
                  /\ caller'[c].at \in Waiting /\ worker'[w] \in {"boot", "fill"} => caller'[c].pid = w
                  /\ caller'[c].at \in Waiting /\ worker'[w] = "boot" => lock' = NoFile,
               caller'[c].at = "popen" => lock' = NoFile
        PROVE  Calls'
    BY <2>s, <2>0 DEF Calls, At, Only, Early, Waiting
  \* A step of an early call that neither touches a worker nor launches one.
  <2>e. ASSUME Only(c), caller[c].at \in Early, caller'[c].at \notin Waiting,
               worker' = worker, caller'[c].at = "popen" => lock' = NoFile
        PROVE  Calls'
    BY <2>e, <2>s DEF Calls
  <2>i. ASSUME Only(c), caller'[c].at \in {"idle", "giveup"} PROVE Calls'
    BY <2>i, <2>s DEF Early, Waiting
  <2>1. CASE ReadMeta(c) \/ ReadLockPid(c)
    <3>1. Only(c) /\ caller'[c].at \in {"stale", "idle", "kill", "lockpid"}
      BY <2>1, GotoFacts, AnswerFacts, PlaceFacts, LockPidFacts DEF ReadMeta, ReadLockPid, Validated
    <3> QED
      BY <2>1, <2>e, <3>1 DEF ReadMeta, ReadLockPid, At, Early, Waiting
  <2>2. CASE Kill(c)
    <3>1. Only(c) /\ caller'[c].at = "stale" /\ caller[c].at \in Early
      BY <2>2, GotoFacts, PlaceFacts DEF Kill, At, Early
    <3>2. \A w \in Worker : worker'[w] \in {worker[w], "dead"}
      BY <2>2 DEF Kill, TypeOK
    <3> QED
      BY <2>s, <3>1, <3>2 DEF Calls, Waiting
  <2>3. CASE NothingStale(c) \/ JudgeStale(c)
    <3>1. Only(c) /\ caller'[c].at \in {"popen", "record"}
      BY <2>3, GotoFacts, PlaceFacts DEF NothingStale, JudgeStale
    <3>2. lock' = NoFile
      BY <2>3 DEF NothingStale, JudgeStale
    <3> QED
      BY <2>3, <2>e, <3>1, <3>2 DEF NothingStale, JudgeStale, At, Early, Waiting
  <2>7. CASE ReadStale(c) \/ RecordStopped(c)
    <3>1. Only(c) /\ caller'[c].at \in {"judge", "meta", "idle"}
      <4>1. ReadStale(c) => Only(c) /\ caller'[c].at = "judge"
        BY DEF ReadStale, Only, TypeOK
      <4>2. RecordStopped(c) => Only(c) /\ caller'[c].at \in {"meta", "idle"}
        BY DEF RecordStopped, Only, TypeOK
      <4> QED
        BY <2>7, <4>1, <4>2
    <3> QED
      BY <2>7, <2>e, <3>1 DEF ReadStale, RecordStopped, At, Early, Waiting
  <2>4. CASE RefuseRunning(c) \/ StopPolling(c) \/ GiveUp(c) \/ Started(c) \/ Break(c)
    <3>1. Only(c) /\ caller'[c].at \in {"idle", "giveup"}
      BY <2>4, GotoFacts, PlaceFacts DEF RefuseRunning, StopPolling, GiveUp, Started, Break
    <3> QED
      BY <2>i, <3>1
  <2>5. CASE Popen(c)
    <3> PICK w \in Worker : WorkerGoto(w, "boot") /\ caller' =
               [caller EXCEPT ![c] = [caller[c] EXCEPT !.at = "launched", !.pid = w]]
      BY <2>5 DEF Popen
    <3>1. Only(c) /\ caller'[c].at = "launched" /\ caller'[c].pid = w
      BY DEF Only, TypeOK
    <3>2. worker'[w] = "boot" /\ \A v \in Worker \ {w} : worker'[v] = worker[v]
      BY WorkerFacts DEF Alive
    <3>3. lock' = NoFile /\ \A v \in Worker : worker[v] \notin {"boot", "fill"}
      BY <2>5 DEF Popen, Calls, At, Early
    <3> QED
      BY <2>s, <3>1, <3>2, <3>3 DEF Early, Waiting
  <2>6. CASE RecordLaunched(c)
    <3>1. Only(c) /\ caller'[c].at = "poll" /\ caller'[c].pid = caller[c].pid
      BY <2>6, GotoFacts, PlaceFacts DEF RecordLaunched
    <3> QED
      BY <2>6, <2>s, <3>1 DEF RecordLaunched, Calls, At, Early, Waiting
  <2> QED
    BY <1>2, <2>1, <2>2, <2>3, <2>4, <2>5, <2>6, <2>7 DEF CallStep
<1>3. ASSUME NEW w \in Worker,
             LaunchByHand(w) \/ CreateLock(w) \/ TurnedAway(w) \/ FillLock(w) \/ Leave(w) \/ Crash(w)
      PROVE  Calls'
  <2>0. caller' = caller
    BY <1>3 DEF LaunchByHand, CreateLock, TurnedAway, FillLock, Leave, Crash
  <2>1. CASE LaunchByHand(w)
    <3>1. \A c \in Controller : At(c, "idle")
      BY <2>1 DEF LaunchByHand, Undisturbed, Serial
    <3> QED
      BY <2>0, <3>1 DEF Calls, At, Early, Waiting
  <2>2. CASE CreateLock(w) \/ FillLock(w)
    <3>1. worker[w] \in {"boot", "fill"} /\ worker'[w] \in {"fill", "run"}
          /\ \A v \in Worker \ {w} : worker'[v] = worker[v]
      BY <2>2, WorkerFacts DEF CreateLock, FillLock, Alive
    <3>2. \A c \in Controller : caller[c].at \notin Early /\ ~At(c, "popen")
      BY <3>1 DEF Calls, At, Early
    <3>3. worker'[w] = "fill" => worker[w] = "boot"
      BY <2>2, <3>1, WorkerFacts DEF CreateLock, FillLock, Alive
    <3>4. \A c \in Controller, v \in Worker :
             caller[c].at \in Waiting /\ worker'[v] \in {"boot", "fill"} => caller[c].pid = v /\ v = w
      BY <3>1 DEF Calls
    <3> QED
      BY <2>0, <3>1, <3>2, <3>4 DEF Calls, At
  <2>3. CASE TurnedAway(w) \/ Crash(w) \/ Leave(w)
    <3>1. worker'[w] = "dead" /\ \A v \in Worker \ {w} : worker'[v] = worker[v]
      BY <2>3, WorkerFacts DEF TurnedAway, Crash, Leave
    <3>2. lock' \in {lock, NoFile}
      BY <2>3 DEF TurnedAway, Crash, Leave
    <3> QED
      BY <2>0, <3>1, <3>2 DEF Calls, At
  <2> QED
    BY <1>3, <2>1, <2>2, <2>3
<1>4. CASE UNCHANGED vars
  BY <1>4 DEF vars, Calls, At
<1> QED
  BY <1>1, <1>2, <1>3, <1>4 DEF Next

\* Only the worker that created the lock fills or holds it.
LEMMA OneHolder ==
    ASSUME Holders, NEW v \in Worker, NEW w \in Worker,
           worker[v] \in {"fill", "run"}, worker[w] \in {"fill", "run"}
    PROVE  v = w
<1>1. lock # NoFile => lock.by = v /\ lock.by = w
  BY DEF Holders
<1>2. \A u \in Worker, b \in BOOLEAN : [by |-> u, filled |-> b] # NoFile
  BY DEF File
<1> QED
  BY <1>1, <1>2 DEF Holders

LEMMA HoldersKept ==
    ASSUME Serial, TypeOK, Calls, Calls', NoOutsider, Holders, [Next]_vars
    PROVE  Holders'
<1>f. \A u \in Worker, b \in BOOLEAN : [by |-> u, filled |-> b] # NoFile
  BY DEF File
<1>1. ASSUME NEW c \in Controller, NEW asks \in Asks, Call(c, asks) PROVE Holders'
  <2>1. /\ \A d \in Controller : At(d, "idle")
        /\ \A w \in Worker : worker[w] \notin {"boot", "fill"}
    BY <1>1 DEF Call, Undisturbed, Serial
  <2>2. caller'[c].at = "meta" /\ Only(c) /\ UNCHANGED <<lock, worker>>
    BY <1>1 DEF Call, Only, TypeOK
  <2> QED
    BY <2>1, <2>2 DEF Calls, Holders, At, Only, Early, Clear, Waiting, Live
<1>2. ASSUME NEW c \in Controller, CallStep(c) \/ Break(c) PROVE Holders'
  <2>0. ~At(c, "idle") /\ \A d \in Controller \ {c} : At(d, "idle")
    BY <1>2 DEF Calls, Holders, CallStep, ReadMeta, ReadLockPid, Kill, NothingStale, ReadStale,
                RefuseRunning, JudgeStale, RecordStopped, Popen, RecordLaunched, Started,
                StopPolling, GiveUp, Break, At
  \* It is enough to say what the step does to the controller that takes it.
  <2>s. ASSUME Only(c),
               \A w \in Worker : worker'[w] = "run" => lock' = [by |-> w, filled |-> TRUE],
               \A w \in Worker : worker'[w] = "fill" => lock' = [by |-> w, filled |-> FALSE],
               \A w \in Worker :
                  /\ caller'[c].at = "judge" => (worker'[w] = "run" => caller'[c].pid = w)
                  /\ caller'[c].at \in Clear => worker'[w] \notin Alive
                  /\ caller'[c].at \in Waiting => (worker'[w] \in Alive => caller'[c].pid = w)
        PROVE  Holders'
    BY <2>s, <2>0 DEF Holders, At, Only, Clear, Waiting, Live
  <2>1. CASE ReadMeta(c)
    <3>1. Only(c) /\ caller'[c].at \in {"stale", "idle", "kill", "lockpid"}
      BY <2>1, GotoFacts, AnswerFacts, PlaceFacts DEF ReadMeta, Validated
    <3> QED
      BY <2>1, <2>s, <3>1 DEF ReadMeta, Calls, Holders, At, Early, Clear, Waiting
  <2>2. CASE ReadLockPid(c)
    <3>1. Only(c) /\ caller'[c].at \in {"stale", "idle", "kill"}
      BY <2>2, AnswerFacts, LockPidFacts DEF ReadLockPid
    <3> QED
      BY <2>2, <2>s, <3>1 DEF ReadLockPid, Calls, Holders, At, Early, Clear, Waiting
  <2>3. CASE Kill(c)
    <3>1. Only(c) /\ caller'[c].at = "stale"
      BY <2>3, GotoFacts, PlaceFacts DEF Kill
    <3>2. \A w \in Worker : worker'[w] \in {worker[w], "dead"}
      BY <2>3 DEF Kill, TypeOK
    <3> QED
      BY <2>3, <2>s, <3>1, <3>2 DEF Kill, Calls, Holders, At, Early, Clear, Waiting
  <2>4. CASE NothingStale(c)
    <3>1. Only(c) /\ caller'[c].at \in Clear
      BY <2>4, GotoFacts, PlaceFacts DEF NothingStale, Clear
    <3>2. \A w \in Worker : ~Live(w)
      BY <2>4, <1>f DEF NothingStale, Calls, Holders, At, Live, Alive, Early
    <3> QED
      BY <2>4, <2>s, <3>1, <3>2 DEF NothingStale, Live, Alive, Clear, Waiting
  <2>5. CASE ReadStale(c)
    <3>1. Only(c) /\ caller'[c].at = "judge" /\ caller'[c].pid = LockPid
      BY <2>5 DEF ReadStale, Only, TypeOK
    <3>2. \A w \in Worker : worker[w] = "run" => LockPid = w
      BY FullLock DEF Calls, Holders
    <3> QED
      BY <2>5, <2>s, <3>1, <3>2 DEF ReadStale, Calls, Holders, At, Early, Clear, Waiting
  <2>6. CASE RefuseRunning(c) \/ StopPolling(c) \/ GiveUp(c) \/ Started(c) \/ Break(c)
    <3>1. Only(c) /\ caller'[c].at \in {"idle", "giveup"}
      BY <2>6, GotoFacts, PlaceFacts DEF RefuseRunning, StopPolling, GiveUp, Started, Break
    <3>2. UNCHANGED <<lock, worker>>
      BY <2>6 DEF RefuseRunning, StopPolling, GiveUp, Started, Break
    <3> QED
      BY <2>s, <3>1, <3>2 DEF Calls, Holders, Early, Clear, Waiting
  <2>7. CASE JudgeStale(c)
    <3>1. Only(c) /\ caller'[c].at \in Clear
      BY <2>7, GotoFacts, PlaceFacts DEF JudgeStale, Clear
    <3>2. \A w \in Worker : ~Live(w)
      BY <2>7, OnlyExact DEF JudgeStale, Serial, Calls, Holders, At, Live, Alive, Early
    <3> QED
      BY <2>7, <2>s, <3>1, <3>2 DEF JudgeStale, Live, Alive, Clear, Waiting
  <2>8. CASE RecordStopped(c)
    <3>1. Only(c) /\ caller'[c].at \in {"meta", "idle"}
      BY <2>8 DEF RecordStopped, Only, TypeOK
    <3> QED
      BY <2>8, <2>s, <3>1 DEF RecordStopped, Calls, Holders, At, Early, Clear, Waiting
  <2>9. CASE Popen(c)
    <3> PICK w \in Worker : WorkerGoto(w, "boot") /\ caller' =
               [caller EXCEPT ![c] = [caller[c] EXCEPT !.at = "launched", !.pid = w]]
      BY <2>9 DEF Popen
    <3>1. Only(c) /\ caller'[c].at = "launched" /\ caller'[c].pid = w
      BY DEF Only, TypeOK
    <3>2. worker'[w] = "boot" /\ \A v \in Worker \ {w} : worker'[v] = worker[v]
      BY WorkerFacts DEF Alive
    <3>3. lock = NoFile /\ \A v \in Worker : worker[v] \notin Alive
      BY <2>9 DEF Popen, Calls, Holders, At, Clear, Live
    <3> QED
      BY <2>9, <2>s, <3>1, <3>2, <3>3 DEF Popen, Early, Clear, Waiting, Alive
  <2>10. CASE RecordLaunched(c)
    <3>1. Only(c) /\ caller'[c].at = "poll" /\ caller'[c].pid = caller[c].pid
      BY <2>10, GotoFacts, PlaceFacts DEF RecordLaunched
    <3> QED
      BY <2>10, <2>s, <3>1 DEF RecordLaunched, Calls, Holders, At, Early, Clear, Waiting, Live
  <2> QED
    BY <1>2, <2>1, <2>2, <2>3, <2>4, <2>5, <2>6, <2>7, <2>8, <2>9, <2>10 DEF CallStep
<1>3. ASSUME NEW w \in Worker,
             LaunchByHand(w) \/ CreateLock(w) \/ TurnedAway(w) \/ FillLock(w) \/ Leave(w) \/ Crash(w)
      PROVE  Holders'
  <2>0. caller' = caller
    BY <1>3 DEF LaunchByHand, CreateLock, TurnedAway, FillLock, Leave, Crash
  <2>1. CASE LaunchByHand(w)
    <3>1. \A c \in Controller : At(c, "idle")
      BY <2>1 DEF LaunchByHand, Undisturbed, Serial
    <3>2. worker'[w] = "boot" /\ \A v \in Worker \ {w} : worker'[v] = worker[v]
      BY <2>1, WorkerFacts DEF LaunchByHand, Alive
    <3> QED
      BY <2>0, <2>1, <3>1, <3>2 DEF LaunchByHand, Calls, Holders, At, Early, Clear, Waiting, Live
  <2>2. CASE CreateLock(w)
    <3>1. worker'[w] = "fill" /\ \A v \in Worker \ {w} : worker'[v] = worker[v]
      BY <2>2, WorkerFacts DEF CreateLock, Alive
    <3>2. \A v \in Worker : worker[v] \notin {"fill", "run"}
      BY <2>2, <1>f DEF CreateLock, Calls, Holders
    <3>3. \A c \in Controller : caller[c].at \notin Early
      BY <2>2 DEF CreateLock, Calls, Holders
    <3>4. \A c \in Controller, v \in Worker :
             caller[c].at \in Waiting => (worker'[v] \in Alive => caller[c].pid = v)
      BY <2>2, <3>1 DEF CreateLock, Calls, Holders, Live, Alive
    <3>5. \A c \in Controller, v \in Worker : caller[c].at \in Waiting => worker'[v] # "boot"
      BY <3>1, <3>4, <2>2 DEF CreateLock, Calls, Holders, Live, Alive
    <3> QED
      BY <2>0, <2>2, <3>1, <3>2, <3>3, <3>4, <3>5
         DEF CreateLock, Calls, Holders, At, Early, Clear, Live
  <2>3. CASE TurnedAway(w) \/ Crash(w)
    <3>1. worker'[w] = "dead" /\ \A v \in Worker \ {w} : worker'[v] = worker[v]
      BY <2>3, WorkerFacts DEF TurnedAway, Crash
    <3>2. lock' = lock
      BY <2>3 DEF TurnedAway, Crash
    <3> QED
      BY <2>0, <3>1, <3>2 DEF Calls, Holders, At, Live, Alive
  <2>4. CASE FillLock(w)
    <3>1. worker'[w] = "run" /\ \A v \in Worker \ {w} : worker'[v] = worker[v]
      BY <2>4, WorkerFacts DEF FillLock, Alive
    <3>2. lock = [by |-> w, filled |-> FALSE]
      BY <2>4 DEF FillLock, Calls, Holders
    <3>3. lock' = [by |-> w, filled |-> TRUE]
      BY <2>4, <3>2, <1>f DEF FillLock
    <3>4. \A v \in Worker \ {w} : worker[v] \notin {"fill", "run"}
      BY <2>4, OneHolder DEF FillLock
    <3>5. \A c \in Controller : caller[c].at \notin Early
      BY <2>4 DEF FillLock, Calls, Holders
    <3>6. \A c \in Controller, v \in Worker : caller[c].at \in Waiting => worker[v] # "boot"
      BY <3>2, <1>f DEF Calls, Holders
    <3>7. UNCHANGED caller /\ worker[w] = "fill"
      BY <2>4 DEF FillLock
    <3>8. \A v \in Worker :
             /\ worker'[v] = "run" => v = w
             /\ worker'[v] # "fill"
             /\ worker'[v] = "boot" => worker[v] = "boot"
             /\ worker'[v] \in Alive => worker[v] \in Alive
      <4> SUFFICES ASSUME NEW v \in Worker
                   PROVE  /\ worker'[v] = "run" => v = w
                          /\ worker'[v] # "fill"
                          /\ worker'[v] = "boot" => worker[v] = "boot"
                          /\ worker'[v] \in Alive => worker[v] \in Alive
        OBVIOUS
      <4>1. CASE v = w
        BY <3>1, <3>7, <4>1 DEF Alive
      <4>2. CASE v # w
        BY <3>1, <3>4, <4>2
      <4> QED
        BY <4>1, <4>2
    <3>9. \A v \in Worker : /\ worker'[v] = "run" => lock' = [by |-> v, filled |-> TRUE]
                            /\ worker'[v] = "fill" => lock' = [by |-> v, filled |-> FALSE]
      BY <3>3, <3>8
    <3>10. \A c \in Controller : ~At(c, "judge")' /\ caller'[c].at \notin Clear
      BY <3>5, <3>7 DEF At, Early, Clear
    <3>11. \A c \in Controller, v \in Worker :
              caller'[c].at \in Waiting =>
                  worker'[v] # "boot" /\ (worker'[v] \in Alive => caller'[c].pid = v)
      BY <3>6, <3>7, <3>8 DEF Calls, Holders, Live
    <3> QED
      BY <3>9, <3>10, <3>11 DEF Holders, Live, At
  <2>5. CASE Leave(w)
    <3>1. worker'[w] = "dead" /\ \A v \in Worker \ {w} : worker'[v] = worker[v]
      BY <2>5, WorkerFacts DEF Leave
    <3>2. \A v \in Worker \ {w} : worker[v] \notin {"fill", "run"}
      BY <2>5, OneHolder DEF Leave
    <3> QED
      BY <2>0, <2>5, <3>1, <3>2 DEF Leave, Calls, Holders, At, Live, Alive
  <2> QED
    BY <1>3, <2>1, <2>2, <2>3, <2>4, <2>5
<1>4. CASE UNCHANGED vars
  BY <1>4 DEF vars, Calls, Holders, At, Live
<1> QED
  BY <1>1, <1>2, <1>3, <1>4 DEF Next

LEMMA SerialKept == ASSUME Serial PROVE Spec => []SerialInv
<1>1. Init => SerialInv
  <2> SUFFICES ASSUME Init PROVE SerialInv
    OBVIOUS
  <2>1. TypeOK
    <3>1. [at |-> "idle", asks |-> "start", pid |-> NoPid] \in Local
      BY PlaceFacts DEF Local, Asks
    <3> QED
      BY <3>1 DEF Init, TypeOK, Local
  <2> QED
    BY <2>1 DEF Init, SerialInv, Calls, Holders, At, Early, Clear, Waiting
<1>2. SerialInv /\ [Next]_vars => SerialInv'
  <2> SUFFICES ASSUME SerialInv, [Next]_vars PROVE SerialInv'
    OBVIOUS
  <2>1. TypeOK /\ TypeOK' /\ Calls /\ Calls'
    BY TypeKept, CallsKept DEF SerialInv
  <2>2. ASSUME NoOutsider' PROVE Holders'
    BY <2>1, <2>2, OnlyExact, HoldersKept DEF SerialInv
  <2> QED
    BY <2>1, <2>2 DEF SerialInv
<1> QED
  BY <1>1, <1>2, PTL DEF Spec

-----------------------------------------------------------------------------
\* Until an outsider is started, a worker that runs is one the next call finds.
THEOREM SerialFinding == ASSUME Serial PROVE Spec => []RunningWorkerIsFound
<1>1. SerialInv => RunningWorkerIsFound
  BY OnlyExact DEF SerialInv, Holders, RunningWorkerIsFound, Running, Serial, Rejected, Live, Alive
<1> QED
  BY <1>1, SerialKept, PTL

\* Until an outsider is started, a stop that reports success leaves no worker alive.
THEOREM SerialStop == ASSUME Serial PROVE Spec => StoppedIsStopped
<1> DEFINE Stopped ==
       NoOutsider => \A c \in Controller : RecordStopped(c) => \A w \in Worker : ~Live(w)
<1>1. SerialInv => Stopped
  BY DEF SerialInv, Holders, RecordStopped, At, Clear
<1> QED
  BY <1>1, SerialKept, PTL DEF StoppedIsStopped

\* The worker a controller waits for is turned away only by another worker, whoever
\* else was started by hand and however.
THEOREM SerialTurn == ASSUME Serial PROVE Spec => TurnedAwayOnlyByAWorker
<1> DEFINE Turned ==
       \A c \in Controller, w \in Worker :
          At(c, "poll") /\ caller[c].pid = w /\ TurnedAway(w) => \E v \in Worker \ {w} : Live(v)
<1>1. SerialInv => Turned
  BY DEF SerialInv, Calls, TurnedAway, At, Waiting
<1> QED
  BY <1>1, SerialKept, PTL DEF TurnedAwayOnlyByAWorker

\* Until an outsider is started: one worker at a time, and the next after the last has
\* ended.  Every step of the guard is a step of SoleRunner or leaves it alone.
THEOREM SerialSole == ASSUME Serial PROVE Spec => OneWorkerAtATime
<1> DEFINE running == IF NoOutsider THEN Running ELSE {}
<1>1. Init => Sole!Init
  BY DEF Init, Running, Sole!Init
<1>2. SerialInv /\ [Next]_vars => [Sole!Next]_running
  <2> SUFFICES ASSUME SerialInv, [Next]_vars PROVE Sole!Next \/ UNCHANGED running
    OBVIOUS
  <2>0. TypeOK /\ (NoOutsider' => NoOutsider) /\ (NoOutsider => Holders)
    BY OnlyExact DEF SerialInv
  \* The start of an outsider ends what is promised, and with it the runner's turn.
  <2>h. CASE NoOutsider /\ ~NoOutsider'
    <3>1. \A w \in Worker : worker[w] = "run" => Sole!End(w)
      BY <2>0, <2>h, OneHolder DEF Running, Sole!End
    <3>2. CASE \E w \in Worker : worker[w] = "run"
      BY <3>1, <3>2 DEF Sole!Next
    <3>3. CASE \A w \in Worker : worker[w] # "run"
      BY <2>h, <3>3 DEF Running
    <3> QED
      BY <3>2, <3>3
  <2>g. CASE ~NoOutsider
    BY <2>0, <2>g
  <2> SUFFICES ASSUME NoOutsider, NoOutsider' PROVE Sole!Next \/ UNCHANGED running
    BY <2>0, <2>h, <2>g
  <2>s. ASSUME \A w \in Worker : worker'[w] = "run" <=> worker[w] = "run" PROVE UNCHANGED running
    BY <2>s DEF Running
  <2>1. ASSUME NEW w \in Worker, FillLock(w) PROVE Sole!Begin(w)
    <3>1. worker'[w] = "run" /\ \A v \in Worker \ {w} : worker'[v] = worker[v]
      BY <2>1, <2>0, WorkerFacts DEF FillLock, Alive
    <3>2. \A v \in Worker : worker[v] # "run"
      BY <2>0, <2>1, OneHolder DEF FillLock
    <3> QED
      BY <3>1, <3>2 DEF Running, Sole!Begin
  <2>e. ASSUME NEW w \in Worker, worker[w] = "run",
               \A v \in Worker : worker'[v] = IF v = w THEN "dead" ELSE worker[v]
        PROVE  Sole!End(w)
    <3>1. \A v \in Worker \ {w} : worker[v] # "run"
      BY <2>0, <2>e, OneHolder
    <3> QED
      BY <2>e, <3>1 DEF Running, Sole!End
  <2>2. ASSUME NEW w \in Worker, Leave(w) \/ Crash(w) PROVE Sole!End(w) \/ UNCHANGED running
    <3>1. \A v \in Worker : worker'[v] = IF v = w THEN "dead" ELSE worker[v]
      BY <2>2, <2>0 DEF Leave, Crash, WorkerGoto, TypeOK
    <3>2. CASE worker[w] = "run"
      BY <3>1, <3>2, <2>e
    <3>3. CASE worker[w] # "run"
      BY <3>1, <3>3, <2>s
    <3> QED
      BY <3>2, <3>3
  <2>3. ASSUME NEW w \in Worker, LaunchByHand(w) \/ CreateLock(w) \/ TurnedAway(w)
        PROVE  UNCHANGED running
    BY <2>3, <2>0, <2>s DEF LaunchByHand, CreateLock, TurnedAway, WorkerGoto, TypeOK
  <2>4. ASSUME NEW c \in Controller, Kill(c) PROVE Sole!Next \/ UNCHANGED running
    <3>1. CASE worker' = worker
      BY <3>1, <2>s
    <3>2. CASE worker' = [worker EXCEPT ![caller[c].pid] = "dead"]
      <4>1. \A v \in Worker : worker'[v] = IF v = caller[c].pid THEN "dead" ELSE worker[v]
        BY <3>2, <2>0 DEF TypeOK
      <4>2. ASSUME NEW w \in Worker, w = caller[c].pid, worker[w] = "run" PROVE Sole!Next
        <5>1. Sole!End(w)
          BY <4>1, <4>2, <2>e
        <5> QED
          BY <5>1 DEF Sole!Next
      <4>3. ASSUME \A w \in Worker : w = caller[c].pid => worker[w] # "run" PROVE UNCHANGED running
        BY <4>1, <4>3, <2>s
      <4> QED
        BY <4>2, <4>3
    <3> QED
      BY <2>4, <3>1, <3>2 DEF Kill
  <2>5. ASSUME NEW c \in Controller, Popen(c) PROVE UNCHANGED running
    <3> PICK w \in Worker : worker[w] = "unborn" /\ WorkerGoto(w, "boot")
      BY <2>5 DEF Popen
    <3> QED
      BY <2>0, <2>s DEF WorkerGoto, TypeOK
  <2>6. ASSUME NEW c \in Controller, CallStep(c) \/ Break(c), ~Kill(c), ~Popen(c)
        PROVE  UNCHANGED running
    <3>1. worker' = worker
      BY <2>6 DEF CallStep, ReadMeta, ReadLockPid, NothingStale, ReadStale, RefuseRunning,
                  JudgeStale, RecordStopped, RecordLaunched, Started, StopPolling, GiveUp, Break
    <3> QED
      BY <3>1, <2>s
  <2>7. ASSUME NEW c \in Controller, NEW asks \in Asks, Call(c, asks) PROVE UNCHANGED running
    BY <2>7, <2>s DEF Call
  <2>8. CASE UNCHANGED vars
    BY <2>8, <2>s DEF vars
  <2> QED
    BY <2>1, <2>2, <2>3, <2>4, <2>5, <2>6, <2>7, <2>8 DEF Next, Sole!Next
<1> QED
  BY <1>1, <1>2, SerialKept, PTL DEF Spec, OneWorkerAtATime, Sole!Spec
=============================================================================
