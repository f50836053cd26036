------------------------- MODULE PaperCampaign_proofs -------------------------
(***************************************************************************)
(* Proofs about the campaign manager, for any number of launches: with one *)
(* caller that does not die inside a launch, a worker that runs is always  *)
(* the one state.json names, so a reported stop is real and a restart      *)
(* keeps the observation window; with any callers that die anywhere, what  *)
(* a refused start can be refused for.                                     *)
(***************************************************************************)
EXTENDS PaperCampaign, TLAPS

\* One session or command line at a time, which completes the launches it begins.
Serial ==
    /\ \A c, d \in Callers : c = d
    /\ CrashAt \cap {"launch", "running", "failed"} = {}

Live == {p \in Pids : worker[p] \in Alive}

\* What recovery may make of a state: the same, or the end of a worker that is gone.
Recovery(s, r) ==
    /\ r.pid = s.pid /\ r.started = s.started
    /\ \/ r.status = s.status
       \/ s.pid \notin Live /\ s.status \in {"RUNNING", "STOP_REQUESTED"} /\ r.status \in Resumable

\* A worker alive is the one the state names, or its launch is about to be written.
LiveIsNamed ==
    \A p \in Live :
        \/ state.pid = p /\ state.status \in {"RUNNING", "STOP_REQUESTED"}
        \/ \E c \in Callers : caller[c].at = "running" /\ caller[c].copy.pid = p

\* STARTING is written only while a launch is under way.
StartingIsUnderWay ==
    state.status = "STARTING" =>
        \E c \in Callers : caller[c].at \in {"launch", "running", "failed"}

\* What a caller has read is still so: nobody else writes.
CallerKnows(c) ==
    LET k == caller[c]
    IN  /\ k.at = "decide" => Recovery(state, k.copy)
        /\ k.at \in {"arm", "unflag", "starting"} => Live = {} /\ state.status \notin Active
        /\ k.at = "launch" => Live = {} /\ k.copy = state /\ state.status = "STARTING"
        /\ k.at = "failed" => /\ Live = {} /\ state.status = "STARTING"
                              /\ k.copy.status = "FAILED" /\ k.copy.started = state.started
        /\ k.at = "running" => /\ Live \subseteq {launches} /\ state.status = "STARTING"
                               /\ k.copy.status = "RUNNING" /\ k.copy.pid = launches
                               /\ k.copy.started = state.started
        /\ k.at \in {"flag", "request"} => k.copy = state

SerialInv ==
    /\ TypeOK
    /\ LiveIsNamed
    /\ StartingIsUnderWay
    /\ \A c \in Callers : CallerKnows(c)


USE CampaignAssumption DEF CampaignAssumption

-----------------------------------------------------------------------------
\* Recovery keeps pid and window, and ends only what a worker left behind.
LEMMA RecoveredFacts ==
    ASSUME TypeOK, NEW s \in File
    PROVE  /\ Recovered(s) \in File
           /\ Recovery(s, Recovered(s))
           /\ Recovered(s).status \in Active => Exists(s.pid) \/ s.status = "STARTING"
<1>1. CASE Exists(s.pid)
  BY <1>1 DEF Recovered, Recovery
<1>2. CASE ~Exists(s.pid)
  <2>1. s.pid \notin Live
    BY <1>2 DEF Exists, Live, Pids
  <2>2. CASE s.status = "RUNNING"
    BY <1>2, <2>1, <2>2 DEF Recovered, Recovery, File, Statuses, Resumable, Active
  <2>3. CASE s.status = "STOP_REQUESTED"
    BY <1>2, <2>1, <2>3 DEF Recovered, Recovery, File, Statuses, Resumable, Active
  <2>4. CASE s.status \notin {"RUNNING", "STOP_REQUESTED"}
    BY <1>2, <2>4 DEF Recovered, Recovery, File, Statuses, Resumable, Active
  <2>5. QED
    BY <2>2, <2>3, <2>4
<1>3. QED
  BY <1>1, <1>2

\* Every variable keeps its type, for any number of callers and any crashes.
THEOREM TypeCorrect == Spec => []TypeOK
<1>1. Init => TypeOK
  <2>1. Empty \in File
    BY DEF Empty, File, Statuses
  <2>2. Init => caller \in [Callers -> [command : {"none", "status", "start", "stop"},
                                       at : {"idle"} \cup Places, copy : File]]
    BY <2>1 DEF Init, Idle
  <2>3. 0 \in 0..MaxLaunch /\ 0 \in 0..MaxWindow
    OBVIOUS
  <2>4. QED
    BY <2>1, <2>2, <2>3 DEF Init, TypeOK
<1>2. TypeOK /\ [Next]_vars => TypeOK'
  <2> SUFFICES ASSUME TypeOK, [Next]_vars PROVE TypeOK'
    OBVIOUS
  <2> USE DEF TypeOK, Goto, Continue, Done, managed, workers, outside
  <2>1. ASSUME NEW c \in Callers, NEW command \in {"status", "start", "stop"}, Call(c, command)
        PROVE  TypeOK'
    <3>1. Recovered(state) \in File
      BY RecoveredFacts
    <3>2. QED
      BY <2>1, <3>1 DEF Call, Places
  <2>2. ASSUME NEW c \in Callers, Decide(c) PROVE TypeOK'
    BY <2>2 DEF Decide, Places, Idle, Empty, File, Statuses
  <2>3. ASSUME NEW c \in Callers, Arm(c) PROVE TypeOK'
    BY <2>3 DEF Arm, Places, Idle, Empty, File, Statuses
  <2>4. ASSUME NEW c \in Callers, Unflag(c) PROVE TypeOK'
    BY <2>4 DEF Unflag, Places
  <2>5. ASSUME NEW c \in Callers, Starting(c) PROVE TypeOK'
    <3> DEFINE resumes == state.status \in Resumable
               started == IF resumes THEN state.started ELSE clock + 1
               next == [status |-> "STARTING", pid |-> NoPid, started |-> started]
    <3>1. started \in 0..MaxWindow /\ (~resumes => clock + 1 \in 0..MaxWindow)
      BY <2>5 DEF Starting, File
    <3>2. next \in File
      BY <3>1 DEF File, Statuses, Active
    <3>3. /\ state' = next /\ clock' = (IF resumes THEN clock ELSE clock + 1)
          /\ Continue(c, "launch", next)
      BY <2>5 DEF Starting
    <3> HIDE DEF next, resumes
    <3>4. QED
      BY <2>5, <3>1, <3>2, <3>3 DEF Starting, Places
  <2>6. ASSUME NEW c \in Callers, Launch(c) PROVE TypeOK'
    <3>1. launches + 1 \in Pids /\ launches + 1 \in 0..MaxLaunch
      BY <2>6 DEF Launch, Pids
    <3>2. [caller[c].copy EXCEPT !.status = "RUNNING", !.pid = launches + 1] \in File
      BY <3>1 DEF File, Statuses, Active
    <3>3. QED
      BY <2>6, <3>1, <3>2 DEF Launch, Places, Alive
  <2>7. ASSUME NEW c \in Callers, LaunchFails(c) PROVE TypeOK'
    BY <2>7 DEF LaunchFails, Places, File, Statuses
  <2>8. ASSUME NEW c \in Callers, WriteLaunched(c) PROVE TypeOK'
    <3>1. caller[c].copy \in File /\ Recovered(caller[c].copy) \in File
      BY RecoveredFacts
    <3>2. QED
      BY <2>8, <3>1 DEF WriteLaunched, Places, Idle, Empty, File, Statuses
  <2>9. ASSUME NEW c \in Callers, Flag(c) PROVE TypeOK'
    BY <2>9 DEF Flag, Places
  <2>10. ASSUME NEW c \in Callers, Request(c) PROVE TypeOK'
    BY <2>10 DEF Request, Idle, Empty, File, Statuses, Active
  <2>11. ASSUME NEW c \in Callers, CallerCrash(c) PROVE TypeOK'
    BY <2>11 DEF CallerCrash, Idle, Empty, File, Statuses
  <2>12. ASSUME NEW p \in Pids, WorkerStep(p) PROVE TypeOK'
    BY <2>12 DEF WorkerStep, Boot, SeeFlag, BeginCycle, EndCycle, Stop, Leave, Alive
  <2>13. ASSUME NEW p \in Pids, WorkerCrash(p) PROVE TypeOK'
    BY <2>13 DEF WorkerCrash, Leave
  <2>14. ASSUME NEW p \in Pids, Recycle(p) PROVE TypeOK'
    BY <2>14 DEF Recycle
  <2>15. ASSUME RunByHand PROVE TypeOK'
    BY <2>15 DEF RunByHand
  <2>16. CASE UNCHANGED vars
    BY <2>16 DEF vars
  <2>17. QED
    BY <2>1, <2>2, <2>3, <2>4, <2>5, <2>6, <2>7, <2>8, <2>9, <2>10, <2>11, <2>12, <2>13,
       <2>14, <2>15, <2>16 DEF Next, Caller
<1>3. QED
  BY <1>1, <1>2, PTL DEF Spec

-----------------------------------------------------------------------------
\* Workers only ever die: what is known of the states stays so when no caller acts.
LEMMA WorkersDie ==
    ASSUME SerialInv, TypeOK', UNCHANGED <<state, caller, launches>>,
           \A p \in Pids : worker'[p] \in Alive => worker[p] \in Alive
    PROVE  SerialInv'
<1>1. Live' \subseteq Live
  BY DEF Live
<1>2. LiveIsNamed' /\ StartingIsUnderWay'
  BY <1>1 DEF SerialInv, LiveIsNamed, StartingIsUnderWay
<1>3. ASSUME NEW c \in Callers PROVE CallerKnows(c)'
  <2>1. CallerKnows(c)
    BY DEF SerialInv
  <2>2. Recovery(state, caller[c].copy) => Recovery(state, caller[c].copy)'
    BY <1>1 DEF Recovery
  <2>3. QED
    BY <1>1, <2>1, <2>2 DEF CallerKnows
<1>4. QED
  BY <1>2, <1>3 DEF SerialInv

\* A step of the one caller or of a worker keeps the invariant.
LEMMA SerialStep ==
    ASSUME Serial, SerialInv, TypeOK', [Next]_vars
    PROVE  SerialInv'
<1> USE DEF Continue, Goto, Done, managed, workers, outside
<1>1. ASSUME NEW c \in Callers, NEW command \in {"status", "start", "stop"}, Call(c, command)
      PROVE  SerialInv'
  <2>1. caller' = [caller EXCEPT ![c] =
                     [command |-> command, at |-> "decide", copy |-> Recovered(state)]]
    BY <1>1 DEF Call
  <2>2. caller[c].at = "idle" /\ caller'[c].at = "decide" /\ Recovery(state, caller'[c].copy)
    BY <1>1, <2>1, RecoveredFacts DEF Call, Idle, SerialInv, TypeOK
  <2>3. state' = state /\ Live' = Live
    BY <1>1 DEF Call, Live
  <2>4. LiveIsNamed' /\ StartingIsUnderWay'
    BY <1>1, <2>2, <2>3 DEF Serial, SerialInv, LiveIsNamed, StartingIsUnderWay
  <2>5. Recovery(state, caller[c].copy)'
    BY <2>2, <2>3 DEF Recovery
  <2>6. CallerKnows(c)'
    BY <2>2, <2>5 DEF CallerKnows
  <2>7. QED
    BY <2>4, <2>6 DEF Serial, SerialInv
<1>2. ASSUME NEW c \in Callers, Decide(c) PROVE SerialInv'
  <2> DEFINE k == caller[c]
  <2>1. /\ k.at = "decide" /\ Recovery(state, k.copy) /\ Live' = Live
        /\ state' = state \/ state' = k.copy
        /\ k.copy.status # "NOT_STARTED" => state' = k.copy
        /\ caller \in [Callers -> [command : {"none", "status", "start", "stop"},
                                   at : {"idle"} \cup Places, copy : File]]
    BY <1>2 DEF Decide, SerialInv, TypeOK, CallerKnows, Live
  <2>2. \A p \in Live : /\ state.pid = p /\ state.status \in {"RUNNING", "STOP_REQUESTED"}
                        /\ k.copy.pid = p /\ k.copy.status = state.status
    BY <2>1 DEF Serial, SerialInv, LiveIsNamed, Recovery
  <2>3. state.status # "STARTING" /\ k.copy.status # "STARTING"
    BY <2>1 DEF Serial, SerialInv, StartingIsUnderWay, Recovery, Resumable
  <2>4. LiveIsNamed'
    BY <2>1, <2>2 DEF LiveIsNamed
  <2>5. StartingIsUnderWay'
    BY <2>1, <2>3 DEF StartingIsUnderWay
  <2>6. CASE caller' = [caller EXCEPT ![c] = Idle]
    <3>1. caller'[c].at = "idle"
      BY <2>1, <2>6 DEF Idle
    <3>2. QED
      BY <2>4, <2>5, <3>1 DEF Serial, SerialInv, CallerKnows
  <2>7. CASE /\ caller' = [caller EXCEPT ![c] = [command |-> @.command, at |-> "arm", copy |-> k.copy]]
             /\ k.copy.status \notin Active
    <3>1. caller'[c].at = "arm" /\ Live = {}
      BY <2>1, <2>2, <2>7 DEF Active
    <3>2. CASE k.copy.status = "NOT_STARTED"
      BY <2>1, <2>4, <2>5, <2>7, <3>1, <3>2
         DEF Serial, SerialInv, CallerKnows, Recovery, Resumable, Active
    <3>3. CASE k.copy.status # "NOT_STARTED"
      BY <2>1, <2>4, <2>5, <2>7, <3>1, <3>3 DEF Serial, SerialInv, CallerKnows
    <3>4. QED
      BY <3>2, <3>3
  <2>8. CASE /\ caller' = [caller EXCEPT ![c] = [command |-> @.command, at |-> "flag", copy |-> k.copy]]
             /\ k.copy.status \in {"STARTING", "RUNNING"}
    <3>1. caller'[c].at = "flag" /\ caller'[c].copy = state'
      BY <2>1, <2>8
    <3>2. QED
      BY <2>4, <2>5, <3>1 DEF Serial, SerialInv, CallerKnows
  <2>9. QED
    BY <1>2, <2>6, <2>7, <2>8 DEF Decide
<1>3. ASSUME NEW c \in Callers, Arm(c) PROVE SerialInv'
  <2>1. caller[c].at = "arm" /\ state' = state /\ Live' = Live /\ caller'[c].at \in {"unflag", "idle"}
    BY <1>3 DEF Arm, Live, SerialInv, TypeOK, Idle
  <2>2. Live = {} /\ state.status \notin Active
    BY <2>1 DEF SerialInv, CallerKnows
  <2>3. QED
    BY <2>1, <2>2 DEF Serial, SerialInv, LiveIsNamed, StartingIsUnderWay, CallerKnows, Active
<1>4. ASSUME NEW c \in Callers, Unflag(c) PROVE SerialInv'
  <2>1. caller[c].at = "unflag" /\ state' = state /\ Live' = Live /\ caller'[c].at = "starting"
    BY <1>4 DEF Unflag, Live, SerialInv, TypeOK
  <2>2. Live = {} /\ state.status \notin Active
    BY <2>1 DEF SerialInv, CallerKnows
  <2>3. QED
    BY <2>1, <2>2 DEF Serial, SerialInv, LiveIsNamed, StartingIsUnderWay, CallerKnows, Active
<1>5. ASSUME NEW c \in Callers, Starting(c) PROVE SerialInv'
  <2>1. /\ caller[c].at = "starting" /\ Live' = Live
        /\ state'.status = "STARTING" /\ caller'[c].at = "launch" /\ caller'[c].copy = state'
    BY <1>5 DEF Starting, Live, SerialInv, TypeOK
  <2>2. Live = {}
    BY <2>1 DEF SerialInv, CallerKnows
  <2>3. QED
    BY <2>1, <2>2 DEF Serial, SerialInv, LiveIsNamed, StartingIsUnderWay, CallerKnows
<1>6. ASSUME NEW c \in Callers, Launch(c) PROVE SerialInv'
  <2> DEFINE pid == launches + 1
  <2>1. caller[c].at = "launch" /\ Live = {} /\ caller[c].copy = state /\ state.status = "STARTING"
    BY <1>6 DEF Launch, SerialInv, CallerKnows
  <2>2. /\ state' = state /\ launches' = pid
        /\ worker' = [worker EXCEPT ![pid] = "booting"]
        /\ caller'[c].at = "running"
        /\ caller'[c].copy = [caller[c].copy EXCEPT !.status = "RUNNING", !.pid = pid]
    BY <1>6 DEF Launch, SerialInv, TypeOK
  <2>3. Live' \subseteq {pid}
    BY <2>1, <2>2 DEF Live, SerialInv, TypeOK
  <2>4. /\ caller'[c].copy.status = "RUNNING" /\ caller'[c].copy.pid = pid
        /\ caller'[c].copy.started = state.started
    BY <2>1, <2>2 DEF SerialInv, TypeOK, File
  <2>5. CallerKnows(c)'
    BY <2>1, <2>2, <2>3, <2>4 DEF CallerKnows
  <2>6. LiveIsNamed' /\ StartingIsUnderWay'
    BY <2>2, <2>3, <2>4 DEF LiveIsNamed, StartingIsUnderWay
  <2>7. QED
    BY <2>5, <2>6 DEF Serial, SerialInv
<1>7. ASSUME NEW c \in Callers, LaunchFails(c) PROVE SerialInv'
  <2>1. caller[c].at = "launch" /\ Live = {} /\ caller[c].copy = state /\ state.status = "STARTING"
    BY <1>7 DEF LaunchFails, SerialInv, CallerKnows
  <2>2. /\ state' = state /\ Live' = Live /\ caller'[c].at = "failed"
        /\ caller'[c].copy = [caller[c].copy EXCEPT !.status = "FAILED"]
    BY <1>7 DEF LaunchFails, SerialInv, TypeOK, Live
  <2>3. caller'[c].copy.status = "FAILED" /\ caller'[c].copy.started = state.started
    BY <2>1, <2>2 DEF SerialInv, TypeOK, File
  <2>4. CallerKnows(c)'
    BY <2>1, <2>2, <2>3 DEF CallerKnows
  <2>5. LiveIsNamed' /\ StartingIsUnderWay'
    BY <2>1, <2>2 DEF LiveIsNamed, StartingIsUnderWay
  <2>6. QED
    BY <2>4, <2>5 DEF Serial, SerialInv
<1>8. ASSUME NEW c \in Callers, WriteLaunched(c) PROVE SerialInv'
  <2>1. /\ caller[c].at \in {"running", "failed"} /\ Live' = Live
        /\ state' = caller[c].copy /\ state' \in File
    BY <1>8 DEF WriteLaunched, Live, SerialInv, TypeOK
  <2>2. CASE caller[c].at = "failed"
    <3>1. Live = {} /\ state'.status = "FAILED"
      BY <2>1, <2>2 DEF SerialInv, CallerKnows
    <3>2. caller'[c].at = "idle"
      BY <1>8, <2>2 DEF WriteLaunched, SerialInv, TypeOK, Idle
    <3>3. QED
      BY <2>1, <3>1, <3>2 DEF Serial, SerialInv, LiveIsNamed, StartingIsUnderWay, CallerKnows
  <2>3. CASE caller[c].at = "running"
    <3>1. Live \subseteq {launches} /\ state'.status = "RUNNING" /\ state'.pid = launches
      BY <2>1, <2>3 DEF SerialInv, CallerKnows
    <3>2. caller'[c].at = "decide" /\ caller'[c].copy = Recovered(caller[c].copy)
      BY <1>8, <2>3 DEF WriteLaunched, SerialInv, TypeOK
    <3>3. Recovery(caller[c].copy, caller'[c].copy)
      BY <2>1, <3>2, RecoveredFacts DEF SerialInv
    <3>4. Recovery(state, caller[c].copy)'
      BY <2>1, <3>3 DEF Recovery
    <3>5. LiveIsNamed' /\ StartingIsUnderWay'
      BY <2>1, <3>1 DEF LiveIsNamed, StartingIsUnderWay
    <3>6. CallerKnows(c)'
      BY <3>2, <3>4 DEF CallerKnows
    <3>7. QED
      BY <3>5, <3>6 DEF Serial, SerialInv
  <2>4. QED
    BY <2>1, <2>2, <2>3
<1>9. ASSUME NEW c \in Callers, Flag(c) PROVE SerialInv'
  <2>1. /\ caller[c].at = "flag" /\ state' = state /\ Live' = Live
        /\ caller'[c].at = "request" /\ caller'[c].copy = caller[c].copy
    BY <1>9 DEF Flag, Live, SerialInv, TypeOK
  <2>2. caller[c].copy = state
    BY <2>1 DEF SerialInv, CallerKnows
  <2>3. QED
    BY <2>1, <2>2 DEF Serial, SerialInv, LiveIsNamed, StartingIsUnderWay, CallerKnows
<1>10. ASSUME NEW c \in Callers, Request(c) PROVE SerialInv'
  <2>1. caller[c].at = "request" /\ caller[c].copy = state
    BY <1>10 DEF Request, SerialInv, CallerKnows
  <2>2. /\ state' = [state EXCEPT !.status = "STOP_REQUESTED"] /\ Live' = Live
        /\ caller'[c].at = "idle"
    BY <1>10, <2>1 DEF Request, Live, SerialInv, TypeOK, Idle
  <2>3. state'.status = "STOP_REQUESTED" /\ state'.pid = state.pid
    BY <2>2 DEF SerialInv, TypeOK, File
  <2>4. QED
    BY <2>1, <2>2, <2>3 DEF Serial, SerialInv, LiveIsNamed, StartingIsUnderWay, CallerKnows
<1>11. ASSUME NEW c \in Callers, CallerCrash(c) PROVE SerialInv'
  <2>1. /\ caller[c].at \notin {"launch", "running", "failed"} /\ state' = state /\ Live' = Live
        /\ caller'[c].at = "idle"
    BY <1>11 DEF CallerCrash, Serial, Live, SerialInv, TypeOK, Idle
  <2>2. QED
    BY <2>1 DEF Serial, SerialInv, LiveIsNamed, StartingIsUnderWay, CallerKnows
<1>12. ASSUME NEW p \in Pids, WorkerStep(p) PROVE SerialInv'
  BY <1>12, WorkersDie
     DEF WorkerStep, Boot, SeeFlag, BeginCycle, EndCycle, Stop, Leave, Alive, SerialInv, TypeOK
<1>13. ASSUME NEW p \in Pids, WorkerCrash(p) PROVE SerialInv'
  BY <1>13, WorkersDie DEF WorkerCrash, Leave, Alive, SerialInv, TypeOK
<1>14. ASSUME NEW p \in Pids, Recycle(p) PROVE SerialInv'
  BY <1>14, WorkersDie DEF Recycle
<1>15. ASSUME RunByHand PROVE SerialInv'
  BY <1>15, WorkersDie DEF RunByHand
<1>16. CASE UNCHANGED vars
  BY <1>16, WorkersDie DEF vars
<1>17. QED
  BY <1>1, <1>2, <1>3, <1>4, <1>5, <1>6, <1>7, <1>8, <1>9, <1>10, <1>11, <1>12, <1>13,
     <1>14, <1>15, <1>16 DEF Next, Caller

-----------------------------------------------------------------------------
\* The invariant holds from the start: no worker, no caller under way.
LEMMA SerialAlways == Serial => (Spec => []SerialInv)
<1> SUFFICES ASSUME Serial PROVE Spec => []SerialInv
  OBVIOUS
<1>1. TypeOK /\ Init => SerialInv
  BY DEF Init, SerialInv, LiveIsNamed, StartingIsUnderWay, CallerKnows, Live, Alive, Empty, Idle
<1>2. SerialInv /\ TypeOK' /\ [Next]_vars => SerialInv'
  BY SerialStep
<1>3. QED
  BY <1>1, <1>2, TypeCorrect, PTL DEF Spec

\* STOPPED and STALE_RECOVERED are true: with calls one after another the control
\* center never reports the end of a worker that still collects evidence.
THEOREM SerialStopIsReal == Serial => (Spec => []ReportedStopIsReal)
<1> SUFFICES ASSUME Serial PROVE Spec => []ReportedStopIsReal
  OBVIOUS
<1>1. SerialInv => ReportedStopIsReal
  BY DEF SerialInv, LiveIsNamed, ReportedStopIsReal, Live, Resumable, Idle
<1>2. QED
  BY <1>1, SerialAlways, PTL

\* The worker that collects evidence is the one the operator can stop.
THEOREM SerialWorkerIsManaged == Serial => (Spec => []WorkerIsManaged)
<1> SUFFICES ASSUME Serial PROVE Spec => []WorkerIsManaged
  OBVIOUS
<1>1. SerialInv => WorkerIsManaged
  BY DEF SerialInv, LiveIsNamed, WorkerIsManaged, Live, Alive, Active
<1>2. QED
  BY <1>1, SerialAlways, PTL

\* A call of start that campaign_status answers with an active campaign.
Refused(c) ==
    /\ caller[c] = Idle /\ caller'[c].command = "start"
    /\ caller'[c].copy.status \in Active

LEMMA RefusedIsCalled ==
    ASSUME TypeOK, [Next]_vars, NEW c \in Callers, Refused(c)
    PROVE  state \in File /\ caller'[c].copy = Recovered(state)
<1>1. caller[c].at = "idle" /\ caller[c].command = "none" /\ caller'[c].command # caller[c].command
  BY DEF Idle, Refused
<1>2. Call(c, "start")
  <2>1. ASSUME NEW d \in Callers, NEW command \in {"status", "start", "stop"}, Call(d, command)
        PROVE  Call(c, "start")
    BY <1>1, <2>1 DEF Refused, Call, TypeOK
  <2>2. ASSUME NEW d \in Callers,
               \/ Decide(d) \/ Arm(d) \/ Unflag(d) \/ Starting(d) \/ Launch(d) \/ LaunchFails(d)
               \/ WriteLaunched(d) \/ Flag(d) \/ Request(d) \/ CallerCrash(d)
        PROVE  FALSE
    <3>1. caller[d].at \in Places
      BY <2>2, CampaignAssumption DEF Decide, Arm, Unflag, Starting, Launch, LaunchFails,
           WriteLaunched, Flag, Request, CallerCrash, Places
    <3>2. d # c
      BY <1>1, <3>1 DEF Places
    <3>3. caller'[c] = caller[c]
      BY <2>2, <3>2 DEF TypeOK, Decide, Arm, Unflag, Starting, Launch, LaunchFails,
           WriteLaunched, Flag, Request, CallerCrash, Continue, Goto, Done
    <3>4. QED
      BY <1>1, <3>3
  <2>3. ASSUME NEW p \in Pids, WorkerStep(p) \/ WorkerCrash(p) \/ Recycle(p) PROVE FALSE
    BY <1>1, <2>3 DEF WorkerStep, Boot, SeeFlag, BeginCycle, EndCycle, Stop, WorkerCrash,
         Leave, Recycle, outside
  <2>4. ~RunByHand /\ ~UNCHANGED vars
    BY <1>1 DEF RunByHand, outside, vars
  <2>5. QED
    BY <2>1, <2>2, <2>3, <2>4 DEF Next, Caller
<1>3. QED
  BY <1>2 DEF Call, TypeOK

\* However many callers overlap, and wherever they die: start_campaign raises "already
\* active" only while some program, the worker or another one, answers under the
\* recorded pid, or on a STARTING, which recovery leaves alone: the STARTING of a start
\* that died inside its launch is refused until somebody stops the campaign.
THEOREM RefusalHasACause ==
    Spec => [][\A c \in Callers :
                 Refused(c) => Exists(caller'[c].copy.pid) \/ state.status = "STARTING"]_vars
<1>1. ASSUME TypeOK, [Next]_vars, NEW c \in Callers, Refused(c)
      PROVE  Exists(caller'[c].copy.pid) \/ state.status = "STARTING"
  <2>1. caller'[c].copy = Recovered(state) /\ state \in File
    BY <1>1, RefusedIsCalled
  <2>2. Recovery(state, Recovered(state))
    BY <1>1, <2>1, RecoveredFacts
  <2>3. QED
    BY <1>1, <2>1, <2>2, RecoveredFacts DEF Refused, Recovery
<1>2. TypeOK /\ [Next]_vars =>
        [\A c \in Callers :
            Refused(c) => Exists(caller'[c].copy.pid) \/ state.status = "STARTING"]_vars
  BY <1>1
<1>3. QED
  BY <1>2, TypeCorrect, PTL DEF Spec

\* With one caller at a time that completes the launches it begins, no STARTING is left
\* behind: a start is refused only while some program, the worker or another one, answers
\* under the recorded pid. The hypothesis excludes the start that dies inside its launch,
\* after which RefusalHasACause is all that can be said.
THEOREM SerialRefusal == Serial => (Spec => RefusedOnlyWhileAlive)
<1> SUFFICES ASSUME Serial PROVE Spec => RefusedOnlyWhileAlive
  OBVIOUS
<1>1. ASSUME SerialInv, [Next]_vars, NEW c \in Callers, Refused(c)
      PROVE  Exists(caller'[c].copy.pid)
  <2>1. caller'[c].copy = Recovered(state) /\ state \in File
    BY <1>1, RefusedIsCalled DEF SerialInv
  <2>2. state.status # "STARTING"
    BY <1>1 DEF Refused, Idle, Serial, SerialInv, StartingIsUnderWay
  <2>3. Recovery(state, Recovered(state))
    BY <1>1, <2>1, RecoveredFacts DEF SerialInv
  <2>4. QED
    BY <1>1, <2>1, <2>2, <2>3, RecoveredFacts DEF SerialInv, Refused, Recovery
<1>2. SerialInv /\ [Next]_vars => [\A c \in Callers : Refused(c) => Exists(caller'[c].copy.pid)]_vars
  BY <1>1
<1>3. QED
  BY <1>2, SerialAlways, PTL DEF Spec, RefusedOnlyWhileAlive, Refused

\* The observation window of the campaign survives every stop, crash and restart.
THEOREM SerialWindowKept == Serial => (Spec => WindowKept)
<1> SUFFICES ASSUME Serial PROVE Spec => WindowKept
  OBVIOUS
<1> DEFINE Kept == state'.started # state.started => state.status \in {"NOT_STARTED", "FAILED"}
<1>1. ASSUME SerialInv, Next PROVE Kept
  <2> USE <1>1 DEF Continue, Goto, Done, managed, workers, outside
  <2>1. ASSUME NEW c \in Callers, Decide(c) PROVE Kept
    BY <2>1 DEF Decide, SerialInv, CallerKnows, Recovery
  <2>2. ASSUME NEW c \in Callers, Starting(c) PROVE Kept
    <3>1. state.status \notin Active /\ (state'.started # state.started => state.status \notin Resumable)
      BY <2>2 DEF Starting, SerialInv, CallerKnows
    <3>2. QED
      BY <3>1 DEF SerialInv, TypeOK, File, Statuses
  <2>3. ASSUME NEW c \in Callers, WriteLaunched(c) PROVE Kept
    BY <2>3 DEF WriteLaunched, SerialInv, CallerKnows
  <2>4. ASSUME NEW c \in Callers, Request(c) PROVE Kept
    BY <2>4 DEF Request, SerialInv, TypeOK, CallerKnows, File
  <2>5. ASSUME NEW c \in Callers, NEW command \in {"status", "start", "stop"},
               \/ Call(c, command) \/ Arm(c) \/ Unflag(c) \/ Launch(c) \/ LaunchFails(c)
               \/ Flag(c) \/ CallerCrash(c)
        PROVE  Kept
    BY <2>5 DEF Call, Arm, Unflag, Launch, LaunchFails, Flag, CallerCrash
  <2>6. ASSUME NEW p \in Pids, WorkerStep(p) \/ WorkerCrash(p) \/ Recycle(p) PROVE Kept
    BY <2>6 DEF WorkerStep, Boot, SeeFlag, BeginCycle, EndCycle, Stop, WorkerCrash, Leave, Recycle
  <2>7. CASE RunByHand
    BY <2>7 DEF RunByHand
  <2>8. QED
    BY <2>1, <2>2, <2>3, <2>4, <2>5, <2>6, <2>7 DEF Next, Caller
<1>2. SerialInv /\ [Next]_vars => [Kept]_vars
  BY <1>1
<1>3. QED
  BY <1>2, SerialAlways, PTL DEF Spec, WindowKept
=============================================================================
