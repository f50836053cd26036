--------------------------- MODULE Orchestrator_proofs ---------------------------
(***************************************************************************)
(* Proofs about the two modules of orchestrator.py.  PaperCycle, for any   *)
(* number of cycles, any steps, operator commands and readiness levels:    *)
(* the stop flag, the armed mode, the empty skipped cycle and the audit of *)
(* every counted cycle.  ProcessLock, for any set of pids: when launches   *)
(* do not overlap, at most one orchestrator runs; however they overlap, a  *)
(* lock that has settled stays until its holder leaves.                    *)
(***************************************************************************)
EXTENDS PaperCycle, ProcessLock, TLAPS

\* A command under way has a name; a cycle under way has a number, and room for its
\* row until it is written.
UnderWay ==
    /\ op.at # "begin" => op.command \in Commands \ {"signal"}
    /\ InCycle => number >= 1
    /\ InCycle /\ pc # "state" => Len(history) < MaxHistory

TypeInv == TypeOK /\ UnderWay

-----------------------------------------------------------------------------
\* Both lists of commands begin with a step.
LEMMA FirstStep == 1 \in 1..Len(CycleSteps) /\ 1 \in 1..Len(MaintenanceSteps)
  BY CycleAssumption DEF CycleAssumption

\* A process that is down has number 0, and an idle operator no command.
LEMMA AtRest ==
    /\ MaxNumber \in Nat /\ MaxHistory \in Nat
    /\ Levels \subseteq {"BLOCKED", "RESEARCH", "STRATEGY"}
    /\ Idle \in [command : Commands \cup {"none"}, at : {"begin", "flag", "truncate", "fill"}]
    /\ Idle.at = "begin"
    /\ NoOutcome \in [failed : BOOLEAN, skipped : BOOLEAN, maintenanceFailed : BOOLEAN]
  BY CycleAssumption DEF CycleAssumption, Idle, NoOutcome

\* A step's result only adds to the outcome.
LEMMA TallyKeepsType ==
    ASSUME TypeOK, NEW code
    PROVE  Tally(code) \in [failed : BOOLEAN, skipped : BOOLEAN, maintenanceFailed : BOOLEAN]
<1> DEFINE Outcome == [failed : BOOLEAN, skipped : BOOLEAN, maintenanceFailed : BOOLEAN]
<1>1. outcome \in Outcome
  BY DEF TypeOK
<1>2. /\ [outcome EXCEPT !.skipped = TRUE] \in Outcome
      /\ [outcome EXCEPT !.maintenanceFailed = TRUE] \in Outcome
      /\ [outcome EXCEPT !.failed = TRUE] \in Outcome
  BY <1>1
<1> HIDE DEF Outcome
<1>3. Tally(code) \in Outcome
  BY <1>1, <1>2 DEF Tally
<1>4. QED
  BY <1>3 DEF Outcome

\* Every variable keeps its type, and the bounds on numbers and rows are kept.
THEOREM TypeCorrect == Spec => []TypeOK
<1>1. Init => TypeInv
  <2>1. <<>> \in Seq(Row) /\ Len(<<>>) = 0
    OBVIOUS
  <2>2. Init => /\ maintaining \in BOOLEAN /\ observed \in BOOLEAN /\ flagAtStart \in BOOLEAN
                /\ stopAsked \in BOOLEAN /\ stopFlag \in BOOLEAN
                /\ step \in 1..Len(Running)
    BY FirstStep DEF Init, Running
  <2>3. QED
    BY <2>1, <2>2, AtRest DEF Init, TypeInv, TypeOK, UnderWay, InCycle, Running, Attempts
<1>2. TypeInv /\ [Next]_vars => TypeInv'
  <2> SUFFICES ASSUME TypeInv, [Next]_vars PROVE TypeInv'
    OBVIOUS
  <2> USE DEF TypeInv, TypeOK, UnderWay, InCycle, Running, Attempts, cycleVars, stepVars, files,
              operatorVars, outside, ghosts
  <2>1. ASSUME NEW c \in Commands \ {"signal"}, OperatorBegin(c) PROVE TypeInv'
    BY <2>1 DEF OperatorBegin
  <2>2. CASE OperatorFlag
    BY <2>2 DEF OperatorFlag, Touch, Kind
  <2>3. CASE OperatorTruncate
    BY <2>3, AtRest DEF OperatorTruncate, Touch, Kind
  <2>4. CASE OperatorFill
    <3>1. Target(op.command) \in {"DISARMED", "RESEARCH", "STRATEGY"}
      BY <2>4, CycleAssumption DEF CycleAssumption, OperatorFill, Target
    <3>2. QED
      BY <2>4, <3>1, AtRest DEF OperatorFill, Touch, Kind
  <2>5. CASE EvidenceChanges
    BY <2>5 DEF EvidenceChanges
  <2>6. CASE Launch
    BY <2>6 DEF Launch
  <2>7. CASE Begin
    BY <2>7, AtRest DEF Begin
  <2>8. CASE Quit
    <3>1. stopAsked' \in BOOLEAN
      BY <2>8 DEF Quit
    <3>2. QED
      BY <2>8, <3>1, AtRest DEF Quit
  <2>9. CASE Refresh
    BY <2>9 DEF Refresh
  <2>10. CASE CheckFlag
    BY <2>10 DEF CheckFlag
  <2>11. CASE LoadArm
    BY <2>11, AtRest DEF LoadArm, AfterArm, Mode
  <2>12. CASE TruncateArm
    BY <2>12 DEF TruncateArm
  <2>13. CASE FillArm
    BY <2>13 DEF FillArm, AfterArm
  <2>14. CASE ScanGate
    BY <2>14 DEF ScanGate
  <2>15. CASE ScanAppend
    <3>1. observed' \in BOOLEAN
      BY <2>15 DEF ScanAppend
    <3>2. QED
      BY <2>15, <3>1 DEF ScanAppend
  <2>16. CASE Retry
    BY <2>16 DEF Retry
  <2>17. CASE NextStep
    <3>1. outcome' \in [failed : BOOLEAN, skipped : BOOLEAN, maintenanceFailed : BOOLEAN]
      BY <2>17, TallyKeepsType DEF NextStep
    <3>2. step' \in 1..Len(Running)
      BY <2>17 DEF NextStep
    <3>3. QED
      BY <2>17, <3>1, <3>2 DEF NextStep
  <2>18. CASE EndCommands
    <3>1. outcome' \in [failed : BOOLEAN, skipped : BOOLEAN, maintenanceFailed : BOOLEAN]
      BY <2>18, TallyKeepsType DEF EndCommands
    <3>2. CASE /\ maintaining' = TRUE /\ step' = 1 /\ attempt' = 1 /\ pc' = "attempt"
      BY <2>18, <3>1, <3>2, FirstStep DEF EndCommands
    <3>3. CASE /\ UNCHANGED <<maintaining, step, attempt>>
               /\ pc' = IF maintaining THEN "refresh" ELSE "last"
      BY <2>18, <3>1, <3>3 DEF EndCommands
    <3>4. QED
      BY <2>18, <3>2, <3>3 DEF EndCommands
  <2>19. CASE WriteLastCycle
    BY <2>19 DEF WriteLastCycle
  <2>20. CASE AppendHistory
    <3>1. CurrentRow \in Row
      <4>1. Due(number) \in BOOLEAN /\ Status \in {"SKIPPED_DUE_TO_NETWORK",
                "COMPLETE_WITH_STEP_FAILURES", "COMPLETE_WITH_MAINTENANCE_WARNINGS", "COMPLETE"}
        BY DEF Due, Status
      <4>2. QED
        BY <2>20, <4>1 DEF AppendHistory, CurrentRow, Row
    <3>2. QED
      BY <2>20, <3>1, AtRest DEF AppendHistory
  <2>21. CASE SaveState
    <3>1. maintaining' \in BOOLEAN /\ observed' \in BOOLEAN /\ flagAtStart' \in BOOLEAN
      BY <2>21 DEF SaveState, LocalsGone
    <3>2. step' \in 1..Len(Running')
      BY <2>21, FirstStep DEF SaveState, LocalsGone
    <3>3. QED
      BY <2>21, <3>1, <3>2, AtRest DEF SaveState, LocalsGone
  <2>22. CASE Signal
    BY <2>22 DEF Signal
  <2>23. CASE Crash
    <3>1. /\ maintaining' \in BOOLEAN /\ observed' \in BOOLEAN /\ flagAtStart' \in BOOLEAN
          /\ stopAsked' \in BOOLEAN
      BY <2>23 DEF Crash, LocalsGone
    <3>2. step' \in 1..Len(Running')
      BY <2>23, FirstStep DEF Crash, LocalsGone
    <3>3. QED
      BY <2>23, <3>1, <3>2, AtRest DEF Crash, LocalsGone
  <2>24. CASE UNCHANGED vars
    BY <2>24 DEF vars
  <2>25. QED
    BY <2>1, <2>2, <2>3, <2>4, <2>5, <2>6, <2>7, <2>8, <2>9, <2>10, <2>11, <2>12, <2>13, <2>14,
       <2>15, <2>16, <2>17, <2>18, <2>19, <2>20, <2>21, <2>22, <2>23, <2>24
       DEF Next, Operator, CycleStep
<1>3. TypeInv => TypeOK
  BY DEF TypeInv
<1>4. QED
  BY <1>1, <1>2, <1>3, PTL DEF Spec

-----------------------------------------------------------------------------
\* Under the stop flag a cycle goes through a write of DISARMED before its steps, and
\* nothing but an arming command can put another mode in place of it.
StopInv ==
    /\ op.at = "flag" => op.command \in {"disarm", "arm_research"}
    /\ ~InCycle => ~flagAtStart /\ ~observed
    /\ flagAtStart /\ "arm" \notin touched =>
          /\ stopFlag /\ ~observed
          /\ pc \notin {"load", "append"}
          /\ pc \in {"truncate", "fill"} => desired = "DISARMED"
          /\ pc \in {"attempt", "exit", "last", "row", "state"} => Mode(arm) = "DISARMED"

LEMMA StopStep ==
    ASSUME TypeOK, StopInv, [Next]_vars
    PROVE  StopInv'
<1>0. \A at \in {"truncate", "fill"} : [op EXCEPT !.at = at].at = at
  BY DEF TypeOK
<1> USE DEF StopInv, InCycle, cycleVars, stepVars, files, operatorVars, outside, ghosts
<1>1. ASSUME NEW c \in Commands \ {"signal"}, OperatorBegin(c) PROVE StopInv'
  BY <1>1 DEF OperatorBegin
<1>2. CASE OperatorFlag
  <2>1. CASE op.command = "disarm"
    BY <1>0, <1>2, <2>1 DEF OperatorFlag, Touch, Kind, Target
  <2>2. CASE op.command = "arm_research"
    BY <1>0, <1>2, <2>2 DEF OperatorFlag, Touch, Kind, Target
  <2>3. QED
    BY <1>2, <2>1, <2>2 DEF OperatorFlag
<1>3. CASE OperatorTruncate
  <2>1. CASE op' = Idle /\ UNCHANGED <<arm, touched>>
    BY <1>3, <2>1 DEF OperatorTruncate, Idle
  <2>2. CASE arm' = "TORN" /\ op' = [op EXCEPT !.at = "fill"] /\ Touch
    <3>1. touched \subseteq touched' /\ op'.at = "fill" /\ Mode(arm') = "DISARMED"
      BY <1>0, <2>2 DEF Touch, Mode
    <3>2. QED
      BY <1>3, <3>1 DEF OperatorTruncate
  <2>3. QED
    BY <1>3, <2>1, <2>2 DEF OperatorTruncate
<1>4. CASE OperatorFill
  BY <1>4 DEF OperatorFill, Touch, Kind, Mode, Idle
<1>5. CASE EvidenceChanges
  BY <1>5 DEF EvidenceChanges
<1>6. CASE Launch
  BY <1>6 DEF Launch
<1>7. CASE Begin
  BY <1>7 DEF Begin
<1>8. CASE Quit
  BY <1>8 DEF Quit
<1>9. CASE Refresh
  BY <1>9 DEF Refresh
<1>10. CASE CheckFlag
  BY <1>10 DEF CheckFlag
<1>11. CASE LoadArm
  BY <1>11 DEF LoadArm, AfterArm, Mode
<1>12. CASE TruncateArm
  BY <1>12 DEF TruncateArm, Mode
<1>13. CASE FillArm
  BY <1>13 DEF FillArm, AfterArm, Mode
<1>14. CASE ScanGate
  BY <1>14 DEF ScanGate, Supports, Mode
<1>15. CASE ScanAppend
  BY <1>15 DEF ScanAppend
<1>16. CASE Retry
  BY <1>16 DEF Retry
<1>17. CASE NextStep
  BY <1>17 DEF NextStep
<1>18. CASE EndCommands
  BY <1>18 DEF EndCommands
<1>19. CASE WriteLastCycle
  BY <1>19 DEF WriteLastCycle
<1>20. CASE AppendHistory
  BY <1>20 DEF AppendHistory
<1>21. CASE SaveState
  BY <1>21 DEF SaveState, LocalsGone
<1>22. CASE Signal
  BY <1>22 DEF Signal
<1>23. CASE Crash
  BY <1>23 DEF Crash, LocalsGone
<1>24. CASE UNCHANGED vars
  BY <1>24 DEF vars
<1>25. QED
  BY <1>1, <1>2, <1>3, <1>4, <1>5, <1>6, <1>7, <1>8, <1>9, <1>10, <1>11, <1>12, <1>13, <1>14,
     <1>15, <1>16, <1>17, <1>18, <1>19, <1>20, <1>21, <1>22, <1>23, <1>24
     DEF Next, Operator, CycleStep

\* A cycle begun under the operator's stop flag records no observation unless the
\* operator arms during it, whatever crashes and races earlier cycles went through.
THEOREM StopIsKept == Spec => []StoppedCycleRecordsNothing
<1>1. Init => StopInv
  BY DEF Init, StopInv, InCycle, Idle
<1>2. TypeOK /\ StopInv /\ [Next]_vars => StopInv'
  BY StopStep
<1>3. StopInv => StoppedCycleRecordsNothing
  BY DEF StopInv, StoppedCycleRecordsNothing
<1>4. QED
  BY <1>1, <1>2, <1>3, TypeCorrect, PTL DEF Spec

-----------------------------------------------------------------------------
\* With no stop flag and no operator's write since the cycle began, what is written
\* and what is on disk before the steps is the mode readiness allows.
ReadyInv ==
    InCycle /\ ~flagAtStart /\ touched = {} =>
        /\ ~stopFlag
        /\ pc \in {"truncate", "fill"} => desired = ready /\ ready # "BLOCKED"
        /\ pc \in {"attempt", "append", "exit", "last", "row", "state"} =>
              ready = "BLOCKED" \/ Mode(arm) = ready

LEMMA ReadyStep ==
    ASSUME TypeOK, ReadyInv, [Next]_vars
    PROVE  ReadyInv'
<1>0. ready \in {"BLOCKED", "RESEARCH", "STRATEGY"}
  BY AtRest DEF TypeOK
<1> USE DEF ReadyInv, InCycle, cycleVars, stepVars, files, operatorVars, outside, ghosts
<1>1. ASSUME NEW c \in Commands \ {"signal"}, OperatorBegin(c) PROVE ReadyInv'
  BY <1>1 DEF OperatorBegin
<1>2. CASE OperatorFlag
  BY <1>2 DEF OperatorFlag, Touch
<1>3. CASE OperatorTruncate
  BY <1>3 DEF OperatorTruncate, Touch
<1>4. CASE OperatorFill
  BY <1>4 DEF OperatorFill, Touch
<1>5. CASE EvidenceChanges
  BY <1>5 DEF EvidenceChanges
<1>6. CASE Launch
  BY <1>6 DEF Launch
<1>7. CASE Begin
  BY <1>7 DEF Begin
<1>8. CASE Quit
  BY <1>8 DEF Quit
<1>9. CASE Refresh
  BY <1>9 DEF Refresh
<1>10. CASE CheckFlag
  BY <1>10 DEF CheckFlag
<1>11. CASE LoadArm
  BY <1>11, <1>0 DEF LoadArm, AfterArm, Mode
<1>12. CASE TruncateArm
  BY <1>12 DEF TruncateArm
<1>13. CASE FillArm
  BY <1>13, <1>0 DEF FillArm, AfterArm, Mode
<1>14. CASE ScanGate
  BY <1>14 DEF ScanGate
<1>15. CASE ScanAppend
  BY <1>15 DEF ScanAppend
<1>16. CASE Retry
  BY <1>16 DEF Retry
<1>17. CASE NextStep
  BY <1>17 DEF NextStep
<1>18. CASE EndCommands
  BY <1>18 DEF EndCommands
<1>19. CASE WriteLastCycle
  BY <1>19 DEF WriteLastCycle
<1>20. CASE AppendHistory
  BY <1>20 DEF AppendHistory
<1>21. CASE SaveState
  BY <1>21 DEF SaveState
<1>22. CASE Signal
  BY <1>22 DEF Signal
<1>23. CASE Crash
  BY <1>23 DEF Crash
<1>24. CASE UNCHANGED vars
  BY <1>24 DEF vars
<1>25. QED
  BY <1>1, <1>2, <1>3, <1>4, <1>5, <1>6, <1>7, <1>8, <1>9, <1>10, <1>11, <1>12, <1>13, <1>14,
     <1>15, <1>16, <1>17, <1>18, <1>19, <1>20, <1>21, <1>22, <1>23, <1>24
     DEF Next, Operator, CycleStep

\* Auto-arm upgrades the mode, and a regression from STRATEGY to RESEARCH downgrades it,
\* unless the operator interferes during the cycle.
THEOREM ArmedModeFollows == Spec => []ArmFollowsReadiness
<1>1. Init => ReadyInv
  BY DEF Init, ReadyInv, InCycle
<1>2. TypeOK /\ ReadyInv /\ [Next]_vars => ReadyInv'
  BY ReadyStep
<1>3. ReadyInv => ArmFollowsReadiness
  BY DEF ReadyInv, ArmFollowsReadiness, InCycle
<1>4. QED
  BY <1>1, <1>2, <1>3, TypeCorrect, PTL DEF Spec

-----------------------------------------------------------------------------
\* The result names the missing network exactly when a step found it.
LEMMA StatusTellsNetwork == Status = "SKIPPED_DUE_TO_NETWORK" <=> outcome.skipped
<1>1. CASE outcome.skipped
  BY <1>1 DEF Status
<1>2. CASE ~outcome.skipped
  BY <1>2 DEF Status
<1>3. QED
  BY <1>1, <1>2

\* The row of a cycle joins the history and leaves the other rows as they are.
LEMMA RowJoins ==
    ASSUME TypeOK, AppendHistory
    PROVE  /\ DOMAIN history' = DOMAIN history \cup {Len(history) + 1}
           /\ \A i \in DOMAIN history : history'[i] = history[i]
           /\ history'[Len(history) + 1] = CurrentRow
  BY DEF TypeOK, AppendHistory

\* The monitor, which alone finds that there is no network, comes before the scan;
\* maintenance runs only when due, and is left out only when the network is missing.
SkipInv ==
    /\ pc = "append" => Running[step] = "paper_scan"
    /\ ~maintaining /\ step = 1 /\ CycleSteps[1] = "market_monitor" => ~observed
    /\ outcome.skipped => ~observed /\ ~maintaining /\ pc \in {"last", "row", "state"}
    /\ maintaining => InCycle /\ Due(number)
    /\ pc \in {"last", "row"} => (Due(number) => maintaining \/ outcome.skipped)
    /\ SkippedCycleIsEmpty

\* Only the first step of a cycle can find that there is no network.
LEMMA NetworkAtFirst ==
    ASSUME TypeOK, Running[step] = "market_monitor"
    PROVE  ~maintaining /\ step = 1 /\ CycleSteps[1] = "market_monitor"
<1>1. step \in DOMAIN Running
  BY CycleAssumption DEF CycleAssumption, TypeOK, Running
<1>2. ~maintaining
  BY <1>1, CycleAssumption DEF CycleAssumption, Running
<1>3. QED
  BY <1>1, <1>2, CycleAssumption DEF CycleAssumption, Running

LEMMA NetworkCode ==
    ASSUME "network" \in ExitCodes
    PROVE  Running[step] = "market_monitor"
<1> SUFFICES ASSUME Running[step] # "market_monitor" PROVE FALSE
  OBVIOUS
<1>1. CASE pc = "exit"
  BY <1>1 DEF ExitCodes
<1>2. CASE pc = "append"
  BY <1>2 DEF ExitCodes
<1>3. CASE pc = "attempt" /\ Running[step] = "paper_scan"
  BY <1>3 DEF ExitCodes
<1>4. CASE pc \notin {"exit", "append"} /\ ~(pc = "attempt" /\ Running[step] = "paper_scan")
  BY <1>4 DEF ExitCodes
<1>5. QED
  BY <1>1, <1>2, <1>3, <1>4

\* A step that did not find the network missing leaves the outcome unskipped.
LEMMA OnlyNetworkSkips ==
    ASSUME TypeOK, NEW code, code # "network", ~outcome.skipped
    PROVE  ~Tally(code).skipped
  BY DEF TypeOK, Tally

LEMMA SkipStep ==
    ASSUME TypeOK, SkipInv, [Next]_vars
    PROVE  SkipInv'
<1> USE DEF SkipInv, SkippedCycleIsEmpty, cycleVars, stepVars, files, operatorVars, outside, ghosts,
            Running, InCycle
<1>1. ASSUME NEW c \in Commands \ {"signal"}, OperatorBegin(c) PROVE SkipInv'
  BY <1>1 DEF OperatorBegin
<1>2. CASE OperatorFlag
  BY <1>2 DEF OperatorFlag
<1>3. CASE OperatorTruncate
  BY <1>3 DEF OperatorTruncate
<1>4. CASE OperatorFill
  BY <1>4 DEF OperatorFill
<1>5. CASE EvidenceChanges
  BY <1>5 DEF EvidenceChanges
<1>6. CASE Launch
  BY <1>6 DEF Launch
<1>7. CASE Begin
  BY <1>7 DEF Begin
<1>8. CASE Quit
  BY <1>8 DEF Quit
<1>9. CASE Refresh
  BY <1>9 DEF Refresh
<1>10. CASE CheckFlag
  BY <1>10 DEF CheckFlag
<1>11. CASE LoadArm
  BY <1>11 DEF LoadArm, AfterArm
<1>12. CASE TruncateArm
  BY <1>12 DEF TruncateArm
<1>13. CASE FillArm
  BY <1>13 DEF FillArm, AfterArm
<1>14. CASE ScanGate
  BY <1>14 DEF ScanGate
<1>15. CASE ScanAppend
  BY <1>15 DEF ScanAppend
<1>16. CASE Retry
  BY <1>16 DEF Retry
<1>17. CASE NextStep
  <2>1. PICK code \in ExitCodes : ~Breaks(code) /\ outcome' = Tally(code)
    BY <1>17 DEF NextStep
  <2>2. code # "network"
    BY <2>1, NetworkCode DEF Breaks, Critical
  <2>3. ~outcome.skipped /\ ~outcome'.skipped
    BY <1>17, <2>1, <2>2, OnlyNetworkSkips DEF NextStep
  <2>4. step' # 1
    BY <1>17 DEF NextStep, TypeOK
  <2>5. QED
    BY <1>17, <2>3, <2>4 DEF NextStep
<1>18. CASE EndCommands
  <2>1. PICK code \in ExitCodes : outcome' = Tally(code)
    BY <1>18 DEF EndCommands
  <2>2. /\ ~outcome.skipped /\ history' = history /\ observed' = observed
        /\ number' = number /\ Due(number') = Due(number)
    BY <1>18 DEF EndCommands
  <2>3. CASE code = "network"
    <3>1. ~maintaining /\ step = 1 /\ CycleSteps[1] = "market_monitor"
      BY <2>1, <2>3, NetworkCode, NetworkAtFirst
    <3>2. outcome'.skipped
      BY <2>1, <2>3 DEF Tally, TypeOK
    <3>3. pc' = "last" /\ UNCHANGED <<maintaining, step>>
      BY <1>18, <3>1, <3>2 DEF EndCommands
    <3>4. QED
      BY <2>2, <3>1, <3>2, <3>3
  <2>4. CASE code # "network"
    <3>1. ~outcome'.skipped
      BY <2>1, <2>2, <2>4, OnlyNetworkSkips
    <3>2. CASE ~maintaining /\ Due(number) /\ ~outcome'.skipped
      <4>1. maintaining' = TRUE /\ pc' = "attempt"
        BY <1>18, <3>2 DEF EndCommands
      <4>2. QED
        BY <2>2, <3>1, <3>2, <4>1
    <3>3. CASE ~(~maintaining /\ Due(number) /\ ~outcome'.skipped)
      <4>1. /\ pc' = (IF maintaining THEN "refresh" ELSE "last")
            /\ UNCHANGED <<maintaining, step>>
        BY <1>18, <3>3 DEF EndCommands
      <4>2. QED
        BY <2>2, <3>1, <3>3, <4>1
    <3>4. QED
      BY <3>2, <3>3
  <2>5. QED
    BY <2>3, <2>4
<1>19. CASE WriteLastCycle
  BY <1>19 DEF WriteLastCycle
<1>20. CASE AppendHistory
  <2>1. /\ (CurrentRow.status = "SKIPPED_DUE_TO_NETWORK") <=> outcome.skipped
        /\ CurrentRow.observed = observed /\ CurrentRow.maintained = maintaining
        /\ CurrentRow.maintenance_run = Due(number)
        /\ outcome.skipped => ~observed
        /\ maintaining = (Due(number) /\ ~outcome.skipped)
    BY <1>20, StatusTellsNetwork DEF CurrentRow, AppendHistory, TypeOK, Due
  <2>2. SkippedCycleIsEmpty'
    BY <1>20, <2>1, RowJoins
  <2>3. QED
    BY <1>20, <2>2 DEF AppendHistory
<1>21. CASE SaveState
  BY <1>21 DEF SaveState, LocalsGone, NoOutcome
<1>22. CASE Signal
  BY <1>22 DEF Signal
<1>23. CASE Crash
  BY <1>23 DEF Crash, LocalsGone, NoOutcome
<1>24. CASE UNCHANGED vars
  BY <1>24 DEF vars
<1>25. QED
  BY <1>1, <1>2, <1>3, <1>4, <1>5, <1>6, <1>7, <1>8, <1>9, <1>10, <1>11, <1>12, <1>13, <1>14,
     <1>15, <1>16, <1>17, <1>18, <1>19, <1>20, <1>21, <1>22, <1>23, <1>24
     DEF Next, Operator, CycleStep

\* "No observation or trade was generated": a cycle reported as skipped for lack of
\* network recorded nothing and has no maintenance step; on the other rows
\* maintenance_run says whether there is one.
THEOREM SkippedIsEmpty == Spec => []SkippedCycleIsEmpty
<1>1. Init => SkipInv
  BY DEF Init, SkipInv, SkippedCycleIsEmpty, NoOutcome
<1>2. TypeOK /\ SkipInv /\ [Next]_vars => SkipInv'
  BY SkipStep
<1>3. SkipInv => SkippedCycleIsEmpty
  BY DEF SkipInv
<1>4. QED
  BY <1>1, <1>2, <1>3, TypeCorrect, PTL DEF Spec

-----------------------------------------------------------------------------
\* The history has a row for cycle n that ran maintenance if it was due.
Audited(n) ==
    \E i \in DOMAIN history :
        /\ history[i].number = n
        /\ Due(n) => history[i].maintained \/ history[i].status = "SKIPPED_DUE_TO_NETWORK"

\* The number in memory is one ahead of the file's during a cycle, and the row is
\* written before the file counts the cycle.
AuditInv ==
    /\ \A n \in 1..saved : Audited(n)
    /\ pc \in {"launched", "idle"} => number = saved
    /\ InCycle => number = saved + 1
    /\ pc \in {"last", "row"} => (Due(number) => maintaining \/ outcome.skipped)
    /\ pc = "state" => Audited(number)

LEMMA AuditStep ==
    ASSUME TypeOK, AuditInv, [Next]_vars
    PROVE  AuditInv'
<1> USE DEF AuditInv, InCycle, Audited, cycleVars, stepVars, files, operatorVars, outside, ghosts
<1>1. ASSUME NEW c \in Commands \ {"signal"}, OperatorBegin(c) PROVE AuditInv'
  BY <1>1 DEF OperatorBegin
<1>2. CASE OperatorFlag
  BY <1>2 DEF OperatorFlag
<1>3. CASE OperatorTruncate
  BY <1>3 DEF OperatorTruncate
<1>4. CASE OperatorFill
  BY <1>4 DEF OperatorFill
<1>5. CASE EvidenceChanges
  BY <1>5 DEF EvidenceChanges
<1>6. CASE Launch
  BY <1>6 DEF Launch
<1>7. CASE Begin
  BY <1>7 DEF Begin
<1>8. CASE Quit
  BY <1>8 DEF Quit
<1>9. CASE Refresh
  BY <1>9 DEF Refresh
<1>10. CASE CheckFlag
  BY <1>10 DEF CheckFlag
<1>11. CASE LoadArm
  BY <1>11 DEF LoadArm, AfterArm
<1>12. CASE TruncateArm
  BY <1>12 DEF TruncateArm
<1>13. CASE FillArm
  BY <1>13 DEF FillArm, AfterArm
<1>14. CASE ScanGate
  BY <1>14 DEF ScanGate
<1>15. CASE ScanAppend
  BY <1>15 DEF ScanAppend
<1>16. CASE Retry
  BY <1>16 DEF Retry
<1>17. CASE NextStep
  BY <1>17 DEF NextStep
<1>18. CASE EndCommands
  BY <1>18 DEF EndCommands
<1>19. CASE WriteLastCycle
  BY <1>19 DEF WriteLastCycle
<1>20. CASE AppendHistory
  <2>1. Len(history) + 1 \in DOMAIN history' /\ CurrentRow.number = number
    BY <1>20, RowJoins DEF CurrentRow
  <2>2. Due(number) => CurrentRow.maintained \/ CurrentRow.status = "SKIPPED_DUE_TO_NETWORK"
    BY <1>20, StatusTellsNetwork DEF AppendHistory, CurrentRow
  <2>3. \A n : Audited(n) => Audited(n)'
    BY <1>20, RowJoins
  <2>4. number' = number /\ Audited(number)'
    BY <1>20, <2>1, <2>2, RowJoins DEF AppendHistory
  <2>5. QED
    BY <1>20, <2>3, <2>4 DEF AppendHistory
<1>21. CASE SaveState
  <2>1. saved' = number /\ number' = number /\ number = saved + 1 /\ pc' = "idle"
    BY <1>21 DEF SaveState
  <2>2. \A n \in 1..saved' : n \in 1..saved \/ n = number
    BY <2>1 DEF TypeOK
  <2>3. \A n : Audited(n) => Audited(n)'
    BY <1>21 DEF SaveState
  <2>4. QED
    BY <1>21, <2>1, <2>2, <2>3 DEF SaveState
<1>22. CASE Signal
  BY <1>22 DEF Signal
<1>23. CASE Crash
  BY <1>23 DEF Crash
<1>24. CASE UNCHANGED vars
  BY <1>24 DEF vars
<1>25. QED
  BY <1>1, <1>2, <1>3, <1>4, <1>5, <1>6, <1>7, <1>8, <1>9, <1>10, <1>11, <1>12, <1>13, <1>14,
     <1>15, <1>16, <1>17, <1>18, <1>19, <1>20, <1>21, <1>22, <1>23, <1>24
     DEF Next, Operator, CycleStep

\* However often the process dies, every cycle the state file counts has its row, and
\* its maintenance if it was due and the network was there.
THEOREM CountedIsAudited == Spec => []CountedCyclesAreAudited
<1>1. Init => AuditInv
  BY DEF Init, AuditInv, InCycle
<1>2. TypeOK /\ AuditInv /\ [Next]_vars => AuditInv'
  BY AuditStep
<1>3. AuditInv => CountedCyclesAreAudited
  BY DEF AuditInv, Audited, CountedCyclesAreAudited
<1>4. QED
  BY <1>1, <1>2, <1>3, TypeCorrect, PTL DEF Spec

-----------------------------------------------------------------------------
(* The lock the cycle runs under: its variables are its own, and a step of *)
(* it is none of the cycle.                                                *)

\* What a holder relies on while at most one launch is inside acquire().
OneLaunch == \A p, q \in Pid : lockPc[p] \in Acquiring /\ lockPc[q] \in Acquiring => p = q

\* A process between creating the file and filling it still has its file.
WriterHasItsFile ==
    \A p \in Pid : lockPc[p] = "write" => lockFile = [by |-> p, filled |-> FALSE]

\* A launch about to probe has read the running holder's pid, and a launch that
\* judged the file stale has no holder to evict.
JudgementIsCurrent ==
    \A p \in Pid :
        /\ lockPc[p] = "probe" => \A h \in Holders : found[p] = h
        /\ lockPc[p] = "unlink" => Holders = {}

LockInv ==
    /\ LockTypeOK
    /\ OneLaunch
    /\ WriterHasItsFile
    /\ HolderOwnsTheFile
    /\ JudgementIsCurrent

USE PidAssumption, FileAssumption DEF MaxAttempts

\* A file is not the absence of one, and says who created it.
LEMMA FileFacts ==
    \A p \in Pid, b \in BOOLEAN :
        LET f == [by |-> p, filled |-> b]
        IN  f \in File /\ f # NoFile /\ f.by = p /\ f.filled = b
  BY DEF File

\* Every variable keeps its type, for any set of pids and any schedule: the
\* loop's round never exceeds two and the file is absent or has one creator.
THEOREM LockTypeCorrect == LockSpec => []LockTypeOK
<1>1. LockInit => LockTypeOK
  BY DEF LockInit, LockTypeOK
<1>2. LockTypeOK /\ [LockNext]_lockVars => LockTypeOK'
  <2> SUFFICES ASSUME LockTypeOK, [LockNext]_lockVars PROVE LockTypeOK'
    OBVIOUS
  <2> USE DEF LockTypeOK, File, Goto, Acquiring
  <2>1. ASSUME NEW p \in Pid, Acquire(p) PROVE LockTypeOK'
    BY <2>1 DEF Acquire
  <2>2. ASSUME NEW p \in Pid, CreateFile(p) PROVE LockTypeOK'
    BY <2>2 DEF CreateFile
  <2>3. ASSUME NEW p \in Pid, FileExists(p) PROVE LockTypeOK'
    BY <2>3 DEF FileExists
  <2>4. ASSUME NEW p \in Pid, WritePid(p) PROVE LockTypeOK'
    BY <2>4 DEF WritePid
  <2>5. ASSUME NEW p \in Pid, ReadPid(p) PROVE LockTypeOK'
    BY <2>5 DEF ReadPid
  <2>6. ASSUME NEW p \in Pid, Refuse(p) PROVE LockTypeOK'
    BY <2>6 DEF Refuse
  <2>7. ASSUME NEW p \in Pid, JudgeStale(p) PROVE LockTypeOK'
    BY <2>7 DEF JudgeStale
  <2>8. ASSUME NEW p \in Pid, RemoveStale(p) PROVE LockTypeOK'
    BY <2>8 DEF RemoveStale
  <2>9. ASSUME NEW p \in Pid, Release(p) PROVE LockTypeOK'
    BY <2>9 DEF Release
  <2>10. ASSUME NEW p \in Pid, Exit(p) PROVE LockTypeOK'
    BY <2>10 DEF Exit
  <2>11. ASSUME NEW p \in Pid, Die(p) PROVE LockTypeOK'
    BY <2>11 DEF Die
  <2>12. ASSUME NEW p \in Pid, Recycle(p) PROVE LockTypeOK'
    BY <2>12 DEF Recycle
  <2>13. CASE UNCHANGED lockVars
    BY <2>13 DEF lockVars
  <2>14. QED
    BY <2>1, <2>2, <2>3, <2>4, <2>5, <2>6, <2>7, <2>8, <2>9, <2>10, <2>11, <2>12, <2>13
       DEF LockNext, AcquireStep
<1>3. QED
  BY <1>1, <1>2, PTL DEF LockSpec

-----------------------------------------------------------------------------
\* The invariant of the serial case implies that two holders are the same.
LEMMA OwnershipExcludes == HolderOwnsTheFile => MutualExclusion
  BY DEF HolderOwnsTheFile, MutualExclusion

\* One step of acquire(), release(), a crash or a recycled pid keeps the
\* invariant of the serial case.
LEMMA LockStep ==
    ASSUME ~Overlap, LockInv, LockTypeOK', [LockNext]_lockVars
    PROVE  LockInv'
<1> USE DEF LockInv, LockTypeOK, File, Goto, Holders, Acquiring,
            OneLaunch, WriterHasItsFile, HolderOwnsTheFile, JudgementIsCurrent
<1>1. ASSUME NEW p \in Pid, Acquire(p) PROVE LockInv'
  BY <1>1 DEF Acquire
<1>2. ASSUME NEW p \in Pid, CreateFile(p) PROVE LockInv'
  \* A holder would own the file that is missing.
  <2>1. Holders = {}
    BY <1>2, FileFacts DEF CreateFile
  <2>2. \A q \in Pid : q # p => lockPc'[q] = lockPc[q] /\ lockPc[q] \notin Acquiring
    BY <1>2 DEF CreateFile
  <2>3. lockPc'[p] = "write" /\ lockFile' = [by |-> p, filled |-> FALSE]
    BY <1>2 DEF CreateFile
  <2>4. Holders' = {}
    BY <2>1, <2>2, <2>3
  <2>5. QED
    BY <2>2, <2>3, <2>4
<1>3. ASSUME NEW p \in Pid, FileExists(p) PROVE LockInv'
  BY <1>3 DEF FileExists
<1>4. ASSUME NEW p \in Pid, WritePid(p) PROVE LockInv'
  \* The writer still has its file, so it fills the file it will hold.
  <2>1. lockFile' = [by |-> p, filled |-> TRUE]
    <3>1. lockFile = [by |-> p, filled |-> FALSE]
      BY <1>4 DEF WritePid
    <3>2. lockFile \in File /\ lockFile # NoFile /\ lockFile.by = p
      BY <3>1, FileFacts
    <3>3. lockFile' = [lockFile EXCEPT !.filled = TRUE]
      BY <1>4, <3>2 DEF WritePid
    <3>4. QED
      BY <3>1, <3>3
  <2>2. Holders = {}
    BY <1>4 DEF WritePid
  <2>3. Holders' = {p}
    BY <1>4, <2>2 DEF WritePid
  <2>4. \A q \in Pid : lockPc'[q] \notin Acquiring
    BY <1>4 DEF WritePid
  <2>5. QED
    BY <2>1, <2>3, <2>4
<1>5. ASSUME NEW p \in Pid, ReadPid(p) PROVE LockInv'
  \* If anyone holds the lock, its pid is what p reads.
  <2>1. ASSUME NEW h \in Holders PROVE found'[p] = h
    <3>1. lockFile = [by |-> h, filled |-> TRUE]
      OBVIOUS
    <3>2. lockFile # NoFile /\ lockFile.filled /\ lockFile.by = h
      BY <3>1, FileFacts
    <3>3. QED
      BY <1>5, <3>2 DEF ReadPid
  <2>2. Holders' = Holders
    BY <1>5 DEF ReadPid
  <2>3. \A q \in Pid : lockPc'[q] \in Acquiring => q = p
    BY <1>5 DEF ReadPid
  <2>4. QED
    BY <1>5, <2>1, <2>2, <2>3 DEF ReadPid
<1>6. ASSUME NEW p \in Pid, Refuse(p) PROVE LockInv'
  BY <1>6 DEF Refuse
<1>7. ASSUME NEW p \in Pid, JudgeStale(p) PROVE LockInv'
  \* A holder is alive, and it is the pid p found.
  <2>1. Holders = {}
    BY <1>7 DEF JudgeStale, PidAlive
  <2>2. QED
    BY <1>7, <2>1 DEF JudgeStale
<1>8. ASSUME NEW p \in Pid, RemoveStale(p) PROVE LockInv'
  BY <1>8 DEF RemoveStale
<1>9. ASSUME NEW p \in Pid, Release(p) PROVE LockInv'
  \* The one holder leaves: no writer can be there, the file was filled.
  <2>1. \A q \in Pid : lockPc[q] = "held" => q = p
    BY <1>9 DEF Release
  <2>2. \A q \in Pid : lockPc[q] # "write"
    BY <1>9 DEF Release
  <2>3. QED
    BY <1>9, <2>1, <2>2 DEF Release
<1>10. ASSUME NEW p \in Pid, Exit(p) PROVE LockInv'
  BY <1>10 DEF Exit
<1>11. ASSUME NEW p \in Pid, Die(p) PROVE LockInv'
  BY <1>11 DEF Die
<1>12. ASSUME NEW p \in Pid, Recycle(p) PROVE LockInv'
  BY <1>12 DEF Recycle
<1>13. CASE UNCHANGED lockVars
  BY <1>13 DEF lockVars
<1>14. QED
  BY <1>1, <1>2, <1>3, <1>4, <1>5, <1>6, <1>7, <1>8, <1>9, <1>10, <1>11, <1>12, <1>13
     DEF LockNext, AcquireStep

LEMMA SerialIsKept == ASSUME ~Overlap PROVE LockSpec => []LockInv
<1>1. LockInit => LockInv
  BY DEF LockInit, LockInv, LockTypeOK, File, Holders, Acquiring,
         OneLaunch, WriterHasItsFile, HolderOwnsTheFile, JudgementIsCurrent
<1>2. LockInv /\ LockTypeOK' /\ [LockNext]_lockVars => LockInv'
  BY LockStep
<1> QED
  BY <1>1, <1>2, LockTypeCorrect, PTL DEF LockSpec

\* When launches do not overlap, at most one orchestrator runs at a time and the
\* lock file is always the running one's, for any number of processes, through
\* crashes, half-written files and pids the system hands out again.
THEOREM SerialMutualExclusion == ~Overlap => (LockSpec => [](MutualExclusion /\ HolderOwnsTheFile))
<1> SUFFICES ASSUME ~Overlap PROVE LockSpec => [](MutualExclusion /\ HolderOwnsTheFile)
  OBVIOUS
<1>1. LockInv => MutualExclusion /\ HolderOwnsTheFile
  BY OwnershipExcludes DEF LockInv
<1> QED
  BY <1>1, SerialIsKept, PTL

\* The lock implements SoleRunner: filling the file begins the one orchestrator,
\* its release or its death ends it, and every other step leaves the holder as
\* it is, launches that recover a dead one's file included.
THEOREM SoleOrchestrator == ~Overlap => (LockSpec => OneOrchestratorAtATime)
<1> SUFFICES ASSUME ~Overlap PROVE LockSpec => OneOrchestratorAtATime
  OBVIOUS
<1>1. LockInit => Sole!Init
  BY DEF LockInit, Sole!Init, Holders
<1>2. LockInv /\ [LockNext]_lockVars => [Sole!Next]_Holders
  <2> SUFFICES ASSUME LockInv, [LockNext]_lockVars PROVE Sole!Next \/ UNCHANGED Holders
    OBVIOUS
  <2> USE DEF LockInv, LockTypeOK, Goto, Holders, Acquiring
  <2>1. ASSUME NEW p \in Pid, lockPc[p] # "held",
               lockPc' = [lockPc EXCEPT ![p] = "held"], Holders = {}
        PROVE  Sole!Next
    <3>1. Holders' = {p}
      BY <2>1
    <3> QED
      BY <2>1, <3>1 DEF Sole!Next, Sole!Begin
  <2>2. ASSUME NEW p \in Pid, lockPc[p] = "held", lockPc'[p] # "held",
               \A q \in Pid \ {p} : lockPc'[q] = lockPc[q]
        PROVE  Sole!Next
    <3>1. Holders = {p}
      BY <2>2, OwnershipExcludes DEF MutualExclusion
    <3>2. Holders' = {}
      BY <2>2, <3>1
    <3> QED
      BY <3>1, <3>2 DEF Sole!Next, Sole!End
  <2>3. ASSUME NEW p \in Pid, WritePid(p) PROVE Sole!Next
    \* The writer's file is not yet filled, so it is nobody's who holds.
    <3>1. Holders = {}
      BY <2>3, FileFacts DEF WritePid, WriterHasItsFile, HolderOwnsTheFile
    <3> QED
      BY <2>1, <2>3, <3>1 DEF WritePid
  <2>4. ASSUME NEW p \in Pid, Release(p) PROVE Sole!Next
    BY <2>2, <2>4 DEF Release
  <2>5. ASSUME NEW p \in Pid, Die(p), lockPc[p] = "held" PROVE Sole!Next
    BY <2>2, <2>5 DEF Die
  <2>6. ASSUME NEW p \in Pid, lockPc[p] # "held", lockPc'[p] # "held",
               \A q \in Pid \ {p} : lockPc'[q] = lockPc[q]
        PROVE  UNCHANGED Holders
    BY <2>6
  <2>7. ASSUME NEW p \in Pid, Die(p), lockPc[p] # "held" PROVE UNCHANGED Holders
    BY <2>6, <2>7 DEF Die
  <2>8. ASSUME NEW p \in Pid,
               \/ Acquire(p) \/ CreateFile(p) \/ FileExists(p) \/ ReadPid(p) \/ Refuse(p)
               \/ JudgeStale(p) \/ RemoveStale(p) \/ Exit(p) \/ Recycle(p)
        PROVE  UNCHANGED Holders
    BY <2>6, <2>8 DEF Acquire, CreateFile, FileExists, ReadPid, Refuse, JudgeStale, RemoveStale,
                      Exit, Recycle
  <2>9. CASE UNCHANGED lockVars
    BY <2>9 DEF lockVars
  <2> QED
    BY <2>3, <2>4, <2>5, <2>7, <2>8, <2>9 DEF LockNext, AcquireStep
<1> QED
  BY <1>1, <1>2, SerialIsKept, PTL DEF LockSpec, OneOrchestratorAtATime, Sole!Spec

-----------------------------------------------------------------------------
\* A launch that finds a settled lock reads its holder's pid and is refused; no
\* other process is anywhere it could unlink the file.
LEMMA SettledStep ==
    ASSUME LockTypeOK, [LockNext]_lockVars, NEW p \in Pid, Settled(p), lockPc'[p] = "held"
    PROVE  Settled(p)'
<1> USE DEF LockTypeOK, File, Goto, Settled, Acquiring
<1>1. ASSUME NEW q \in Pid, Acquire(q) PROVE Settled(p)'
  BY <1>1 DEF Acquire
<1>2. ASSUME NEW q \in Pid, CreateFile(q) PROVE Settled(p)'
  <2>1. lockFile # NoFile
    BY FileFacts
  <2>2. QED
    BY <1>2, <2>1 DEF CreateFile
<1>3. ASSUME NEW q \in Pid, FileExists(q) PROVE Settled(p)'
  BY <1>3 DEF FileExists
<1>4. ASSUME NEW q \in Pid, WritePid(q) PROVE Settled(p)'
  BY <1>4 DEF WritePid
<1>5. ASSUME NEW q \in Pid, ReadPid(q) PROVE Settled(p)'
  <2>1. lockFile # NoFile /\ lockFile.filled /\ lockFile.by = p
    BY FileFacts
  <2>2. found'[q] = p
    BY <1>5, <2>1 DEF ReadPid
  <2>3. QED
    BY <1>5, <2>2 DEF ReadPid
<1>6. ASSUME NEW q \in Pid, Refuse(q) PROVE Settled(p)'
  BY <1>6 DEF Refuse
<1>7. ASSUME NEW q \in Pid, JudgeStale(q) PROVE Settled(p)'
  BY <1>7 DEF JudgeStale, PidAlive
<1>8. ASSUME NEW q \in Pid, RemoveStale(q) PROVE Settled(p)'
  BY <1>8 DEF RemoveStale
<1>9. ASSUME NEW q \in Pid, Release(q) PROVE Settled(p)'
  BY <1>9 DEF Release
<1>10. ASSUME NEW q \in Pid, Exit(q) PROVE Settled(p)'
  BY <1>10 DEF Exit
<1>11. ASSUME NEW q \in Pid, Die(q) PROVE Settled(p)'
  BY <1>11 DEF Die
<1>12. ASSUME NEW q \in Pid, Recycle(q) PROVE Settled(p)'
  BY <1>12 DEF Recycle
<1>13. CASE UNCHANGED lockVars
  BY <1>13 DEF lockVars
<1>14. QED
  BY <1>1, <1>2, <1>3, <1>4, <1>5, <1>6, <1>7, <1>8, <1>9, <1>10, <1>11, <1>12, <1>13
     DEF LockNext, AcquireStep

\* However many launches overlap, a settled lock stays settled until its holder
\* releases it or dies.
THEOREM SettledLockIsSafe == LockSpec => SettledLockStays
<1>1. LockTypeOK /\ [LockNext]_lockVars => [\A p \in Pid : Settled(p) => Settled(p)' \/ lockPc'[p] # "held"]_lockVars
  BY SettledStep
<1>2. QED
  BY <1>1, LockTypeCorrect, PTL DEF LockSpec, SettledLockStays
=============================================================================
