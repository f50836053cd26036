------------------------------ MODULE PaperCycle ------------------------------
(***************************************************************************)
(* One paper research cycle (freakto/paper/orchestrator.py, run_cycle), the *)
(* arm state it keeps and the operator who changes it at the same time     *)
(* (freakto/paper/service.py, engine/paper_observation_v2.py).             *)
(*                                                                         *)
(* The orchestrator, one process thanks to its lock, refreshes readiness,  *)
(* arms or disarms, runs the steps as subprocesses with a retry, runs      *)
(* maintenance when it is due, and writes last_cycle.json,                 *)
(* cycle_history.jsonl and orchestrator_state.json one after the other.    *)
(* An operator's command writes operator_stop.flag and arm_state.json      *)
(* between any two of these steps; neither side takes a lock.              *)
(***************************************************************************)
EXTENDS Naturals, Sequences

CONSTANTS
    MaintenanceEvery,   \* maintenance_every_cycles
    Levels,             \* readiness levels the evidence files reach in this model
    Commands,           \* operator commands of this model
    CycleSteps,         \* names cycle_commands returns, in order
    MaintenanceSteps,   \* names maintenance_commands returns, in order
    MaxNumber,          \* bound on cycle numbers
    MaxHistory          \* bound on rows of cycle_history.jsonl

ASSUME CycleAssumption ==
    /\ MaintenanceEvery \in Nat \ {0}
    /\ Levels \subseteq {"BLOCKED", "RESEARCH", "STRATEGY"} /\ Levels # {}
    /\ Commands \subseteq {"disarm", "arm_research", "arm_strategy", "cli_arm", "cli_disarm",
                           "signal"}
    /\ CycleSteps \in Seq({"market_monitor", "decision_evaluator", "paper_scan",
                           "paper_evaluator", "paper_performance_dashboard", "paper_status"})
    /\ MaintenanceSteps \in Seq({"historical_incremental_update", "fresh_oos_replay"})
    /\ CycleSteps # <<>> /\ MaintenanceSteps # <<>>
    /\ \A i \in DOMAIN CycleSteps : CycleSteps[i] = "market_monitor" => i = 1
    /\ MaxNumber \in Nat /\ MaxHistory \in Nat

VARIABLES
    evidence,   \* readiness the artifacts on disk support now
    arm,        \* arm_state.json: mode, or "TORN" while truncated
    stopFlag,   \* operator_stop.flag exists
    op,         \* operator's command under way: its name and next write
    pc,         \* next step of the orchestrator, "down" when it does not run
    number,     \* cycle_number in memory
    ready,      \* readiness object of the cycle
    desired,    \* mode _ensure_arm decided to write
    maintaining,\* the commands being run are the maintenance ones
    step,       \* index of the step being run
    attempt,    \* attempt of that step
    outcome,    \* what the steps so far came to
    stopAsked,  \* SIGINT or SIGTERM arrived
    lastCycle,  \* cycle that last_cycle.json reports
    history,    \* rows of cycle_history.jsonl
    saved,      \* cycle_number of orchestrator_state.json
    observed,   \* this cycle's scan appended an observation
    flagAtStart,\* history variable: the flag was there when the cycle began
    touched     \* history variable: kinds of operator writes since then

files == <<lastCycle, history, saved>>
operatorVars == <<stopFlag, op>>
ghosts == <<flagAtStart, touched>>
stepVars == <<maintaining, step, attempt, outcome>>
cycleVars == <<number, ready, desired, stepVars, stopAsked, files, observed>>
vars == <<evidence, arm, operatorVars, pc, cycleVars, ghosts>>

-----------------------------------------------------------------------------
Critical == {"market_monitor"}

\* retries + 1 with the default step_retries of 1
Attempts == 2

Running == IF maintaining THEN MaintenanceSteps ELSE CycleSteps

\* should_run_maintenance
Due(n) == n = 1 \/ n % MaintenanceEvery = 0

\* arm_paper_mode's and the scan's readiness conditions
Supports(level, mode) ==
    \/ mode = "RESEARCH" /\ level # "BLOCKED"
    \/ mode = "STRATEGY" /\ level = "STRATEGY"

\* load_arm_state: a missing or unreadable file is DISARMED
Mode(content) == IF content = "TORN" THEN "DISARMED" ELSE content

NoOutcome == [failed |-> FALSE, skipped |-> FALSE, maintenanceFailed |-> FALSE]

\* The locals of run_cycle and of _ensure_arm are gone between cycles.
LocalsGone ==
    /\ ready' = "BLOCKED" /\ desired' = "DISARMED"
    /\ maintaining' = FALSE /\ step' = 1 /\ attempt' = 1
    /\ outcome' = NoOutcome
    /\ observed' = FALSE /\ flagAtStart' = FALSE /\ touched' = {}

\* run_cycle's status
Status ==
    CASE outcome.skipped -> "SKIPPED_DUE_TO_NETWORK"
      [] outcome.failed /\ ~outcome.skipped -> "COMPLETE_WITH_STEP_FAILURES"
      [] outcome.maintenanceFailed /\ ~outcome.failed /\ ~outcome.skipped ->
             "COMPLETE_WITH_MAINTENANCE_WARNINGS"
      [] OTHER -> "COMPLETE"

\* A row of cycle_history.jsonl: maintenance_run tells whether maintenance was due,
\* maintained whether the row's steps hold the maintenance ones; observed is not in
\* the file, it remembers what the cycle's scan appended to the paper ledger.
Row == [number : 1..MaxNumber, maintenance_run : BOOLEAN, maintained : BOOLEAN,
        observed : BOOLEAN,
        status : {"SKIPPED_DUE_TO_NETWORK", "COMPLETE_WITH_STEP_FAILURES",
                  "COMPLETE_WITH_MAINTENANCE_WARNINGS", "COMPLETE"}]

TypeOK ==
    /\ evidence \in Levels /\ ready \in Levels \cup {"BLOCKED"}
    /\ arm \in {"DISARMED", "RESEARCH", "STRATEGY", "TORN"}
    /\ stopFlag \in BOOLEAN
    /\ op \in [command : Commands \cup {"none"}, at : {"begin", "flag", "truncate", "fill"}]
    /\ pc \in {"down", "launched", "idle", "refresh", "check", "load", "truncate", "fill",
               "attempt", "append", "exit", "last", "row", "state"}
    /\ number \in 0..MaxNumber /\ saved \in 0..MaxNumber
    /\ desired \in {"DISARMED", "RESEARCH", "STRATEGY"}
    /\ maintaining \in BOOLEAN /\ stopAsked \in BOOLEAN /\ observed \in BOOLEAN
    /\ step \in 1..Len(Running) /\ attempt \in 1..Attempts
    /\ outcome \in [failed : BOOLEAN, skipped : BOOLEAN, maintenanceFailed : BOOLEAN]
    /\ lastCycle \in 0..MaxNumber
    /\ history \in Seq(Row) /\ Len(history) <= MaxHistory
    /\ flagAtStart \in BOOLEAN /\ touched \subseteq {"arm", "disarm"}

Idle == [command |-> "none", at |-> "begin"]

Init ==
    /\ evidence \in Levels /\ ready = "BLOCKED"
    /\ arm = "DISARMED" /\ stopFlag = FALSE /\ op = Idle
    /\ pc = "down" /\ number = 0 /\ desired = "DISARMED"
    /\ maintaining = FALSE /\ step = 1 /\ attempt = 1 /\ outcome = NoOutcome
    /\ stopAsked = FALSE
    /\ lastCycle = 0 /\ history = <<>> /\ saved = 0
    /\ observed = FALSE /\ flagAtStart = FALSE /\ touched = {}

-----------------------------------------------------------------------------
(***************************************************************************)
(* Plausible bugs, used only to show that the properties can fail.         *)
(***************************************************************************)
\* The stop flag is looked for only before the steps, not after maintenance.
CheckFlagOnce ==
    /\ pc = "check"
    /\ IF stopFlag /\ Mode(arm) # "DISARMED"
         THEN pc' = "truncate" /\ desired' = "DISARMED"
         ELSE pc' = "load" /\ UNCHANGED desired
    /\ UNCHANGED <<evidence, operatorVars, arm, number, ready, stepVars, stopAsked, files,
                   observed, ghosts>>

\* Arming only ever upgrades: STRATEGY survives a regression of readiness.
LoadArmUpgradeOnly ==
    /\ pc = "load"
    /\ LET next == IF maintaining THEN "last" ELSE "attempt"
       IN  IF ready # "BLOCKED" /\ Mode(arm) \notin {ready, "STRATEGY"}
             THEN pc' = "truncate" /\ desired' = ready
             ELSE pc' = next /\ UNCHANGED desired
    /\ UNCHANGED <<evidence, operatorVars, arm, number, ready, stepVars, stopAsked, files,
                   observed, ghosts>>

\* The cycle number is stored as soon as it is taken.
BeginCounted ==
    /\ pc = "launched" \/ (pc = "idle" /\ ~stopAsked)
    /\ number < MaxNumber /\ Len(history) < MaxHistory
    /\ number' = number + 1 /\ saved' = number + 1
    /\ pc' = "refresh"
    /\ flagAtStart' = stopFlag
    /\ UNCHANGED <<evidence, operatorVars, arm, ready, desired, stepVars, stopAsked, lastCycle,
                   history, observed, touched>>

\* The attempts are not counted.
RetryUncounted ==
    /\ pc \in {"attempt", "append", "exit"}
    /\ pc' = "attempt"
    /\ UNCHANGED <<evidence, operatorVars, arm, cycleVars, ghosts>>

\* A failed step never ends the commands.
BreaksNever(code) == code = "network" /\ Running[step] = "paper_status"

-----------------------------------------------------------------------------
(***************************************************************************)
(* The operator.  One command at a time; each ends in a truncating write   *)
(* of arm_state.json (Path.write_text), which a reader may catch empty.    *)
(***************************************************************************)

\* The mode a command leaves in arm_state.json.
Target(c) ==
    CASE c \in {"disarm", "cli_disarm"} -> "DISARMED"
      [] c \in {"arm_research", "cli_arm"} -> "RESEARCH"
      [] c = "arm_strategy" -> "STRATEGY"

Kind(c) == IF Target(c) = "DISARMED" THEN "disarm" ELSE "arm"

\* Preflight and readiness refuse arming commands before anything is written.
\* Only the two commands of PaperService touch the flag.
OperatorBegin(c) ==
    /\ op = Idle
    /\ Kind(c) = "arm" => Supports(evidence, Target(c))
    /\ op' = [command |-> c,
             at |-> IF c \in {"disarm", "arm_research"} THEN "flag" ELSE "truncate"]
    /\ UNCHANGED <<evidence, arm, stopFlag, pc, cycleVars, ghosts>>

InCycle == pc \notin {"down", "launched", "idle"}

Touch == touched' = IF InCycle THEN touched \cup {Kind(op.command)} ELSE touched

\* disarm writes operator_stop.flag; arm-research unlinks it.
OperatorFlag ==
    /\ op.at = "flag"
    /\ stopFlag' = (op.command = "disarm")
    /\ op' = [op EXCEPT !.at = "truncate"]
    /\ Touch
    /\ UNCHANGED <<evidence, arm, pc, cycleVars, flagAtStart>>

\* The write opens the file; arm-research has computed readiness anew and raises
\* PermissionError, its flag already gone, when research is no longer ready.
OperatorTruncate ==
    /\ op.at = "truncate"
    /\ IF op.command = "arm_research" /\ ~Supports(evidence, Target(op.command))
         THEN op' = Idle /\ UNCHANGED <<arm, touched>>
         ELSE /\ arm' = "TORN"
              /\ op' = [op EXCEPT !.at = "fill"]
              /\ Touch
    /\ UNCHANGED <<evidence, stopFlag, pc, cycleVars, flagAtStart>>

OperatorFill ==
    /\ op.at = "fill"
    /\ arm' = Target(op.command)
    /\ op' = Idle
    /\ Touch
    /\ UNCHANGED <<evidence, stopFlag, pc, cycleVars, flagAtStart>>

\* Another analysis, or the Fresh OOS step, rewrites the readiness artifacts.
EvidenceChanges ==
    /\ \E level \in Levels \ {evidence} : evidence' = level
    /\ UNCHANGED <<arm, operatorVars, pc, cycleVars, ghosts>>

-----------------------------------------------------------------------------
(***************************************************************************)
(* The orchestrator.                                                       *)
(***************************************************************************)
outside == <<evidence, operatorVars>>

\* The process starts and reads cycle_number back (_load_cycle_number).
Launch ==
    /\ pc = "down"
    /\ pc' = "launched"
    /\ number' = saved
    /\ UNCHANGED <<outside, arm, ready, desired, stepVars, stopAsked, files, observed, ghosts>>

\* run_cycle is entered: at once after the launch, later unless a stop was asked.
Begin ==
    /\ pc = "launched" \/ (pc = "idle" /\ ~stopAsked)
    /\ number < MaxNumber /\ Len(history) < MaxHistory
    /\ number' = number + 1
    /\ pc' = "refresh"
    /\ flagAtStart' = stopFlag
    /\ UNCHANGED <<outside, arm, ready, desired, stepVars, stopAsked, files, observed, touched>>

\* A single cycle is over, or the loop saw a signal or campaign_stop.flag.
Quit ==
    /\ pc \in {"launched", "idle"}
    /\ pc' = "down"
    /\ number' = 0 /\ stopAsked' = FALSE
    /\ UNCHANGED <<outside, arm, ready, desired, stepVars, files, observed, ghosts>>

\* _refresh_readiness, before the steps and again after maintenance.
Refresh ==
    /\ pc = "refresh"
    /\ ready' = evidence
    /\ pc' = "check"
    /\ UNCHANGED <<outside, arm, number, desired, stepVars, stopAsked, files, observed, ghosts>>

\* _ensure_arm looks for operator_stop.flag.
CheckFlag ==
    /\ pc = "check"
    /\ IF stopFlag
         THEN pc' = "truncate" /\ desired' = "DISARMED"
         ELSE pc' = "load" /\ UNCHANGED desired
    /\ UNCHANGED <<outside, arm, number, ready, stepVars, stopAsked, files, observed, ghosts>>

\* Where _ensure_arm returns to: the cycle's steps, or the end of maintenance.
AfterArm == IF maintaining THEN "last" ELSE "attempt"

\* _ensure_arm reads the arm state and picks the mode readiness allows; with no
\* readiness it leaves the mode as it is.
LoadArm ==
    /\ pc = "load"
    /\ LET wanted == IF ready = "BLOCKED" THEN Mode(arm) ELSE ready
       IN  IF wanted # "DISARMED" /\ Mode(arm) # wanted
             THEN pc' = "truncate" /\ desired' = wanted
             ELSE pc' = AfterArm /\ UNCHANGED desired
    /\ UNCHANGED <<outside, arm, number, ready, stepVars, stopAsked, files, observed, ghosts>>

\* arm_paper_mode or disarm_paper_mode: write_text truncates, then fills.
TruncateArm ==
    /\ pc = "truncate"
    /\ arm' = "TORN"
    /\ pc' = "fill"
    /\ UNCHANGED <<outside, cycleVars, ghosts>>

FillArm ==
    /\ pc = "fill"
    /\ arm' = desired
    /\ pc' = AfterArm
    /\ UNCHANGED <<outside, cycleVars, ghosts>>

\* The scan subprocess computes readiness itself and reads the arm state.
ScanGate ==
    /\ pc = "attempt" /\ Running[step] = "paper_scan"
    /\ pc' = IF Supports(evidence, Mode(arm)) THEN "append" ELSE "exit"
    /\ UNCHANGED <<outside, arm, cycleVars, ghosts>>

\* It appends the eligible observations, if any, under the state it read.
ScanAppend ==
    /\ pc = "append"
    /\ observed' \in {observed, TRUE}
    /\ pc' = "exit"
    /\ UNCHANGED <<outside, arm, number, ready, desired, stepVars, stopAsked, files, ghosts>>

\* Exit code of an attempt: 0, any failure (124 for a timeout, 125 when it does
\* not start), or 75, which monitor.py alone returns.
ExitCodes ==
    CASE pc = "exit" -> {"ok", "failure"}
      [] pc = "append" -> {"failure"}
      [] pc = "attempt" /\ Running[step] = "paper_scan" -> {"failure"}
      [] pc = "attempt" /\ Running[step] = "market_monitor" -> {"ok", "failure", "network"}
      [] OTHER -> {"ok", "failure"}

\* What the step's result adds to the cycle's.
Tally(code) ==
    CASE code = "ok" -> outcome
      [] code = "network" -> [outcome EXCEPT !.skipped = TRUE]
      [] code = "failure" /\ maintaining -> [outcome EXCEPT !.maintenanceFailed = TRUE]
      [] OTHER -> [outcome EXCEPT !.failed = TRUE]

\* run_step: a failed attempt is retried once.
Retry ==
    /\ pc \in {"attempt", "append", "exit"}
    /\ ExitCodes \ {"ok"} # {}
    /\ attempt < Attempts
    /\ attempt' = attempt + 1
    /\ pc' = "attempt"
    /\ UNCHANGED <<outside, arm, number, ready, desired, maintaining, step, outcome, stopAsked,
                   files, observed, ghosts>>

\* A critical step that found no network ends the commands.
Breaks(code) == code = "network" /\ Running[step] \in Critical

\* The step is over and the next one begins.
NextStep ==
    /\ pc \in {"attempt", "append", "exit"}
    /\ \E code \in ExitCodes :
          /\ code = "ok" \/ attempt = Attempts
          /\ ~Breaks(code)
          /\ outcome' = Tally(code)
    /\ step < Len(Running)
    /\ step' = step + 1 /\ attempt' = 1
    /\ pc' = "attempt"
    /\ UNCHANGED <<outside, arm, number, ready, desired, maintaining, stopAsked, files,
                   observed, ghosts>>

\* The commands are over: run maintenance when it is due and the network was
\* there, look at readiness again after it, or write the result.
EndCommands ==
    /\ pc \in {"attempt", "append", "exit"}
    /\ \E code \in ExitCodes :
          /\ code = "ok" \/ attempt = Attempts
          /\ Breaks(code) \/ step = Len(Running)
          /\ outcome' = Tally(code)
    /\ IF ~maintaining /\ Due(number) /\ ~outcome'.skipped
         THEN maintaining' = TRUE /\ step' = 1 /\ attempt' = 1 /\ pc' = "attempt"
         ELSE /\ pc' = IF maintaining THEN "refresh" ELSE "last"
              /\ UNCHANGED <<maintaining, step, attempt>>
    /\ UNCHANGED <<outside, arm, number, ready, desired, stopAsked, files, observed, ghosts>>

CurrentRow == [number |-> number, maintenance_run |-> Due(number),
               maintained |-> maintaining, observed |-> observed, status |-> Status]

\* The three writes that end run_cycle.
WriteLastCycle ==
    /\ pc = "last"
    /\ lastCycle' = number
    /\ pc' = "row"
    /\ UNCHANGED <<outside, arm, number, ready, desired, stepVars, stopAsked, history, saved,
                   observed, ghosts>>

AppendHistory ==
    /\ pc = "row"
    /\ history' = Append(history, CurrentRow)
    /\ pc' = "state"
    /\ UNCHANGED <<outside, arm, number, ready, desired, stepVars, stopAsked, lastCycle, saved,
                   observed, ghosts>>

SaveState ==
    /\ pc = "state"
    /\ saved' = number
    /\ pc' = "idle"
    /\ LocalsGone
    /\ UNCHANGED <<outside, arm, number, stopAsked, lastCycle, history>>

\* request_stop, the signal handler.
Signal ==
    /\ "signal" \in Commands
    /\ pc # "down"
    /\ stopAsked' = TRUE
    /\ UNCHANGED <<outside, arm, pc, number, ready, desired, stepVars, files, observed, ghosts>>

\* The process dies at any step; what it wrote stays.
Crash ==
    /\ InCycle
    /\ pc' = "down"
    /\ number' = 0 /\ stopAsked' = FALSE
    /\ LocalsGone
    /\ UNCHANGED <<outside, arm, files>>

\* The steps run_cycle takes by itself once entered.
CycleStep ==
    \/ Refresh \/ CheckFlag \/ LoadArm \/ TruncateArm \/ FillArm
    \/ ScanGate \/ ScanAppend \/ Retry \/ NextStep \/ EndCommands
    \/ WriteLastCycle \/ AppendHistory \/ SaveState

Operator ==
    \/ \E c \in Commands \ {"signal"} : OperatorBegin(c)
    \/ OperatorFlag \/ OperatorTruncate \/ OperatorFill

Next ==
    \/ Operator \/ EvidenceChanges
    \/ Launch \/ Begin \/ CycleStep \/ Quit \/ Signal \/ Crash

Spec == Init /\ [][Next]_vars

\* A cycle once entered runs on: every subprocess has a timeout.
FairSpec == Spec /\ WF_vars(CycleStep)

-----------------------------------------------------------------------------
\* A cycle that begins under the operator's stop flag records no observation
\* until an arming command intervenes: whatever mode an earlier cycle's race
\* left in arm_state.json, and whatever Fresh OOS finds during maintenance.
StoppedCycleRecordsNothing == flagAtStart /\ "arm" \notin touched => ~observed

\* Without an operator in between, the mode on disk during and after a cycle's
\* steps is the one the readiness it computed last allows: auto-arm upgrades,
\* and a regression from STRATEGY to RESEARCH downgrades.
ArmFollowsReadiness ==
    pc \in {"attempt", "append", "exit", "last", "row", "state"} /\ ~flagAtStart /\ touched = {}
        => ready = "BLOCKED" \/ Mode(arm) = ready

\* "No observation or trade was generated": a cycle reported as skipped for lack
\* of network recorded nothing and has no maintenance step, although its
\* maintenance_run is TRUE when maintenance was due; on every other row that flag
\* and the steps agree.
SkippedCycleIsEmpty ==
    \A i \in DOMAIN history :
        LET row == history[i]
            skipped == row.status = "SKIPPED_DUE_TO_NETWORK"
        IN  /\ skipped => ~row.observed
            /\ row.maintained = (row.maintenance_run /\ ~skipped)

\* However the process crashed and restarted, every cycle number the state file
\* counts has its row in the history, and a due maintenance was run by one of the
\* rows of its number unless the network was missing: a crash repeats, never skips.
CountedCyclesAreAudited ==
    \A n \in 1..saved : \E i \in DOMAIN history :
        /\ history[i].number = n
        /\ Due(n) => history[i].maintained \/ history[i].status = "SKIPPED_DUE_TO_NETWORK"

\* A cycle that was entered ends, whatever its steps return, unless the process dies.
CycleEnds == (pc = "refresh") ~> (pc \in {"idle", "down"})
=============================================================================
