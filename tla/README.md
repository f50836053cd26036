# freakto: a TLA+ verification of the paper trading core

freakto is a Python program that watches crypto markets, logs decisions, and collects
evidence by *paper* trading: it records virtual trades, evaluates them against later
candles and never sends an order. It is not one process. Command lines, a control center
with several sessions, a long running worker, subprocesses and cloud workflows share
JSON, JSONL and CSV files, with few locks and many whole-file rewrites. Its hard part is
therefore not numeric; it is who reads and writes which file, in which order, and what is
left after a crash. These modules model that part.

Contents: 1 inventory, 2 plan, 3 the modules, 4 the runs, 5 the proofs, 6 what is
abstracted or not modelled, 7 disagreements found.

## 1. Inventory

`A -> B` means A starts B or calls it; files are shared state.

| Component | State it keeps | Operations | What makes it correct |
| --- | --- | --- | --- |
| Process lock (`freakto/paper/orchestrator.py`, `ProcessLock`) | `orchestrator.lock` with a pid | acquire, release | one orchestrator at a time; a dead one never blocks the next |
| Research cycle (same file, `run_cycle`) | `orchestrator_state.json`, `last_cycle.json`, `cycle_history.jsonl`, `arm_state.json` | refresh readiness, arm, steps with retries, maintenance, three result writes | a stop flag is obeyed; the mode follows readiness; no counted cycle is lost; a cycle ends |
| Operator commands (`freakto/paper/service.py`, `trade_launch.py`, `engine/paper_observation_v2.py`) | `operator_stop.flag`, `arm_state.json` | arm-research, arm, disarm | a disarm holds until the operator arms again |
| Paper ledger (`engine/paper_observation_v2.py`, `engine/paper_trading.py`) | `paper_trades.csv`, its temporary file | scan with limits, portfolio scan | limits hold, no duplicate, no lost row |
| Evaluator (`engine/paper_trading.py`) | `paper_trade_evaluations.csv` | evaluate every row | only later candles decide, a result is final |
| Campaign manager (`freakto/paper/campaign.py`) | `state.json`, `campaign_stop.flag` | status with recovery, start, stop | what it reports is true; a start is refused only for something; the 60-day window survives restarts |
| Worker loop (`orchestrator.py`, `run_loop`, `main`) | none but its files | wait, cycle, see the flag, leave | a stop reaches it |
| Live paper runtime and mock broker (`engine/live_paper_runtime.py`, `live_demo.py`) | `account_state.json`, `runtime_state.json` (plans, processed decisions, closes), `runtime.lock` | manage exits, process a symbol, record a failure | a decision is entered once; an interruption damages only the fill it cut off; limits and rollout hold whatever fails |
| Shadow worker controller (`engine/shadow_process_controller.py`, `RuntimeLock`) | `runtime.lock`, a metadata file with the pid | status, start, stop, restart; lock and unlock of a worker | one worker per account, which every later call finds; "stopped" is true |
| Control center jobs (`freakto/ui/job_manager.py`, `control_center_worker.py`) | `state.json` and `cancel.requested` per job | list, start, cancel, retry, reconcile; the worker's loop | one active job; what is shown is true; a cancel frees the queue |
| Market replay (`engine/market_replay.py`) | checkpoint JSON, checkpoint rows, cumulative CSV, registry row | replay, checkpoint, resume, publish | a resumed run is as good as an uninterrupted one |
| Experiment registry (`engine/experiment_registry.py`) and its callers (`replay_score_calibration.py`, `champion_challenger_analysis.py`, `paper_trade_readiness.py`) | SQLite tables of runs and hold-out claims | start, claim, finish, latest | a hold-out is looked at once; finished runs stay |
| Cloud state (`cloud_state_sync.py`, `cloud_runner.py`, the workflow) | an archive on the branch `paper-state` | restore, cycle, pack, push | the next job has what the last one left |
| Automation (`freakto/ui/automation.py`) | schedule file | enable, disable, tick | due jobs are started once |
| Showcase session (`freakto/showcase_paper/`) | session state, stop request | trade, guard, stop | guard limits, a stop is shown and obeyed |
| Evidence ledger (`freakto/evidence/`) | SQLite tables | append, migrate, evaluate | terminal outcomes stay |
| Evidence snapshot (`freakto/paper/evidence_snapshot.py`) | an archive | copy files while others write | one cycle per archive |

The rest reads and prints (dashboards, reports, pages), computes numbers without keeping
state (scores, features, calibration, technical analysis, cross-asset ranking,
backtest, statistics of gates and forward tests), talks to the network (providers), or is
separate (airdrop radar, legacy archive). `PROJECT.json` lists all of it under
`components` with a reason each.

How the paper core interacts:

```
 control center / command lines --status,start,stop--> campaign.py --Popen--> worker (run_loop)
        |  arm-research, disarm                          |  state.json            |
        v                                                |  campaign_stop.flag <--+ looks for it
 operator_stop.flag, arm_state.json <----run_cycle-------+------------------------+
        |                                                orchestrator.lock (ProcessLock)
        v
 scan subprocess: gate on arm_state.json and readiness --> paper_trades.csv <-- portfolio scan
                                                             |
 evaluator subprocess ---------------------------------------+--> paper_trade_evaluations.csv
```

Beside it: the control center starts jobs (`job_manager.py --Popen--> control_center_worker.py`)
and live paper workers (`shadow_process_controller.py --Popen--> live_paper.py`); replays feed
calibrations and challengers through one cumulative file and the registry, and a completed
calibration is what readiness asks for; in the cloud a workflow runs one orchestrator cycle
per job and hands its files to the next job through a branch.

What is hard: the orchestrator's look at the stop flag and its write of the mode are two
steps; `arm_state.json` is truncated in place while others read it; the lock file is empty
between creation and content; a retried scan meets its own rows; each caller of the
campaign manager, and of the job manager, writes back a whole copy of `state.json`, the
latter through one temporary file that the worker uses too; pids
outlive their processes; a checkpoint is two files; a failed step of a workflow skips some
later steps and not others; crashes come between any two writes. `PROJECT.json` lists the
places under `hazards` at their lines, with the properties that watch them.

## 2. Plan

Done, in this order: `ProcessLock`, `PaperCycle`, `PaperLedger`, `PaperCampaign`,
`LivePaperRuntime`; then `SoleRunner` (abstract) with `ShadowWorker` that
implements it, as `ProcessLock` does, `JobManager`, `MarketReplay`, `ExperimentRegistry`, `CloudState`. Each of
the ten concrete modules has proofs of all its safety properties.

What would come next, were the project to grow:

1. `PaperSystem`: campaign, lock and cycle composed. That the lock may be replaced by its holder
   is proved (`SoleOrchestrator`); the abstraction `PaperCampaign` makes of the cycle (one step)
   is not.
2. `PaperLedger` and `JobManager` with overlapping writers: which rows or jobs can be lost or
   doubled, as a property that still holds.
3. `LivePaperRuntime` under `ShadowWorker`: a second process reads and writes the state
   file before it finds the lock taken (`Overlap = TRUE` of the former).
4. The showcase session, once its trades are meant to count.

The number of runs and properties is kept at what a check can repeat in an hour; where a
run stands for a settled disagreement only, it was given up for one that shows something
that holds, and section 7 keeps the disagreement.

## 3. The modules

### ProcessLock (with `MCProcessLock`, `Orchestrator_proofs`)

`lockFile` is `orchestrator.lock`: absent, or who created it and whether its pid is written
yet. `lockPc[p]` is process p's place in `ProcessLock.acquire`, `main` or `release`, `lockAttempt`
the loop's round, `found` the pid read. `Acquire` enters the loop; then one action per system
call: `CreateFile`
(`os.open` with `O_EXCL`), `FileExists`, `WritePid`, `ReadPid` (an empty file gives pid 0,
here `NoPid`), `Refuse`, `JudgeStale`, `RemoveStale`, `Release`, `Exit`, and `Die` anywhere.
`Recycle` gives a dead pid to a foreign program, so `_pid_alive` may be wrong. `Overlap`
says whether a launch may begin while another is inside `acquire`. Its definitions carry the
prefix `Lock` where `PaperCycle` has the same name, so that one module of proofs extends both.

### PaperCycle (with `MCPaperCycle`, `Orchestrator_proofs`)

The orchestrator's `pc` walks through `run_cycle`: `Begin`, `Refresh`
(`_refresh_readiness`), `CheckFlag`, `LoadArm`, `TruncateArm`, `FillArm` (`_ensure_arm` and the
in-place write), the steps of `cycle_commands` (`ScanGate` and `ScanAppend` for the scan,
`Retry`, `NextStep`, `EndCommands` for `run_step` and `_run_commands`), the same steps again
for maintenance, and `WriteLastCycle`, `AppendHistory`, `SaveState`. What a step computes is
its exit code: 0, a failure, or the monitor's 75 for no network. The operator's commands
interleave with it file access by file access (`OperatorBegin`, `OperatorFlag`,
`OperatorTruncate`, `OperatorFill`); `EvidenceChanges` moves the readiness artifacts.
`flagAtStart` and `touched` only remember what happened, for the properties. A row
(`CurrentRow`) has `maintenance_run`, which tells that maintenance was due: it is TRUE also on
a cycle whose maintenance was skipped for lack of network. Whether the maintenance steps are
in the row is `maintained`; `SkippedCycleIsEmpty` relates the two. `--maintenance-now`
(`force_maintenance`), an option of `--once`, is not modelled: the loop never passes it.

### PaperLedger (with `MCPaperLedger`, `PaperLedger_proofs`)

A row is its `paper_trade_id`: the ledger never changes a row, status included. The scan
is `ScanRead` (ids and open rows), `Consider` per signal (`Stale`, `AtLimit`), `Chosen`; the
signals still to be considered are a set, taken in order; the limits count by `Count` how many
rows are in a set. The portfolio scan is `RecordPortfolio`; both end in `Reread`, `WriteTemp`,
`Replace` with the one temporary name they share. `Crash` covers the death of a writer and the
step timeout after which the orchestrator runs the scan again. The evaluator reads the ledger
(`EvalRead`) and writes a verdict per row (`EvalWrite`): `Fetched` is the provider's window,
`EntryCandle` the entry the code finds or falls back to, `Walk` the first later candle that
touches stop or target. A price path is a choice per candle and trade between quiet, stop
and target.

### PaperCampaign (with `MCPaperCampaign`, `PaperCampaign_proofs`)

A caller runs `status`, `start` or `stop`: `Call` reads `state.json` and recovers its copy
(`Recovered`), `Decide` writes the copy back and accepts or refuses, a start goes on with
`Arm`, `Unflag`, `Starting`, `Launch` or `LaunchFails`, `WriteLaunched`, a stop with `Flag` and
`Request`. The copy travels in `caller[c].copy`; what a second caller does meanwhile is lost
when it is written. Workers take the lock (`Boot`), wait, run a cycle, see the flag
(`SeeFlag`) and leave; they die anywhere; `Recycle` lets a dead pid answer `os.kill` (a zombie
or another program); `RunByHand` is an operator's `--once` under the same lock. The n-th
worker has pid n. Of the lock only its holder is kept, which begins when nobody holds it
and ends before the next: workers are launched one at a time where the proofs apply, the case
in which `SoleOrchestrator` proves just that of `ProcessLock`.

### LivePaperRuntime (with `MCLivePaperRuntime`, `LivePaperRuntime_proofs`)

`account` is `account_state.json`, `plan` is `runtime_state.json`; `broker[p]` and `store[p]` are
process p's copies. A process starts with `Start` (`RuntimeStore` reads its file), `SaveScope`
(the constructor writes it back) and `LoadAccount`, all before `TakeLock`. A round is
`manage_exits` over the planned positions (`CheckFails`, `CheckHolds`, `Sell` by the broker,
`Settle` in the plan, one `EndManage` that saves) and `process_symbol` over the universe
(`ProcessFails`, `IgnoreDuplicate`, `Record` of the decision, then `Buy` with its failures
`BuyFails`, `BuyUnpriced`, `BuyUnlogged`, and `Enter` of the plan). It ends by `Finish`, `Interrupt`
(Ctrl+C), `Fail` and `RecordCrash` (an exception outside the loop over the symbols), or `Crash`,
which is also what the controller's SIGTERM does; `RemoveStaleLock` is the controller's.
A position is the candle it was bought on, a plan that candle and the target it waits
for. The loss limits and the open risk may refuse any entry, the price may touch any
level. `entered`, `closes`, `underway` and `torn` only remember what happened.

### SoleRunner

The promise behind a single-instance guard, in four lines: of the processes that could
run at most one does, and the next begins after the last has ended. Two modules with
nothing in common but this implement it: `Sole == INSTANCE SoleRunner WITH running <- ...`
in `ProcessLock` (orchestrators that hold the lock) and `ShadowWorker` (workers in their loop).
Their properties `OneOrchestratorAtATime` and `OneWorkerAtATime` are `Sole!Spec`. It models no code
of its own. `JobManager` does not implement it, as a start that cannot read a state file
launches a second worker; `StartsAlone` is what it keeps.

### ShadowWorker (with `MCShadowWorker`, `ShadowWorker_proofs`)

`lock` is `runtime.lock`: absent, or who created it and whether the pid is in it; `metaPid` is the
pid in the controller's metadata. A worker boots, creates the lock (`CreateLock`, or
`TurnedAway`), fills it (`FillLock`) and leaves (`Leave`) or dies (`Crash`). A call of the
controller goes through `ReadMeta`, `ReadLockPid` (`_running_pid`), `Kill` (signals and waiting, of
which SIGKILL has no waiting), `NothingStale`, `ReadStale`, `RefuseRunning`, `JudgeStale`
(`_remove_stale_runtime_lock`), `RecordStopped`, `Popen`, `RecordLaunched`, and the poll that ends in
`Started` or `GiveUp`. Sessions die anywhere (`Break`). A pid counts only with the command line of a live worker
(`Validated`): the absolute path of `live_paper.py` and `--mode <mode>`
(`shadow_process_controller.py:90`). So a zombie or a recycled pid is not mistaken for a worker,
but a worker that somebody starts as `python live_paper.py --loop` is not found either. `Exact` are
the workers with the command line looked for, all of those the controller launches and some
that are launched by hand (`LaunchByHand`); the others, the outsiders, take and hold the lock as
any worker does, and the controller judges that lock stale. `Readable` says whether every
command line can be read (`_process_command` may fail, and then the worker is not validated).
`Overlap` says whether calls may overlap, `Slow` whether a worker may still be without its lock
after the eight seconds for which `start` waits.

With an outsider the code keeps only `TurnedAwayOnlyByAWorker`. `OneWorkerAtATime`, `RunningWorkerIsFound` and
`StoppedIsStopped` are stated until the first outsider is started (`NoOutsider`); section 7 has
what happens afterwards. Overlapping sessions also share the temporary file of the metadata,
which the module leaves out: no run and no theorem but `TypeCorrect` is about them.

### JobManager (with `MCJobManager`, `JobManager_proofs`)

`state[j]` is a job's `state.json`, reduced to status and pid, `flag` its `cancel.requested`. A
caller lists the jobs file by file: `ReadState`, and for some statuses the lookup of the pid
(`FoundAlive`, or `FoundDead`, which goes on to write INTERRUPTED). Then a page ends (`EndPage`), a
start writes QUEUED (`Queue`), launches (`Popen`, `PopenFails`), reads again (`Reread`) and writes the
pid (`WithPid`), a cancel sets the flag and the status (`Flag`, `Requested`), a retry starts anew
(`Retry`) or the call is refused (`Refuse`). The worker reads once (`Boot`), writes its own copy before
its loop, before and after each step and at its end, and looks for the flag before and after
each step (`Look`, `KeepGoing`, `Cancel`; then `Succeed`, `Fail`, `Raise`). `FoundAlive` may also be the
answer for a worker that has ended: a zombie's pid, or another program's. `late` only counts
steps begun after a cancel, `reached` the verdicts a worker has come to, and `blind` whether a
start met a file it could not read.

`write_state()` is not one step, and a job has one `state.tmp` for worker and callers alike. Each
writer has a `pen`: `Open` creates or empties `state.tmp` whoever else has it open; `Rename` makes
state.json of what is in it, which is the text of one of the writers that have filled it, a
mixture (`Garbled`), or nothing yet (`Blank`); a writer whose file was renamed by another before
it was filled writes into state.json itself (`Overwrite`), and its own rename takes the next
writer's file or finds none (`NothingToRename`, FileNotFoundError: `WriteRaises`, `WorkerRaises`). What is
in `state.tmp` matters only once it is renamed and is chosen then, among all that the writers
may have done. A killed writer leaves its text behind (`stray`), which matters while others
have the file open; whoever opens it later empties it. An unreadable file (`Readable`) is {} to a
reader: a page drops the job, a cancel refuses it, a booting worker dies, and a start takes it
for none.

Two starts of the same job manager can so run two jobs, with serial calls, when the second
meets a torn file. `StartsAlone` names that start as its exception (`blind`); `RunningJobIsNotOver` and
`ShownResultIsReal` have no such exception. The module has POSIX semantics, where an open file
can be renamed; under Windows, the other system the code names, the rename raises instead.
To keep the state space small an unused job is taken by CHOOSE, and what a worker that has
ended, or a caller between two calls, remembered is reset.

### MarketReplay (with `MCMarketReplay`, `Research_proofs`)

`saved` and `savedRows` are the two checkpoint files, `published` the run's rows in the
cumulative CSV, `registry` the status of its registry row; the rest is the process. `Launch`
reads both files (`Restored`, `RestoredRows`), `NextSymbol` and the candle steps (`SkipNeutral`,
`Decide`, `CompleteSymbol`, `FailSymbol`) are the loops, `SaveState` and `SaveRows` the checkpoint in its
two halves, `SaveFails` the exception handler around them, then `Publish` and `Finish`. A row is
the symbol and candle of its decision. Launches share configuration and data, and a run id
belongs to one process at a time. `halfSaved` and `torn` only remember.

### ExperimentRegistry (with `MCExperimentRegistry`, `Research_proofs`)

`runRows` and `claims` are the two tables, `replay` the newest run of the cumulative file and the
decisions in it. A calibration runs under an id of its own and replaces a row of that id, a
challenger under an id that must be new (`BeginChallenger` looks, `StartRun` or `StartRefused`
inserts). Then `Claim` or `ClaimRefused`, `Evaluate`, `FinishRun`; `Die` anywhere. The key of a
claim is the family and the data (`KeyOf`): a calibration's hash is that of decisions, which a
repeated replay keeps, a challenger's that of the file, which it changes. Calibrations
outside `Enforced` are those on another file than the default, which need no claim. `Ready` is the
preflight's look at `latest_run`. `looked` remembers who saw which TEST outcomes.

### CloudState (with `MCCloudState`, `CloudState_proofs`)

One job at a time (the workflow's concurrency group) goes from `StartJob` through restore
(`Fetch`, `RestoreMember`, `RestoreEnds`), cycle (`Record`, `AttemptFails`), pack (`PackArchive`,
`WriteManifest`), upload and push (`BeginPersist`, `Push`, `NextAttempt`) to green or red. Each step
may fail (`SetupFails`, `RestoreFails`, `CycleFails`, `PackFails`, `UploadFails`, `PushFails`,
`PersistFails`), the lookup of the branch may fail and be taken for "no branch" (`LookupFails`), a
push may arrive without its answer (`AnswerLost`), the machine may vanish (`RunnerLost`). A
failed step skips to the pack step, which is `if: always()` like upload and push. A file holds
the numbers of the jobs whose records it has; `Kept` are the files below `STATE_PATHS`, `Walked`
those with a size limit. `left` remembers what the last job, if green, left on its disk.

## 4. The runs

| Run | Instance | What it shows |
| --- | --- | --- |
| `lock_serial` | 3 pids, launches one at a time, pids reused, symmetric | `OneOrchestratorAtATime` (refinement) through crashes at every system call |
| `lock_overlap` | 3 pids, launches overlap, no reuse, fair | `SettledLockStays`, `LaunchIsAnswered` |
| `cycle` | 2 cycles of monitor and scan, fresh OOS as maintenance when due, the commands disarm, arm and a signal, 2 readiness levels, crashes and retries, fair; 1.3 million states | `StoppedCycleRecordsNothing`, `ArmFollowsReadiness`, `SkippedCycleIsEmpty`, `CountedCyclesAreAudited`, `CycleEnds` |
| `ledger_serial` | 4 signals of 3 symbols, 4 candles, a portfolio trade, limits of 1 per symbol and 2 units of risk, one writer at a time | `LimitsHold`, `NoDuplicateRows`, `RowsStay`, `NoEarlyClose`, `ResultIsFinal`, `TypeOK` |
| `campaign_serial` | 1 caller that may die outside a launch, 3 launches, 3 windows, fair workers | `ReportedStopIsReal`, `WorkerIsManaged`, `RefusedOnlyWhileAlive`, `WindowKept`, `StopIsObeyed` |
| `live_serial` | 1 core symbol, 2 memes (symmetric), 2 candles, 2 targets, 2 positions of which 1 meme, one process at a time, killed or failing anywhere | `EntryOncePerDecision`, `LimitsHold`, `RolloutIsEarned`, `PlanOutlivesPosition`, `DamageIsLocal` |
| `jobs_serial` | 2 jobs, of 2 steps and 1, 1 caller that may leave before its launch, workers killed anywhere, overlapping writes of caller and worker, pids that answer after death, no start after an unreadable file, fair; 339 thousand states | `StartsAlone`, `RunningJobIsNotOver`, `ShownResultIsReal`, `OneStepAfterCancel`, `CancelFreesTheQueue` |
| `worker_serial` | 3 workers with the command line looked for, 2 outsiders, 2 controllers whose calls follow one another, symmetric | `OneWorkerAtATime` (refinement), `RunningWorkerIsFound`, `StoppedIsStopped`, `TurnedAwayOnlyByAWorker` |
| `replay_resume` | 2 symbols of 3 candles, one of them neutral, a cap of 2, checkpoints every 2 rows, 4 launches; 957 thousand states | `OnlyTornRowsAreLost`, `NoDecisionIsRepeated` |
| `holdout` | 2 calibrations, 2 challengers, 2 ids, 2 replays, symmetric; 1.5 million states | `HoldoutUsedOnce`, `FinishedRunStays`, `ReadinessIsLostOnlyByARepeat` |
| `cloud` | 4 jobs, a walked, a plain and an unlisted file, a limit of 1 record; 176 thousand states | `NextJobSeesWhatAGreenJobLeft`, `OnlyAnUnrestoredJobLosesRecords` |
| `cloud_ledger` | the same with 2 jobs | violation of `OpenTradesRemainVisible` (section 7) |

Why the bounds suffice. Lock: a thief, a victim and a bystander; the loop has two rounds
whatever the bound. Cycle: the second cycle is the first that can inherit a mode from an
earlier one and, as a crashed number is repeated with the history full, the first whose
row stands beside a repeated one; the maintenance of one step has the second look at
readiness. Monitor and scan stand for the list of steps: the others touch neither flag nor
mode, only pass or fail, and the theorems have any list. `BLOCKED`, a third level, takes the
path of RESEARCH with a lower mode. Ledger: the limits bind with three rows, the window of
three candles leaves an entry behind at the fourth. Campaign: a resumed campaign needs two
launches, a third shows a restart after a restart. Live runtime: one closed core trade
unlocks the memes, the second meme meets the meme limit, three symbols meet the limit of two
positions, and the second candle is the first on which a stale plan can outlive its
position. A growth symbol beside them makes the instance too large; it is checked by no
run and covered by `RolloutEarned` of section 5. Jobs: a second job is refused or started
while the first is stale, two steps allow one step too many after a cancel; two is also how
many writers share a file when calls do not overlap. `BlindStart = FALSE` keeps the second worker
of a start that met a torn file out of the run, whose state space it would multiply; with it
the safety properties were checked on plans of 2 steps (3.9 million states) and are proved.
Workers: one runs, one stale lock of a second, one by hand, one by the controller; of two
outsiders one can be running beside a stale lock of the other. Replay: a symbol that
meets the cap and one that does not, a checkpoint inside a symbol and one after it, a crash
in each of two launches, a resume and a repetition of a finished run. Registry: each race
needs two programs of a family, a repeat needs the second replay. Cloud: a job that fills
the branch, one that damages it, one that restores the damage and one that sees it.

`CHECK_DEADLOCK FALSE` stands where the system really stops in the model: all processes
dead with their pids gone (lock, without reuse), the cycle or candle bound reached
(cycle, ledger), the launches, programs or jobs of the instance used up (replay, registry,
cloud). The other runs have it checked.

Bounds named in the modules: `MaxNumber`, `MaxHistory` (guards of `Begin`), `Horizon` and
`MaxCandle` (guards of the two `Tick`s), `MaxLaunch`, `MaxWindow` (guards of `Call`, `Starting`,
`Launch`), `MaxLaunch` of the replay (guard of its `Launch`), `MaxReplay` (guard of `Replay`),
`MaxJobs` (guard of `StartJob`); `BlindStart` (guard of `Queue`; a start that met an unreadable file is refused in a run that bounds
it); the sets `Job` of `JobManager`, `Worker` of `ShadowWorker` and the
programs of `ExperimentRegistry` bound starts, as each member is used once. `closes` and the counters of `LivePaperRuntime` are bounded by the decisions. They stop new work
and never cut a step in two.

Fairness. `ProcessLock`: weak fairness of the steps of `acquire`, which never waits for
anyone; none of launches, releases or crashes. `PaperCycle`: weak fairness of the steps
of `run_cycle`, each of which ends because every subprocess has a timeout; none of
launches, new cycles, signals or the operator. `PaperCampaign`: weak fairness of a worker's own
steps, since its loop sleeps thirty seconds at most between two looks at the flag and a
cycle ends (`CycleEnds`); none of callers. `LivePaperRuntime` states no liveness: a worker runs
rounds until it is stopped, and what it sells depends on prices. `JobManager`: weak
fairness of a worker's steps, each under a timeout, and of the steps of a call, which waits
for nobody. `CancelFreesTheQueue` further assumes that a page or the scheduler goes on listing
the jobs (`KeepsListing`: nothing else ever looks at a dead worker) and that a worker that has ended is
found alive a finite number of times (`PidsAreGivenUp`); the code ensures neither. The other new
modules state no liveness: nothing in them promises progress without a human or a schedule.

Every property of a passing run has a mutant in `PROJECT.json`: a definition of the module
replaced by a plausible bug that the run then reports. The mutated forms stand in each
module under a heading of their own and are used by nothing else.

## 5. The proofs

TLAPS checks eight modules of proofs about the ten concrete modules, for every value of the
constants that meets the modules' assumptions. `PROJECT.json` lists the theorems: every
invariant, action property and refinement that a passing run checks, and for each module
`TypeCorrect` (`LockTypeCorrect`, `ReplayTypeCorrect`), the type invariant `TypeOK`, which no run
but `ledger_serial` repeats. Two modules of proofs extend two components each, which share
no variable: `Orchestrator_proofs` the cycle and its lock, `Research_proofs` the registry and the
replay. Where a theorem needs that calls do not overlap or that a starter does not die at one
place, the hypothesis is a value of the constants the run has too, and section 7 has the
counterexample without it.

`Orchestrator_proofs`, the lock. `LockTypeCorrect` for any set of pids. With `~Overlap`,
`SerialMutualExclusion` (`MutualExclusion`, `HolderOwnsTheFile`) and `SoleOrchestrator`, which shows
that the lock implements `SoleRunner`. Neither property is inductive: a process that is about to
unlink must be known to have no holder to evict. `LockInv` adds that one launch at most is
inside `acquire`, that a writer still has its file, and that what a probe found is current.
`SettledLockIsSafe`: `SettledLockStays` for any overlap.

`Orchestrator_proofs`, the cycle. For any steps, commands, levels, maintenance interval and
bounds. `TypeCorrect` needs that a cycle under way has room for its row. `StopIsKept` proves
`StoppedCycleRecordsNothing` from `StopInv`: under the flag, and until an arming command, the
cycle passes no place where it would load the mode, writes only DISARMED, and then the mode
reads as DISARMED, torn or not. `ArmedModeFollows` (`ReadyInv`: what is about to be written is
what readiness allows), `SkippedIsEmpty` (`SkipInv`: before the monitor, which comes first,
nothing was observed; maintenance steps run only on a cycle whose maintenance is due and whose
network is there, and any other row's `maintenance_run` agrees with them), `CountedIsAudited` (`AuditInv`: the number in memory is one ahead of the
file's, and its row is written before the file counts it).

`PaperLedger_proofs`. With `~Overlap`, `LimitsAreKept`, `NoRowTwice` and `RowsAreKept`, for any
signals, symbols, limits and number of writers. The limits are inductive only as statements about
what will be written: `WriterInv` says that the rows a writer has read are still the ledger, that
its batch behind them keeps the limits and repeats no row, and that the temporary file it is
about to rename is its own, whatever a dead writer left there. The lemmas about `Count` (monotone;
a row more counts for one) carry the three limits through `Consider`. `NeverClosedEarly` and
`ResultsAreFinal` need no such hypothesis: `ResultInv` says that a closed trade was closed by a
touch after its entry candle, and by the first one as long as the window reaches the entry, from
the lemmas `EntryFacts`, `WalkFacts` and `JudgeFacts` about what the evaluator computes.

`PaperCampaign_proofs`. `TypeCorrect` for any callers and crashes. Under `Serial` (one caller at
a time, which completes the launches it begins) the theorems `SerialStopIsReal`,
`SerialWorkerIsManaged`, `SerialRefusal` and `SerialWindowKept`, for any number of workers, deaths and
reused pids. `SerialInv` says that a live worker is named by `state.json` or by the copy about
to be written (`LiveIsNamed`), that STARTING is only ever seen during a launch
(`StartingIsUnderWay`), and at each place of a caller what it may still rely on (`CallerKnows`).
Both halves of `Serial` are necessary: two callers refute the first theorem (section 7), and
a caller that dies after Popen leaves a worker nobody names. So `SerialRefusal` does not say that
crashes cannot strand a campaign: a start that dies between its STARTING and its last write
does, until somebody calls stop, and so does a dead worker as long as another program has its
pid. `RefusalHasACause`, for any callers that overlap and die anywhere, says that
these two are all: a start is refused only while some program answers under the recorded pid, or
on a STARTING.

`LivePaperRuntime_proofs`. For any universe, limits, targets, processes and failures.
`LimitsKept` and `RolloutEarned` hold even while processes overlap. Every account is a copy of
some process's positions, which grow only where there was room (`LimitInv`). No copy of the
counters, in memory or on disk, is ahead of the closes, and a sale not yet counted is
still owed (`RolloutInv`). The other three assume `~Overlap`, from which `Alone` follows.
`SerialInv` says at which steps memory and file agree (`Agreed`), that both know the same
decisions, and that a plan only memory has dropped belongs to a position that is sold;
`EnteredAtMostOnce` and `PlansKept` follow. `DamageStaysLocal` adds `DamageInv`: memory's positions,
memory's plans and the account agree but for torn fills and the one being settled.

`ShadowWorker_proofs`. `TypeCorrect` for any schedule. Under `Serial` (`~Overlap`, `~Slow` and `Readable`) and
for any number of workers of either kind and of controllers, `SerialSole` shows that the protocol
implements `SoleRunner` until the first outsider is started: the initial states map to its
initial state and each step to `Begin`, `End` or a stutter; `SerialFinding` and `SerialStop` hold as
long, and `SerialTurn` with outsiders too. `SerialInv` says what the
one caller still inside a call may rely on: before its `Popen` no worker is without its lock
and none is live once the lock was judged (`Clear`), after it only the launched worker is on its
way, and a running worker is in the metadata or holds a filled lock of its own. `OneHolder`
gives uniqueness from that.

`JobManager_proofs`. However calls overlap and break off, `TypeCorrect` and `CancelIsObeyed`
(`OneStepAfterCancel`): `CallInv` says that a job about to be launched has no worker and one
caller, and that a step in which the request was missed is the last one. Under `Serial` (calls
do not overlap; a session does not die between its Popen and the write of the pid, nor between
the cancel file and the status) `SoleJob`: a start that could read all files launches no worker
beside one at work; `RunningIsNotOver` and `ShownIsReal`: the files tell the truth, also after a start that
met an unreadable one. All three are for any number of jobs, workers killed anywhere, pids that
answer after death and writes that tear one another. `SerialInv`: every text that a writer, living or
killed, may put into a file is true of the worker it is about (`Truth`: no verdict it has not come
to, no INTERRUPTED while it lives, and its pid, unless the starter has still to write that one,
`Awaits`); the copies of a caller are such texts (`CopyOk`); and a start still inside its listing has
every worker at work ahead of it, or has met it, or is blind (`StartOk`). Torn texts are readable to
nobody, so that truth survives them.

`Research_proofs`, the registry. `FinishedStays` from `RowInv` (between its start and its finish a
program's row is RUNNING and nobody else writes it, though two challengers may hold one id for a
moment); `UsedOnce` from `ClaimInv` (who is at or past its evaluation holds the only claim);
`ReadinessIsKept`: a step that ends the preflight's yes for a replay is a start of a calibration
of it, since no other step adds a calibration or changes a finished row.

`Research_proofs`, the replay. `RepeatsNothing`: `BehindInv` says that rows, in memory and on disk,
lie behind the position next to them, which survives a torn checkpoint since the position is
saved first. `NothingElseIsLost`: `WholeInv` says that every decision behind the position is in the
rows, published, or torn, and that a completed symbol has every decision it owes behind it. With
a cap that needs counting: a launch counts no more rows of a symbol than decisions lie behind
its position (`Passed`), so a symbol that met the cap has passed the first `Cap` of them
(`ExhaustedIsThrough`), although a launch that resumes begins its count at 0.

`CloudState_proofs`. `HandOver` says that a job which restored has all of the branch on its disk, that
what it may push is packed from that disk, and that a green job's archive is the branch.
`RestoredRecordsStay` and `HandOverWorks` follow from it, for any files, limit and number of jobs.

Only model-checked: the four liveness properties `LaunchIsAnswered`, `CycleEnds`,
`StopIsObeyed` and `CancelFreesTheQueue`, since the prover has neither fairness nor ENABLED, and the
violation `OpenTradesRemainVisible`, which a counterexample settles. The strengthened invariants
were model-checked on the constants of the runs before they were proved.

## 6. Abstractions and what is not modelled

- One host and one file system; a rename, a creation with `O_EXCL` and an unlink are atomic.
  A write in place is two steps, truncate and fill; files replaced by a rename
  (the campaign's `state.json`, which has a temporary file of its own per write,
  `last_cycle.json`, `orchestrator_state.json`, the account and runtime state of a live worker) are
  written in one. Where writers that overlap share one temporary name, the write is modelled in
  its steps: `paper_trades.csv` and the jobs' `state.json`. `account_state.json`, `runtime_state.json`
  and the controller's metadata have one temporary name too, which matters only when two live
  workers or two sessions overlap: the runs exclude it, and `LimitsKept` and `RolloutEarned`, which
  are stated for overlapping processes, are for saves that do not tear each other.
- An existing ledger can be read. The code takes an unreadable one for an empty one
  (`paper_observation_v2.py:60`), and then neither limits nor duplicates are seen. A ledger with
  portfolio rows only makes each later scan raise (`:186`); `ScanRead` has that guard.
- Readiness is one of three levels; which artifacts support it is a computation over
  research tables and stays outside.
- Times are candles. Prices, costs, sizes and returns are abstracted to which candle
  touches stop or target; risk to its number of units.
- Of a paper position the amount left is abstracted: a half exit repeated after a crash,
  or a plan that outlived its position and manages a later one of the same symbol until
  that gets its own plan, cannot be told from a proper exit. The cash, the failure and
  freshness counters of the shadow gate and `run_live_loop` (a demonstration without exits)
  are left out.
- The trailing status figures of the campaign (days, trades, success rate) report only.
- No document ties decisions to the ledger beyond ids and times: decisions are given.
- `JobManager` leaves out plans, logs and the contents of a step; `ShadowWorker` what a worker
  does under its lock, which is `LivePaperRuntime`; `MarketReplay` the analysis of a candle;
  `ExperimentRegistry` provenance and the other callers of the registry; `CloudState` the cycle
  itself, whose steps may write into any file. An attempt of the cycle that is killed by its
  timeout may leave subprocesses that still write while the next attempt runs
  (`cloud_runner.py:79`); the records of a job are not told apart by attempt.
- Not modelled, for the reasons `PROJECT.json` gives: the automation schedule and the showcase
  session, whose worker and stop request repeat the patterns of `JobManager` and
  `PaperCampaign` (the showcase worker writes its copy over STOP_REQUESTED at
  `showcase_paper/worker.py:73`, and the page shows it as running while the flag file stops it);
  the evidence snapshot, which mixes two cycles when one runs meanwhile
  (`evidence_snapshot.py:108`) and whose documents do not say otherwise; the evidence ledger, to
  which production code only appends; the go-live gate; numeric analysis, which is most of the
  repository's lines (features, scores, calibration, statistics of gates and forward tests,
  history tables): it keeps no state between steps, computes in floating point over tables,
  and neither TLC nor TLAPS has anything to say about it; reports, pages, network providers,
  the airdrop radar and archived code.

## 7. Disagreements between the code and what is said of it

One has a run, `cloud_ledger`, and its quoted lines in `PROJECT.json` under `findings`: the
ledger of paper trades, `logs/paper_trades.csv`, and its evaluations are not among the
`STATE_PATHS` a cloud job hands to the next, so each job begins with an empty ledger, while the
schedule's runbook says that open trades remain visible and that the branch keeps the state.

The others follow from the modules under the constants given here. TLC showed each; they have
no run, as each would only repeat a settled question.

| Module, constants | Formula | In short |
| --- | --- | --- |
| `ProcessLock`, `Overlap = TRUE` | `MutualExclusion` | A launch that reads the lock file between creation and content (`orchestrator.py:187-197`) takes it for stale; two orchestrators run, which `PAPER_RESEARCH_ORCHESTRATOR_RUNBOOK.md:74` excludes. |
| `PaperLedger`, a trade closed before the next signal of its symbol | `RefusedOnlyForOpenTrades` | The scan counts rows with status OPEN (`paper_observation_v2.py:184`), which nobody ever changes: a closed trade counts against "maximum open trades" (`PAPER_TRADE_LAUNCH_RUNBOOK.md:89`) for ever. |
| `PaperLedger`, any scan with an evaluation | `ObservationsAreEvaluated` | Observations carry a time zone, fetched candles do not (`paper_trading.py:350`, `data_fetcher.py:75`); the comparison raises and each observation is evaluated as ERROR, though its note asks for "next-bar evaluation" (`paper_observation_v2.py:251`). |
| `PaperCampaign`, two callers | `ReportedStopIsReal` | A stop during another session's start (`campaign.py:527`) is shown as "The Paper campaign is stopped." (`paper_demo.py:29`) while the worker lives. |
| `LivePaperRuntime`, any | `StoppedSafely` | A worker stopped between the broker's save and the store's (`live_paper_runtime.py:460`) leaves a position without stop or target, and "stopped safely" (`live_paper.py:91`). |
| `MarketReplay`, any | `CompletedRunIsWhole` | The checkpoint's position is replaced before its rows (`market_replay.py:791`): a kill in between makes the resumed run skip candles and end COMPLETED, though `RELEASE_NOTES_v10_3_0.md:13` calls replay checkpoints atomic. `OnlyTornRowsAreLost` bounds the loss. |
| `ExperimentRegistry`, two calibrations of a replay | `CompletedCalibrationIsFound` | Repeating a calibration is refused by the hold-out and becomes the latest, BLOCKED run of its replay: the preflight says "No completed one-shot calibration is registered" (`paper_trade_readiness.py:68`), although one is. |
| `ShadowWorker`, `Overlap` or `Slow` | `OneWorkerAtATime` | A lock without a pid counts as stale: two workers run, against "a real worker's lock is never stolen" (`shadow_process_controller.py:266`). |
| `ShadowWorker`, an outsider | the same, `StoppedIsStopped` | A worker started as `python live_paper.py --loop` has neither the absolute path nor `--mode` in its command line (`shadow_process_controller.py:90`): its lock is unlinked, a second worker is launched, and "worker stopped safely" is reported while it runs. |
| `JobManager`, `BlindStart = TRUE` | `StartsAlone` without its exception | The starter's write of the pid meets the worker's first one in the `state.tmp` they share (`job_manager.py:32`); the torn file is dropped from the listing (`:101`), and the next start gets a second job. |
| `JobManager`, `Overlap = TRUE` | `StartsAlone` | Two sessions that start a job at once get two, in spite of "Active job already exists" (`job_manager.py:113`). |
| `JobManager`, a session that ends between Popen and the write of the pid | `RunningJobIsNotOver` | Its late write never comes; a worker is shown as INTERRUPTED if it is cancelled before its first write. |

Two more need no formula. A stop signal takes effect after the whole cycle, not after the
current step as the runbook and the log text say: in `PaperCycle` no step looks at it. With
`Overlap` set, a scan by the operator beside the orchestrator's records a signal twice in
`PaperLedger`, though the runbook lists duplicate rejection: `NoDuplicateRows` is checked
without it.

## 8. Running the checks

```
tlc -workers 2 -config MCProcessLock_serial.cfg MCProcessLock
tlapm Orchestrator_proofs.tla
```

Each configuration names its module by its prefix.
