--------------------------- MODULE ExperimentRegistry ---------------------------
(***************************************************************************)
(* The experiment registry (engine/experiment_registry.py), the two        *)
(* programs that spend a hold-out (engine/replay_score_calibration.py and  *)
(* champion_challenger_analysis.py) and the paper preflight that asks for  *)
(* a completed calibration (engine/paper_trade_readiness.py).              *)
(*                                                                         *)
(* Each registry call is one SQLite transaction; between two of them other *)
(* programs run and a program may die.  A calibration is run under an id   *)
(* of its own, a challenger under an id its operator may choose.  A        *)
(* calibration knows its data by the decisions in it, which a repeated     *)
(* replay leaves as they are; a challenger by the bytes of the file, which *)
(* it changes.                                                             *)
(***************************************************************************)
EXTENDS Naturals, FiniteSets

CONSTANTS
    Calibration,  \* runs of the calibration, each under its own id
    Enforced,     \* those on the default file, for which the hold-out is enforced
    Challenger,   \* runs of the champion-challenger analysis
    Id,           \* ids the challengers are given
    MaxReplay,    \* bound: replays written to the cumulative file
    NoRow

Run == Calibration \cup Challenger
RowId == Calibration \cup Id
Kinds == {"CALIBRATION", "CHALLENGER"}

ASSUME RegistryAssumption ==
    /\ Enforced \subseteq Calibration
    /\ Calibration \cap Challenger = {}
    /\ Calibration \cap Id = {}
    /\ MaxReplay \in Nat

VARIABLES
    replay,       \* the last run in the cumulative file, and the decisions it has
    runRows,         \* experiment_runs
    claims,       \* holdout_claims: who has claimed which data
    clock,        \* number of runs started: their started_utc
    run,          \* place, row id, data, parent and start of each program
    looked        \* only remembers: who has looked at which TEST outcomes

vars == <<replay, runRows, claims, clock, run, looked>>

Times == 0 .. Cardinality(Run)
Data == 0 .. MaxReplay
RegistryRow ==
    [kind : Kinds, status : {"RUNNING", "COMPLETED", "FAILED", "BLOCKED"},
     parent : Data, started : Nat]

ASSUME NoRowAssumption == NoRow \notin RegistryRow

Family(p) == IF p \in Calibration THEN "CALIBRATION" ELSE "CHALLENGER"
Key == [family : Kinds, data : Data]
KeyOf(p) == [family |-> Family(p), data |-> run[p].data]

Place == {"idle", "insert", "claim", "evaluate", "complete", "fail", "block", "over"}

Locals == [at : Place, id : RowId \cup {NoRow}, data : Data, parent : Data, started : Nat]

TypeOK ==
    /\ replay \in [run : Data, data : Data]
    /\ runRows \in [RowId -> RegistryRow \cup {NoRow}]
    /\ claims \subseteq (Key \X Run)
    /\ clock \in Nat
    /\ run \in [Run -> Locals]
    /\ looked \subseteq (Key \X Run)

\* A program before it starts, and after its end: it keeps nothing.
Fresh == [at |-> "idle", id |-> NoRow, data |-> 0, parent |-> 0, started |-> 0]
Over == [Fresh EXCEPT !.at = "over"]

Init ==
    /\ replay = [run |-> 0, data |-> 0]
    /\ runRows = [i \in RowId |-> NoRow]
    /\ claims = {}
    /\ clock = 0
    /\ run = [p \in Run |-> Fresh]
    /\ looked = {}

At(p, place) == run[p].at = place
Goto(p, place) == run' = [run EXCEPT ![p].at = place]
End(p) == run' = [run EXCEPT ![p] = Over]

Finished(i) == runRows[i] # NoRow /\ runRows[i].status # "RUNNING"

-----------------------------------------------------------------------------
\* Plausible bugs: each replaces one of the definitions below in a run that
\* must then fail.

\* The claim is inserted without a look at its primary key.
UnclaimedAlways(p) == TRUE

\* A challenger replaces the row of its id like the other programs.
MayInsertAnyway(p) == TRUE

\* The latest calibration is looked for without its replay.
CalibrationsOfAny(r) == {i \in Calibration : runRows[i] # NoRow}

-----------------------------------------------------------------------------
\* A replay is written: on new data, or once more on the data it had.
Replay ==
    /\ replay.run < MaxReplay
    /\ \E d \in {replay.data, replay.run + 1} :
           replay' = [run |-> replay.run + 1, data |-> d]
    /\ UNCHANGED <<runRows, claims, clock, run, looked>>

\* The program reads the file and notes when it starts.
Begin(p, i, d) ==
    /\ At(p, "idle")
    /\ replay.run > 0
    /\ clock' = clock + 1
    /\ run' = [run EXCEPT ![p] =
                 [at |-> "insert", id |-> i, data |-> d, parent |-> replay.run, started |-> clock + 1]]
    /\ UNCHANGED <<replay, runRows, claims, looked>>

BeginCalibration(c) == Begin(c, c, replay.data)

\* A challenger begins only under an id that is not registered yet.
BeginChallenger(h, i) ==
    /\ runRows[i] = NoRow
    /\ Begin(h, i, replay.run)

\* start_run: INSERT OR REPLACE for a calibration, INSERT for a challenger.
MayInsert(p) == p \in Calibration \/ runRows[run[p].id] = NoRow

StartRun(p) ==
    /\ At(p, "insert")
    /\ MayInsert(p)
    /\ runRows' = [runRows EXCEPT ![run[p].id] =
                  [kind |-> Family(p), status |-> "RUNNING",
                   parent |-> IF p \in Calibration THEN run[p].parent ELSE 0,
                   started |-> run[p].started]]
    /\ Goto(p, IF p \in Calibration \ Enforced THEN "evaluate" ELSE "claim")
    /\ UNCHANGED <<replay, claims, clock, looked>>

\* FileExistsError: another challenger has registered the id meanwhile.
StartRefused(p) ==
    /\ At(p, "insert")
    /\ ~MayInsert(p)
    /\ End(p)
    /\ UNCHANGED <<replay, runRows, claims, clock, looked>>

Unclaimed(p) == \A c \in claims : c[1] # KeyOf(p)

Claim(p) ==
    /\ At(p, "claim")
    /\ Unclaimed(p)
    /\ claims' = claims \cup {<<KeyOf(p), p>>}
    /\ Goto(p, "evaluate")
    /\ UNCHANGED <<replay, runRows, clock, looked>>

ClaimRefused(p) ==
    /\ At(p, "claim")
    /\ ~Unclaimed(p)
    /\ Goto(p, "block")
    /\ UNCHANGED <<replay, runRows, claims, clock, looked>>

\* The analysis looks at the TEST outcomes and ends well, with blockers (a
\* calibration) or with an exception (which a challenger records).
Evaluate(p) ==
    /\ At(p, "evaluate")
    /\ looked' = looked \cup {<<KeyOf(p), p>>}
    /\ \E place \in {"complete", IF p \in Calibration THEN "block" ELSE "fail"} : Goto(p, place)
    /\ UNCHANGED <<replay, runRows, claims, clock>>

StatusAt == [complete |-> "COMPLETED", block |-> "BLOCKED", fail |-> "FAILED"]

FinishRun(p) ==
    /\ run[p].at \in DOMAIN StatusAt
    /\ runRows' = [runRows EXCEPT ![run[p].id].status = StatusAt[run[p].at]]
    /\ End(p)
    /\ UNCHANGED <<replay, claims, clock, looked>>

\* Killed, or an exception nobody catches: the row stays RUNNING, the claim stays.
Die(p) ==
    /\ run[p].at \notin {"idle", "over"}
    /\ End(p)
    /\ UNCHANGED <<replay, runRows, claims, clock, looked>>

Step(p) ==
    \/ StartRun(p) \/ StartRefused(p)
    \/ Claim(p) \/ ClaimRefused(p)
    \/ Evaluate(p) \/ FinishRun(p) \/ Die(p)

Next ==
    \/ Replay
    \/ \E c \in Calibration : BeginCalibration(c)
    \/ \E h \in Challenger, i \in Id : BeginChallenger(h, i)
    \/ \E p \in Run : Step(p)

Spec == Init /\ [][Next]_vars

-----------------------------------------------------------------------------
(* The preflight: latest_run("CALIBRATION", parent_run_id) is COMPLETED. *)

CalibrationsOf(r) == {i \in Calibration : runRows[i] # NoRow /\ runRows[i].parent = r}

Ready(r) ==
    \E i \in CalibrationsOf(r) :
        /\ runRows[i].status = "COMPLETED"
        /\ \A j \in CalibrationsOf(r) : runRows[j].started <= runRows[i].started

-----------------------------------------------------------------------------
(* Properties *)

MustClaim == Enforced \cup Challenger

\* Of the programs that must claim a hold-out at most one of a family ever looks
\* at it, whoever races, dies or is run again.
HoldoutUsedOnce ==
    \A k \in Key, p, q \in MustClaim : <<k, p>> \in looked /\ <<k, q>> \in looked => p = q

\* A run that has finished keeps its row: no later start or finish changes it.
FinishedRunStays ==
    [][\A i \in RowId : Finished(i) => runRows'[i] = runRows[i]]_vars

\* What a completed calibration allows to paper trading is lost only by a later
\* start of a calibration of the same replay (which the hold-out then refuses).
ReadinessIsLostOnlyByARepeat ==
    [][\A r \in Data : Ready(r) /\ ~Ready(r)' =>
          \E c \in Calibration : StartRun(c) /\ run[c].parent = r]_vars

\* The preflight denies a completed calibration only where there is none.
CompletedCalibrationIsFound ==
    \A c \in Calibration :
        runRows[c] # NoRow /\ runRows[c].status = "COMPLETED" => Ready(runRows[c].parent)
=============================================================================
