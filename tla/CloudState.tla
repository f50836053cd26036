------------------------------ MODULE CloudState ------------------------------
(***************************************************************************)
(* The paper cycle in the cloud (.github/workflows/freakto-paper-cloud.yml,*)
(* freakto/paper/cloud_runner.py) and the state it hands from one job to   *)
(* the next (cloud_state_sync.py).                                         *)
(*                                                                         *)
(* A job begins on an empty machine, restores the archive of the branch    *)
(* paper-state over its checkout, runs one cycle, packs the state again    *)
(* and pushes it.  Packing and pushing are `if: always()`: they also       *)
(* follow a step that failed, the restore included.  The concurrency group *)
(* of the workflow lets one job run at a time.                             *)
(*                                                                         *)
(* The content of a file is the set of jobs whose records it holds; {} is  *)
(* the copy a checkout brings, or none.                                    *)
(***************************************************************************)
EXTENDS Naturals, FiniteSets

CONSTANTS
    File,         \* files of state a cycle writes
    Kept,         \* those below STATE_PATHS
    Walked,       \* those of Kept found by walking a directory: they have a size limit
    Limit,        \* records that fit into MAX_FILE_BYTES
    MaxJobs,      \* bound: jobs of a behaviour
    None,         \* no branch, or no archive file
    Torn          \* an archive whose writer died

ASSUME CloudAssumption ==
    /\ Walked \subseteq Kept
    /\ Kept \subseteq File
    /\ {Limit, MaxJobs} \subseteq Nat

Job == 1 .. MaxJobs
Disk == [File -> SUBSET Job]
Empty == [f \in File |-> {}]
Archive == [by : Job, holds : Disk]

ASSUME NotAnArchive == None # Torn /\ {None, Torn} \cap Archive = {}

MAX_PUSH_ATTEMPTS == 3
Attempts == 2     \* run_step(retries=1) of the cloud runner

VARIABLES
    branch,       \* cloud_state.tar.gz at the head of paper-state
    job,          \* number of the current, or else the last, job
    at,           \* its step
    disk,         \* the files on its machine
    todo,         \* members of the archive still to be extracted
    restored,     \* the restore step ended with the state of the branch on disk
    tries,        \* attempts of the cycle, later of the push
    failed,       \* a step of the job failed
    archive,      \* .cloud-state/cloud_state.tar.gz
    manifest,     \* .cloud-state/cloud_state_manifest.json exists
    left          \* history: files of the last job if it ended green, else nothing

machine == <<disk, todo, restored, archive, manifest>>
vars == <<branch, job, at, tries, failed, machine, left>>

Ended == {"green", "red"}
Step == Ended \cup {"setup", "restore", "cycle", "pack", "manifest", "persist", "push"}

TypeOK ==
    /\ branch \in Archive \cup {None, Torn}
    /\ job \in 0 .. MaxJobs
    /\ at \in Step
    /\ disk \in Disk
    /\ todo \subseteq Kept
    /\ restored \in BOOLEAN
    /\ tries \in 0 .. MAX_PUSH_ATTEMPTS
    /\ failed \in BOOLEAN
    /\ archive \in Archive \cup {None, Torn}
    /\ manifest \in BOOLEAN
    /\ left \in Disk

Init ==
    /\ branch = None
    /\ job = 0
    /\ at = "red"
    /\ disk = Empty
    /\ todo = {}
    /\ restored = FALSE
    /\ tries = 0
    /\ failed = FALSE
    /\ archive = None
    /\ manifest = FALSE
    /\ left = Empty

\* What an archive gives back: nothing where it cannot be read.
Holds(a, f) == IF a \in {None, Torn} THEN {} ELSE a.holds[f]

-----------------------------------------------------------------------------
\* The schedule, or a hand, starts a job once none runs; its machine is new.
StartJob ==
    /\ at \in Ended
    /\ job < MaxJobs
    /\ job' = job + 1
    /\ at' = "setup"
    /\ disk' = Empty
    /\ todo' = {}
    /\ restored' = FALSE
    /\ tries' = 0
    /\ failed' = FALSE
    /\ archive' = None
    /\ manifest' = FALSE
    /\ left' = IF at = "green" THEN disk ELSE Empty
    /\ UNCHANGED branch

\* A failed step, or a job that is cancelled or at its timeout-minutes: every
\* later step is skipped up to the first one that always runs.
Skip ==
    /\ at' = "pack"
    /\ failed' = TRUE
    /\ UNCHANGED <<branch, job, tries, machine, left>>

SetupFails == at = "setup" /\ Skip

\* ls-remote finds no branch and the job starts with an empty state, which is
\* all there is to restore.
NoBranchYet ==
    /\ at = "setup"
    /\ branch = None
    /\ at' = "cycle"
    /\ restored' = TRUE
    /\ UNCHANGED <<branch, job, tries, failed, disk, todo, archive, manifest, left>>

\* ls-remote fails for another reason: the script sees only that it failed.
LookupFails ==
    /\ at = "setup"
    /\ branch # None
    /\ at' = "cycle"
    /\ UNCHANGED <<branch, job, tries, failed, machine, left>>

Fetch ==
    /\ at = "setup"
    /\ branch # None
    /\ archive' = branch
    /\ todo' = Kept
    /\ at' = "restore"
    /\ UNCHANGED <<branch, job, tries, failed, disk, restored, manifest, left>>

\* One member is written over the file of the checkout.
RestoreMember(f) ==
    /\ at = "restore"
    /\ archive # Torn
    /\ f \in todo
    /\ disk' = [disk EXCEPT ![f] = Holds(archive, f)]
    /\ todo' = todo \ {f}
    /\ UNCHANGED <<branch, job, at, tries, failed, restored, archive, manifest, left>>

\* An unreadable archive raises before any member; a later error leaves the
\* members written so far.
RestoreFails == at = "restore" /\ Skip

RestoreEnds ==
    /\ at = "restore"
    /\ archive # Torn
    /\ todo = {}
    /\ at' = "cycle"
    /\ restored' = TRUE
    /\ UNCHANGED <<branch, job, tries, failed, disk, todo, archive, manifest, left>>

-----------------------------------------------------------------------------
\* A step of the cycle writes into one of its files.
Record(f) ==
    /\ at = "cycle"
    /\ disk' = [disk EXCEPT ![f] = @ \cup {job}]
    /\ UNCHANGED <<branch, job, at, tries, failed, todo, restored, archive, manifest, left>>

CycleDone ==
    /\ at = "cycle"
    /\ at' = "pack"
    /\ UNCHANGED <<branch, job, tries, failed, machine, left>>

\* An exit code, or a timeout, that run_step answers with one more attempt.
AttemptFails ==
    /\ at = "cycle"
    /\ tries + 1 < Attempts
    /\ tries' = tries + 1
    /\ UNCHANGED <<branch, job, at, failed, machine, left>>

\* The last attempt fails; or the tests before the cycle do, a required secret
\* is missing, or the job is cancelled.
CycleFails == at = "cycle" /\ Skip

-----------------------------------------------------------------------------
\* iter_state_files: the limit holds for the files of a directory only.
Fits(f) == f \in Kept /\ (f \in Walked => Cardinality(disk[f]) <= Limit)

PackArchive ==
    /\ at = "pack"
    /\ archive' = [by |-> job, holds |-> [f \in File |-> IF Fits(f) THEN disk[f] ELSE {}]]
    /\ at' = "manifest"
    /\ UNCHANGED <<branch, job, tries, failed, disk, todo, restored, manifest, left>>

\* The packer dies while it writes the archive: the manifest is not written.
PackFails ==
    /\ at = "pack"
    /\ archive' = Torn
    /\ at' = "persist"
    /\ failed' = TRUE
    /\ UNCHANGED <<branch, job, tries, disk, todo, restored, manifest, left>>

WriteManifest ==
    /\ at = "manifest"
    /\ manifest' = TRUE
    /\ at' = "persist"
    /\ UNCHANGED <<branch, job, tries, failed, disk, todo, restored, archive, left>>

\* The upload of the reports lies between packing and pushing.
UploadFails ==
    /\ at = "persist"
    /\ ~failed
    /\ failed' = TRUE
    /\ UNCHANGED <<branch, job, at, tries, machine, left>>

\* The manifest is not looked for.
PersistableArchive == archive # None

\* test -s of the archive and of the manifest.
Persistable == archive # None /\ manifest

BeginPersist ==
    /\ at = "persist"
    /\ Persistable
    /\ at' = "push"
    /\ tries' = 1
    /\ UNCHANGED <<branch, job, failed, machine, left>>

EndJob(ok) ==
    /\ at' = IF ok /\ ~failed THEN "green" ELSE "red"
    /\ UNCHANGED <<branch, job, tries, failed, machine, left>>

NothingToPersist == at = "persist" /\ ~Persistable /\ EndJob(FALSE)

\* The branch holds these files already: an earlier attempt arrived.
Unchanged == branch = archive

AlreadyPersisted == at = "push" /\ Unchanged /\ EndJob(TRUE)

\* The push arrives, and the job learns of it or not.
Push ==
    /\ at = "push"
    /\ ~Unchanged
    /\ branch' = archive
    /\ at' = IF failed THEN "red" ELSE "green"
    /\ UNCHANGED <<job, tries, failed, machine, left>>

\* The step ends well after its last attempt.
NextAttemptOrGreen ==
    /\ IF tries < MAX_PUSH_ATTEMPTS
          THEN tries' = tries + 1 /\ UNCHANGED at
          ELSE at' = (IF failed THEN "red" ELSE "green") /\ UNCHANGED tries
    /\ UNCHANGED <<job, failed, machine, left>>

\* What follows a push that reported an error.
NextAttempt ==
    /\ IF tries < MAX_PUSH_ATTEMPTS
          THEN tries' = tries + 1 /\ UNCHANGED at
          ELSE at' = "red" /\ UNCHANGED tries
    /\ UNCHANGED <<job, failed, machine, left>>

\* Rejected, as is the orphan branch of a lookup that failed: never forced.
PushFails ==
    /\ at = "push"
    /\ ~Unchanged
    /\ NextAttempt
    /\ UNCHANGED branch

AnswerLost ==
    /\ at = "push"
    /\ ~Unchanged
    /\ branch' = archive
    /\ NextAttempt

\* The fetch of an attempt fails: set -e ends the step at once.
PersistFails == at = "push" /\ EndJob(FALSE)

\* The machine is lost, and the steps that always run with it.
RunnerLost == at \notin Ended /\ EndJob(FALSE)

Next ==
    \/ StartJob \/ SetupFails \/ NoBranchYet \/ LookupFails \/ Fetch
    \/ \E f \in File : RestoreMember(f) \/ Record(f)
    \/ RestoreFails \/ RestoreEnds
    \/ CycleDone \/ AttemptFails \/ CycleFails
    \/ PackArchive \/ PackFails \/ WriteManifest
    \/ UploadFails \/ BeginPersist \/ NothingToPersist \/ AlreadyPersisted
    \/ Push \/ PushFails \/ AnswerLost \/ PersistFails
    \/ RunnerLost

Spec == Init /\ [][Next]_vars

-----------------------------------------------------------------------------
\* A file the archive leaves out for its size.
Outgrown(f) == f \in Walked /\ Cardinality(disk[f]) > Limit

\* Published records are lost only through a job that did not restore them, or
\* in a file that has outgrown the limit: neither a cycle that fails half-way,
\* a packer that dies, a push that is repeated nor an answer that is lost can
\* take a record off the branch (restore, pack and persist steps of the workflow).
OnlyAnUnrestoredJobLosesRecords ==
    [][\A f \in Kept :
          \/ Holds(branch, f) \subseteq Holds(branch', f)
          \/ ~restored
          \/ Outgrown(f)]_vars

\* What a green job left in a file of STATE_PATHS is on disk when the cycle of
\* the next job runs, if that job restored and the file was not too large: the
\* hand-over works from end to end, however often the push had to be tried.
HandedOver(f) == at = "cycle" /\ restored => left[f] \subseteq disk[f]

NextJobSeesWhatAGreenJobLeft ==
    \A f \in Kept : HandedOver(f) \/ (f \in Walked /\ Cardinality(left[f]) > Limit)

\* The trades a green job recorded remain visible to the next job that
\* restored, as the runbook of the dashboard says of open trades.  The code
\* breaks it: the ledger logs/paper_trades.csv is not below STATE_PATHS.
OpenTradesRemainVisible == \A f \in File : f \in Kept \/ HandedOver(f)
=============================================================================
