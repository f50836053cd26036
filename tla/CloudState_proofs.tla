--------------------------- MODULE CloudState_proofs ---------------------------
(***************************************************************************)
(* Theorems about CloudState, for any files, any limit and any number of   *)
(* jobs: its type, and both of its safety properties.                      *)
(***************************************************************************)
EXTENDS CloudState, FiniteSetTheorems, TLAPS

USE CloudAssumption, NotAnArchive

\* A job that runs has a number.
TypeInv == TypeOK /\ (at \notin Ended => job \in Job)

\* The archive of the job's own files, as pack leaves it.
Packed ==
    /\ archive \in Archive
    /\ \A f \in Kept : archive.holds[f] = IF Fits(f) THEN disk[f] ELSE {}

\* Why no restored record is lost: while it restores, the job works on the
\* archive of the branch, and from then on its disk holds all of the branch; what
\* it may push is packed from that disk.  Of a green job the branch has the files.
HandOver ==
    /\ TypeInv
    /\ at = "setup" => ~restored /\ ~manifest
    /\ at = "restore" =>
           /\ ~restored /\ ~manifest
           /\ archive = branch
           /\ archive # Torn => \A f \in Kept \ todo : disk[f] = Holds(archive, f)
    /\ at \in {"cycle", "pack"} => ~manifest
    /\ restored => \A f \in Kept : Holds(branch, f) \subseteq disk[f]
    /\ at = "manifest" \/ manifest => Packed
    /\ at = "push" => manifest
    /\ at = "green" => manifest /\ branch = archive
    /\ at \in {"setup", "restore", "cycle"} =>
           \A f \in Kept : \/ left[f] \subseteq Holds(branch, f)
                           \/ f \in Walked /\ Cardinality(left[f]) > Limit

\* A file that is not packed has outgrown the limit.
LEMMA SizeFacts ==
    ASSUME disk \in Disk, NEW f \in Kept
    PROVE  Fits(f) \/ Outgrown(f)
<1>1. IsFiniteSet(Job)
  BY FS_Interval DEF Job
<1>2. disk[f] \in SUBSET Job
  BY DEF Disk
<1>3. Cardinality(disk[f]) \in Nat
  BY <1>1, <1>2, FS_Subset, FS_CardinalityType
<1> QED
  BY <1>3 DEF Fits, Outgrown

LEMMA HoldsFacts ==
    ASSUME NEW a \in Archive \cup {None, Torn}, NEW f \in File
    PROVE  Holds(a, f) \in SUBSET Job
  BY DEF Holds, Archive, Disk

\* TypeInv in two parts, since the flags ask for another prover than the rest.
Flags == restored \in BOOLEAN /\ failed \in BOOLEAN /\ manifest \in BOOLEAN

Values ==
    /\ branch \in Archive \cup {None, Torn}
    /\ job \in 0 .. MaxJobs
    /\ at \in Step
    /\ disk \in Disk
    /\ todo \subseteq Kept
    /\ tries \in 0 .. MAX_PUSH_ATTEMPTS
    /\ archive \in Archive \cup {None, Torn}
    /\ left \in Disk
    /\ at \notin Ended => job \in Job

LEMMA Parts == TypeInv <=> Values /\ Flags
  BY DEF TypeInv, TypeOK, Values, Flags

LEMMA FlagsKept == Flags /\ [Next]_vars => Flags'
<1> SUFFICES ASSUME Flags, [Next]_vars PROVE Flags'
  OBVIOUS
<1> USE Zenon DEF Flags, machine
<1>1. CASE StartJob
  BY <1>1 DEF StartJob
<1>2. CASE SetupFails \/ RestoreFails \/ CycleFails
  BY <1>2 DEF SetupFails, RestoreFails, CycleFails, Skip
<1>3. CASE NoBranchYet \/ LookupFails \/ Fetch
  BY <1>3 DEF NoBranchYet, LookupFails, Fetch
<1>4. CASE \E f \in File : RestoreMember(f) \/ Record(f)
  BY <1>4 DEF RestoreMember, Record
<1>5. CASE RestoreEnds \/ CycleDone \/ AttemptFails
  BY <1>5 DEF RestoreEnds, CycleDone, AttemptFails
<1>6. CASE PackArchive \/ PackFails \/ WriteManifest
  BY <1>6 DEF PackArchive, PackFails, WriteManifest
<1>7. CASE UploadFails \/ BeginPersist
  BY <1>7 DEF UploadFails, BeginPersist
<1>8. CASE NothingToPersist \/ AlreadyPersisted \/ PersistFails \/ RunnerLost
  BY <1>8 DEF NothingToPersist, AlreadyPersisted, PersistFails, RunnerLost, EndJob
<1>9. CASE Push \/ PushFails \/ AnswerLost
  BY <1>9 DEF Push, PushFails, AnswerLost, NextAttempt
<1>10. CASE UNCHANGED vars
  BY <1>10 DEF vars
<1> QED
  BY <1>1, <1>2, <1>3, <1>4, <1>5, <1>6, <1>7, <1>8, <1>9, <1>10 DEF Next

LEMMA TypedAtFirst == Init => TypeInv
<1>1. Init => Values
  BY DEF Init, Values, Empty, Disk, Step, Ended, MAX_PUSH_ATTEMPTS
<1>2. Init => Flags
  BY DEF Init, Flags
<1> QED
  BY <1>1, <1>2, Parts

LEMMA Typed == Spec => []TypeInv
<1>2. TypeInv /\ [Next]_vars => TypeInv'
  <2> SUFFICES ASSUME Values, [Next]_vars PROVE Values'
    BY Parts, FlagsKept, PTL
  <2> USE DEF Values, Step, Ended, MAX_PUSH_ATTEMPTS, Attempts, machine
  <2>1. CASE StartJob
    <3>1. Empty \in Disk
      BY DEF Empty, Disk
    <3>2. job' \in Job
      BY <2>1 DEF StartJob, Job
    <3> QED
      BY <2>1, <3>1, <3>2 DEF StartJob
  <2>2. CASE SetupFails \/ RestoreFails \/ CycleFails
    BY <2>2 DEF SetupFails, RestoreFails, CycleFails, Skip
  <2>3. CASE NoBranchYet \/ LookupFails \/ Fetch
    BY <2>3 DEF NoBranchYet, LookupFails, Fetch
  <2>4. CASE \E f \in File : RestoreMember(f) \/ Record(f)
    <3> PICK f \in File : RestoreMember(f) \/ Record(f)
      BY <2>4
    <3>1. CASE RestoreMember(f)
      <4>1. disk' \in Disk
        BY HoldsFacts, <3>1 DEF RestoreMember, Disk
      <4> QED
        BY <4>1, <3>1 DEF RestoreMember
    <3>2. CASE Record(f)
      <4>1. disk' \in Disk
        BY <3>2 DEF Record, Disk
      <4> QED
        BY <4>1, <3>2 DEF Record
    <3> QED
      BY <3>1, <3>2
  <2>5. CASE RestoreEnds \/ CycleDone \/ AttemptFails
    BY <2>5 DEF RestoreEnds, CycleDone, AttemptFails
  <2>6. CASE PackArchive
    <3>1. archive' \in Archive
      BY <2>6 DEF PackArchive, Archive, Disk
    <3> QED
      BY <2>6, <3>1 DEF PackArchive
  <2>7. CASE PackFails \/ WriteManifest \/ UploadFails \/ BeginPersist
    BY <2>7 DEF PackFails, WriteManifest, UploadFails, BeginPersist
  <2>8. CASE NothingToPersist \/ AlreadyPersisted \/ PersistFails \/ RunnerLost
    BY <2>8 DEF NothingToPersist, AlreadyPersisted, PersistFails, RunnerLost, EndJob
  <2>9. CASE Push \/ PushFails \/ AnswerLost
    BY <2>9 DEF Push, PushFails, AnswerLost, NextAttempt
  <2>10. CASE UNCHANGED vars
    BY <2>10 DEF vars
  <2> QED
    BY <2>1, <2>2, <2>3, <2>4, <2>5, <2>6, <2>7, <2>8, <2>9, <2>10 DEF Next
<1> QED
  BY <1>2, TypedAtFirst, PTL DEF Spec

\* Type correctness, whatever the files, the limit and the number of jobs.
THEOREM TypeCorrect == Spec => []TypeOK
<1>1. TypeInv => TypeOK
  BY DEF TypeInv
<1> QED
  BY <1>1, Typed, PTL

-----------------------------------------------------------------------------
\* PackFails and the actions below it leave disk and the archive of a job that
\* has a manifest alone, so Packed stays with the manifest.
LEMMA HandOverKept == Spec => []HandOver
<1>1. Init => HandOver
  <2> SUFFICES ASSUME Init PROVE HandOver
    OBVIOUS
  <2>1. TypeInv
    BY TypedAtFirst
  <2> QED
    BY <2>1 DEF Init, HandOver
<1>2. HandOver /\ TypeInv' /\ [Next]_vars => HandOver'
  <2> SUFFICES ASSUME HandOver, TypeInv', [Next]_vars PROVE HandOver'
    OBVIOUS
  <2> USE DEF HandOver, TypeInv, TypeOK, machine
  <2>1. CASE StartJob
    <3>1. at = "green" => \A f \in Kept : \/ left'[f] \subseteq Holds(branch', f)
                                          \/ f \in Walked /\ Cardinality(left'[f]) > Limit
      <4> HAVE at = "green"
      <4> TAKE f \in Kept
      <4>1. left' = disk /\ branch' = branch
        BY <2>1 DEF StartJob
      <4>2. branch \in Archive /\ branch.holds[f] = IF Fits(f) THEN disk[f] ELSE {}
        BY DEF Packed
      <4>3. Holds(branch', f) = IF Fits(f) THEN disk[f] ELSE {}
        BY <4>1, <4>2 DEF Holds
      <4> QED
        BY <4>1, <4>3, SizeFacts DEF Outgrown
    <3>2. at # "green" => \A f \in Kept : left'[f] \subseteq Holds(branch', f)
      BY <2>1 DEF StartJob, Empty
    <3> QED
      BY <2>1, <3>1, <3>2 DEF StartJob
  <2>2. CASE SetupFails \/ RestoreFails \/ CycleFails
    BY <2>2 DEF SetupFails, RestoreFails, CycleFails, Skip
  <2>3. CASE NoBranchYet \/ LookupFails \/ Fetch
    BY <2>3 DEF NoBranchYet, LookupFails, Fetch, Holds
  <2>4. CASE \E f \in File : RestoreMember(f) \/ Record(f)
    <3> PICK f \in File : RestoreMember(f) \/ Record(f)
      BY <2>4
    <3>1. CASE RestoreMember(f)
      BY <3>1 DEF RestoreMember, Disk
    <3>2. CASE Record(f)
      BY <3>2 DEF Record, Disk
    <3> QED
      BY <3>1, <3>2
  <2>5. CASE RestoreEnds \/ CycleDone \/ AttemptFails
    BY <2>5 DEF RestoreEnds, CycleDone, AttemptFails
  <2>6. CASE PackArchive
    <3>1. archive' = [by |-> job, holds |-> [f \in File |-> IF Fits(f) THEN disk[f] ELSE {}]]
      BY <2>6 DEF PackArchive
    <3>2. \A f \in Kept : archive'.holds[f] = IF Fits(f) THEN disk[f] ELSE {}
      BY <3>1
    <3>3. archive' \in Archive
      BY <3>1, <2>6 DEF PackArchive, Archive, Disk, Ended
    <3>4. Packed'
      BY <2>6, <3>2, <3>3 DEF PackArchive, Packed, Fits
    <3> QED
      BY <2>6, <3>4 DEF PackArchive
  <2>7. CASE PackFails
    BY <2>7 DEF PackFails
  <2>8. CASE WriteManifest \/ UploadFails \/ BeginPersist
    BY <2>8 DEF WriteManifest, UploadFails, BeginPersist, Persistable, Packed, Fits
  <2>9. CASE NothingToPersist \/ AlreadyPersisted \/ PersistFails \/ RunnerLost
    BY <2>9 DEF NothingToPersist, AlreadyPersisted, Unchanged, PersistFails, RunnerLost,
                EndJob, Ended, Packed, Fits
  <2>10. CASE Push \/ PushFails \/ AnswerLost
    BY <2>10 DEF Push, PushFails, AnswerLost, NextAttempt, Packed, Fits, Holds
  <2>11. CASE UNCHANGED vars
    BY <2>11 DEF vars, Packed, Fits
  <2> QED
    BY <2>1, <2>2, <2>3, <2>4, <2>5, <2>6, <2>7, <2>8, <2>9, <2>10, <2>11 DEF Next
<1> QED
  BY <1>1, <1>2, Typed, PTL DEF Spec

\* A published record is lost only through a job that did not restore or in a
\* file that has outgrown the limit.
THEOREM RestoredRecordsStay == Spec => OnlyAnUnrestoredJobLosesRecords
<1> DEFINE Stays == \A f \in Kept : \/ Holds(branch, f) \subseteq Holds(branch', f)
                                    \/ ~restored
                                    \/ Outgrown(f)
<1>1. HandOver /\ [Next]_vars => [Stays]_vars
  <2> SUFFICES ASSUME HandOver, [Next]_vars, NEW f \in Kept, restored, ~Outgrown(f),
                      branch' # branch
               PROVE  Holds(branch, f) \subseteq Holds(branch', f)
    OBVIOUS
  <2>1. at = "push" /\ branch' = archive
    BY DEF Next, vars, StartJob, SetupFails, NoBranchYet, LookupFails, Fetch, RestoreMember,
           RestoreFails, RestoreEnds, Record, CycleDone, AttemptFails, CycleFails, PackArchive,
           PackFails, WriteManifest, UploadFails, BeginPersist, NothingToPersist,
           AlreadyPersisted, Push, PushFails, AnswerLost, PersistFails, RunnerLost, EndJob, Skip
  <2>2. Fits(f)
    BY SizeFacts DEF HandOver, TypeInv, TypeOK
  <2>3. Holds(branch', f) = disk[f]
    BY <2>1, <2>2 DEF HandOver, Packed, Holds
  <2> QED
    BY <2>3 DEF HandOver
<1> QED
  BY <1>1, HandOverKept, PTL DEF Spec, OnlyAnUnrestoredJobLosesRecords

\* The cycle of a job that restored sees what the job before it, if it ended
\* green, left in the files of STATE_PATHS that are not too large.
THEOREM HandOverWorks == Spec => []NextJobSeesWhatAGreenJobLeft
<1>1. HandOver => NextJobSeesWhatAGreenJobLeft
  BY DEF HandOver, NextJobSeesWhatAGreenJobLeft, HandedOver
<1> QED
  BY <1>1, HandOverKept, PTL
=============================================================================
