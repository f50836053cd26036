---------------------------- MODULE JobManager_proofs ----------------------------
(***************************************************************************)
(* Proofs about JobManager for any jobs, callers and lengths of plans:     *)
(* however calls overlap and break off, a cancelled job begins at most one *)
(* more step; when calls do not overlap, and a starter completes once it   *)
(* has launched the worker, the files tell the truth about the workers     *)
(* though callers and workers tear each other's writes, and no start that  *)
(* has read all files launches a second worker.                            *)
(***************************************************************************)
EXTENDS JobManager, TLAPS

USE JobAssumption

Local == [at : Place, asks : Request, job : Job, todo : SUBSET Job, copy : Content,
          busy : BOOLEAN, blind : BOOLEAN]

Pens == {"shut", "temp", "state", "gone"}

\* The places of a start between its listing and the launch.
Launching == {"queue", "popen"}

-----------------------------------------------------------------------------
(* The invariants. *)

LocalOk(c) ==
    /\ caller[c].todo \subseteq Known
    /\ caller[c].copy # NoFile
    /\ caller[c].at \in Launching => worker[caller[c].job] = "none"
    /\ caller[c].at = "popen" => caller[c].job \in Known
    /\ \A d \in Caller \ {c} :
          caller[c].at \in Launching /\ caller[d].at \in Launching => caller[c].job # caller[d].job

\* A step that begins after the request is the one the worker had looked for before.
LateOk(j) ==
    /\ worker[j] # "none" => j \in Known
    /\ worker[j] \in {"begin", "work"} => left[j] > 0
    /\ late[j] # 0 => late[j] = 1 /\ j \in flag /\ worker[j] \in {"work", "off", "raised"}

\* Kept however calls overlap and break off.
CallInv ==
    /\ TypeOK
    /\ \A w \in Writer : pen[w] # "shut" => Writes(w)
    /\ \A c \in Caller : LocalOk(c)
    /\ \A j \in Job : LateOk(j)

\* A content s tells the truth about a job whose worker is at k and has come to the
\* verdicts r: a verdict was reached, INTERRUPTED is a job without a worker ...
Fits(s, r, k) ==
    /\ s.status \in Verdict => s.status \in r \/ (s.status = "FAILED" /\ k = "none")
    /\ s.status = "INTERRUPTED" => k \notin Working

\* ... and the pid of a worker is in it.
HasPid(s, k) == Readable(s) /\ k # "none" => s.pid

Truth(s, r, k) == Fits(s, r, k) /\ HasPid(s, k)

\* The starter that launched j has still to write the pid.
Awaits(c, j) ==
    /\ caller[c].job = j
    /\ caller[c].at = "reread" \/ (caller[c].at = "pid" /\ pen[c] \in {"shut", "temp"})

FileOk(j) ==
    /\ Fits(state[j], reached[j], worker[j])
    /\ HasPid(state[j], worker[j]) \/ \E c \in Caller : Awaits(c, j)
    /\ Truth(stray[j], reached[j], worker[j])
    /\ worker[j] = "none" => stray[j] = NoFile
    /\ AtWork(j) \/ worker[j] = "none" => reached[j] = {}
    /\ worker[j] \in LastWrite => WorkerText(worker[j]).status \in reached[j]

\* The copy of a caller is one of a file, or goes into one.
Holds(c) ==
    \/ caller[c].at \in {"probe"} \cup CallWrites
    \/ caller[c].at = "read" /\ caller[c].asks \in {"cancel", "retry"} /\ caller[c].todo = {}

CopyOk(c) ==
    /\ LET j == caller[c].job IN Holds(c) => Truth(caller[c].copy, reached[j], worker[j])
    /\ caller[c].at = "probe" => caller[c].copy.status \in Probed
    /\ caller[c].at = "settle" => caller[c].copy.status = "INTERRUPTED"
    /\ caller[c].at = "queue" =>
          /\ pen[c] \in {"shut", "temp"} /\ caller[c].copy = Queued
          /\ state[caller[c].job] = NoFile
    /\ caller[c].at = "popen" => state[caller[c].job] = Queued

\* A start has seen every worker that is at work, or has still to look.
StartOk(c) ==
    caller[c].asks = "start" =>
        \A j \in Job : AtWork(j) =>
            /\ caller[c].at = "read" => j \in caller[c].todo \/ caller[c].busy \/ caller[c].blind
            /\ caller[c].at \in {"probe", "settle"} =>
                  j \in caller[c].todo \/ j = caller[c].job \/ caller[c].busy \/ caller[c].blind
            /\ caller[c].at \in Launching => caller[c].blind

CallerOk(c) ==
    /\ CopyOk(c) /\ StartOk(c)
    /\ caller[c].at \in Launching => caller[c].asks = "start"

\* Kept when calls do not overlap and a starter completes once it has launched.
Serial == ~Overlap /\ Breakable \subseteq {"read", "probe", "settle", "queue", "popen"}

SerialInv ==
    /\ CallInv
    /\ \A c, d \in Caller : caller[c].at # "idle" /\ caller[d].at # "idle" => c = d
    /\ \A c \in Caller : CallerOk(c)
    /\ \A j \in Job : FileOk(j)

-----------------------------------------------------------------------------
(* Contents and local variables. *)

LEMMA ContentFacts ==
    /\ {NoFile, Blank, Garbled, Queued, Failed} \subseteq Content
    /\ \A s \in {NoFile, Blank, Garbled} : ~Readable(s)
    /\ \A s \in {Blank, Garbled, Queued, Failed} : s # NoFile
    /\ ~Queued.pid /\ Queued.status = "QUEUED" /\ Failed.status = "FAILED"
  BY DEF Content, NoFile, Blank, Garbled, Queued, Failed, ACTIVE, TERMINAL, Readable

LEMMA EditFacts ==
    ASSUME NEW s \in Content
    PROVE  /\ [s EXCEPT !.pid = TRUE] \in Content /\ [s EXCEPT !.pid = TRUE] # NoFile
           /\ [s EXCEPT !.pid = TRUE].pid /\ [s EXCEPT !.pid = TRUE].status = s.status
           /\ \A status \in ACTIVE \cup TERMINAL :
                LET e == [s EXCEPT !.status = status]
                IN  e \in Content /\ e # NoFile /\ e.status = status /\ e.pid = s.pid
  BY DEF Content, NoFile, ACTIVE, TERMINAL

LEMMA TextFacts ==
    ASSUME NEW place
    PROVE  /\ WorkerText(place) \in Content /\ WorkerText(place) # NoFile
           /\ Readable(WorkerText(place)) /\ WorkerText(place).pid
           /\ WorkerText(place).status \in {"RUNNING"} \cup Verdict
           /\ place \in LastWrite => WorkerText(place).status \in Verdict
           /\ place \notin LastWrite => WorkerText(place).status = "RUNNING"
           /\ place = "raised" => WorkerText(place).status = "FAILED"
  BY DEF WorkerText, Content, NoFile, Readable, ACTIVE, TERMINAL, Verdict, LastWrite

LEMMA IdleFacts ==
    /\ Idle \in Local /\ Idle.at = "idle" /\ Idle.asks = "page" /\ Idle.todo = {}
    /\ Idle.copy # NoFile
<1>1. PICK j : j \in Job
  OBVIOUS
<1> QED
  BY <1>1, ContentFacts DEF Idle, Local, Place, Request

\* A step of a caller moves one caller.
Only(c) == \A d \in Caller \ {c} : caller'[d] = caller[d]

LEMMA CallerFacts ==
    ASSUME TypeOK, NEW c \in Caller, NEW k \in Local, caller' = [caller EXCEPT ![c] = k]
    PROVE  caller' \in [Caller -> Local] /\ caller'[c] = k /\ Only(c)
  BY DEF TypeOK, Local, Only

LEMMA TypeFacts ==
    ASSUME TypeOK
    PROVE  /\ caller \in [Caller -> Local] /\ pen \in [Writer -> Pens]
           /\ \A w \in Writer : FileOf(w) \in Job
           /\ \A j \in Job : j \in Writer /\ FileOf(j) = j
           /\ \A c \in Caller : c \in Writer /\ c \notin Job /\ FileOf(c) = caller[c].job
  BY DEF TypeOK, Local, Pens, FileOf, Writer

-----------------------------------------------------------------------------
(* Writes. Whatever a step does to the file of w, the new content is torn, *)
(* or the text of one that has the file open, or of one that had it.       *)

Renewed(j) ==
    \/ state'[j] \in {Blank, Garbled}
    \/ stray[j] # NoFile /\ state'[j] = stray[j]
    \/ \E v \in Writer : pen[v] # "shut" /\ FileOf(v) = j /\ state'[j] = Text(v)

FileMove(w) ==
    /\ state' \in [Job -> Content] /\ stray' \in [Job -> Content] /\ pen' \in [Writer -> Pens]
    /\ \A j \in Job \ {FileOf(w)} : state'[j] = state[j] /\ stray'[j] = stray[j]
    /\ \A v \in Writer : FileOf(v) # FileOf(w) => pen'[v] = pen[v]
    /\ \A v \in Writer \ {w} : pen'[v] = pen[v] \/ (pen[v] # "shut" /\ Renewed(FileOf(w)))
    /\ \/ state'[FileOf(w)] = state[FileOf(w)]
       \/ Renewed(FileOf(w)) /\ state'[FileOf(w)] # NoFile
    /\ \/ stray'[FileOf(w)] \in {NoFile, stray[FileOf(w)], Blank}
       \/ pen[w] # "shut" /\ stray'[FileOf(w)] = Text(w)
    /\ \/ stray'[FileOf(w)] = NoFile \/ stray[FileOf(w)] # NoFile
       \/ \E v \in Writer \ {w} : pen[v] # "shut" /\ FileOf(v) = FileOf(w)

LEMMA NoMove ==
    ASSUME TypeOK, NEW w \in Writer, UNCHANGED files
    PROVE  FileMove(w)
  BY DEF FileMove, files, TypeOK, Pens

LEMMA TextIsContent ==
    ASSUME CallInv, NEW w \in Writer
    PROVE  Text(w) \in Content /\ Text(w) # NoFile
<1>1. CASE w \in Job
  BY <1>1, TextFacts DEF Text
<1>2. CASE w \in Caller
  BY <1>2, TypeFacts DEF Text, CallInv, LocalOk, Local
<1> QED
  BY <1>1, <1>2 DEF Writer

LEMMA OpenMoves ==
    ASSUME CallInv, NEW w \in Writer, Open(w)
    PROVE  FileMove(w) /\ pen'[w] = "temp" /\ state' = state /\ Writes(w)
<1>1. TypeOK /\ FileOf(w) \in Job
  BY TypeFacts DEF CallInv
<1> QED
  BY <1>1, ContentFacts DEF FileMove, Open, TypeOK, Pens

LEMMA OverwriteMoves ==
    ASSUME CallInv, NEW w \in Writer, Overwrite(w)
    PROVE  FileMove(w) /\ pen[w] # "shut" /\ Renewed(FileOf(w)) /\ pen'[w] = "gone"
<1>1. TypeOK /\ FileOf(w) \in Job
  BY TypeFacts DEF CallInv
<1>2. PICK s \in {Text(w), Garbled} : state' = [state EXCEPT ![FileOf(w)] = s]
  BY DEF Overwrite
<1>3. s \in Content /\ s # NoFile
  BY <1>2, TextIsContent, ContentFacts
<1>4. state' \in [Job -> Content] /\ state'[FileOf(w)] = s /\ \A j \in Job \ {FileOf(w)} : state'[j] = state[j]
  BY <1>1, <1>2, <1>3 DEF TypeOK
<1>5. pen[w] # "shut" /\ pen' = [pen EXCEPT ![w] = "gone"] /\ stray' = stray
  BY DEF Overwrite
<1>6. Renewed(FileOf(w))
  BY <1>2, <1>4, <1>5 DEF Renewed
<1> QED
  BY <1>1, <1>3, <1>4, <1>5, <1>6, TypeFacts DEF FileMove, TypeOK, Pens

LEMMA RenameMoves ==
    ASSUME CallInv, NEW w \in Writer, Rename(w)
    PROVE  /\ FileMove(w) /\ pen[w] # "shut" /\ pen'[w] = "shut"
           /\ Renewed(FileOf(w)) /\ state'[FileOf(w)] # NoFile
<1> DEFINE j == FileOf(w)
<1>1. TypeOK /\ j \in Job
  BY TypeFacts DEF CallInv
<1>2. PICK done \in SUBSET Others(w, "temp") :
        /\ \E s \in InTemp(w, done) : state' = [state EXCEPT ![j] = s]
        /\ pen' = [v \in Writer |->
              IF v = w THEN "shut"
              ELSE IF v \in Others(w, "temp") \ done THEN "state"
              ELSE IF v \in done \cup Others(w, "state") THEN "gone" ELSE pen[v]]
  BY DEF Rename
<1>3. PICK s \in InTemp(w, done) : state' = [state EXCEPT ![j] = s]
  BY <1>2
<1>4. pen[w] # "shut" /\ stray' = [stray EXCEPT ![j] = NoFile]
  BY DEF Rename
<1>5. \A v \in Others(w, "temp") \cup Others(w, "state") :
        v \in Writer \ {w} /\ pen[v] # "shut" /\ FileOf(v) = j
  BY DEF Others
<1>6. \/ s \in {Blank, Garbled}
      \/ stray[j] # NoFile /\ s = stray[j]
      \/ \E v \in Writer : pen[v] # "shut" /\ FileOf(v) = j /\ s = Text(v)
  <2>1. \/ s \in {Blank, Garbled}
        \/ s \in {stray[j]} \ {NoFile}
        \/ \E v \in done \cup (IF pen[w] = "temp" THEN {w} ELSE {}) : s = Text(v)
    BY <1>3, Zenon DEF InTemp
  <2>2. CASE \E v \in done \cup (IF pen[w] = "temp" THEN {w} ELSE {}) : s = Text(v)
    BY <1>2, <1>4, <1>5, <2>2
  <2> QED
    BY <2>1, <2>2
<1>7. s \in Content /\ s # NoFile
  BY <1>1, <1>6, TextIsContent, ContentFacts DEF TypeOK
<1>8. state' \in [Job -> Content] /\ state'[j] = s /\ \A i \in Job \ {j} : state'[i] = state[i]
  BY <1>1, <1>3, <1>7 DEF TypeOK
<1>9. Renewed(j)
  BY <1>6, <1>8 DEF Renewed
<1>10. /\ pen' \in [Writer -> Pens] /\ pen'[w] = "shut"
       /\ \A v \in Writer \ {w} : pen'[v] = pen[v] \/ (pen[v] # "shut" /\ FileOf(v) = j)
  BY <1>1, <1>2, <1>5 DEF TypeOK, Pens
<1>11. /\ stray' \in [Job -> Content] /\ stray'[j] = NoFile
       /\ \A i \in Job \ {j} : stray'[i] = stray[i]
  BY <1>1, <1>4, ContentFacts DEF TypeOK
<1> QED
  BY <1>1, <1>4, <1>7, <1>8, <1>9, <1>10, <1>11 DEF FileMove

LEMMA NothingMoves ==
    ASSUME CallInv, NEW w \in Writer, NothingToRename(w)
    PROVE  FileMove(w) /\ pen[w] = "gone" /\ pen'[w] = "shut" /\ state' = state
<1>1. TypeOK /\ FileOf(w) \in Job
  BY TypeFacts DEF CallInv
<1> QED
  BY <1>1 DEF FileMove, NothingToRename, TypeOK, Pens

LEMMA DropMoves ==
    ASSUME CallInv, NEW w \in Writer, Drops(w)
    PROVE  FileMove(w) /\ pen'[w] = "shut" /\ state' = state
<1>1. TypeOK /\ FileOf(w) \in Job /\ Text(w) \in Content
  BY TypeFacts, TextIsContent DEF CallInv
<1>2. pen' = [pen EXCEPT ![w] = "shut"] /\ state' = state
  BY DEF Drops
<1>3. CASE UNCHANGED stray
  BY <1>1, <1>2, <1>3 DEF FileMove, TypeOK, Pens
<1>4. CASE /\ pen[w] = "temp" /\ \E v \in Writer \ {w} : pen[v] # "shut" /\ FileOf(v) = FileOf(w)
           /\ \E s \in {Blank, Text(w)} : stray' = [stray EXCEPT ![FileOf(w)] = s]
  BY <1>1, <1>2, <1>4, ContentFacts DEF FileMove, TypeOK, Pens
<1> QED
  BY <1>3, <1>4 DEF Drops

-----------------------------------------------------------------------------
(* What each step of a call leaves in its local variables.                 *)

Moves(c) == caller' \in [Caller -> Local] /\ Only(c)

LEMMA ReturnFacts ==
    ASSUME TypeOK, NEW c \in Caller, Return(c)
    PROVE  Moves(c) /\ caller'[c] = Idle
  BY IdleFacts, CallerFacts DEF Return, Moves

LEMMA GotoFacts ==
    ASSUME TypeOK, NEW c \in Caller, NEW place \in Place, Goto(c, place)
    PROVE  /\ Moves(c)
           /\ caller'[c].at = place /\ caller'[c].asks = caller[c].asks
           /\ caller'[c].job = caller[c].job /\ caller'[c].todo = caller[c].todo
           /\ caller'[c].copy = caller[c].copy /\ caller'[c].blind = caller[c].blind
<1> DEFINE k == [caller[c] EXCEPT !.at = place]
<1>1. /\ k \in Local /\ k.at = place /\ k.asks = caller[c].asks /\ k.job = caller[c].job
      /\ k.todo = caller[c].todo /\ k.copy = caller[c].copy /\ k.blind = caller[c].blind
  BY TypeFacts DEF Local
<1>2. caller' = [caller EXCEPT ![c] = k]
  BY DEF Goto
<1> HIDE DEF k
<1> QED
  BY <1>1, <1>2, CallerFacts DEF Moves

LEMMA NotedFacts ==
    ASSUME NEW r \in Local, NEW s \in Content
    PROVE  LET k == Noted(r, s)
           IN  /\ k \in Local /\ k.at = "read" /\ k.asks = r.asks /\ k.job = r.job
               /\ k.todo = r.todo /\ k.copy \in {Queued, s}
               /\ r.asks \in {"cancel", "retry"} => k.copy = s
               /\ r.asks = "start" =>
                    k.busy = SeenBusy(r.busy, s) /\ k.blind = (r.blind \/ ~Readable(s))
  BY ContentFacts DEF Noted, Local, Place, SeenBusy, Request, Readable

LEMMA CallFacts ==
    ASSUME TypeOK, NEW c \in Caller, NEW request \in Request, NEW j \in Job, Call(c, request, j)
    PROVE  /\ Moves(c) /\ caller[c].at = "idle" /\ caller'[c].at = "read"
           /\ caller'[c].asks = request /\ caller'[c].copy # NoFile
           /\ caller'[c].todo = IF request \in {"cancel", "retry"} THEN {j} ELSE Known
           /\ request \in {"cancel", "retry"} => j \in Known
<1> DEFINE todo == IF request \in {"cancel", "retry"} THEN {j} ELSE Known
           k == [Idle EXCEPT !.at = "read", !.asks = request, !.job = j, !.todo = todo]
<1>1. todo \subseteq Job
  BY DEF Known
<1>2. k \in Local /\ k.at = "read" /\ k.asks = request /\ k.todo = todo /\ k.copy # NoFile
  BY <1>1, IdleFacts DEF Local, Place
<1>3. caller' = [caller EXCEPT ![c] = k]
  BY DEF Call
<1>4. caller[c].at = "idle" /\ (request \in {"cancel", "retry"} => j \in Known)
  BY DEF Call
<1> HIDE DEF k
<1> QED
  BY <1>2, <1>3, <1>4, CallerFacts DEF Moves

\* The file is j, the content s: it is probed, or noted.
ReadEffect(c, j, s) ==
    /\ Moves(c) /\ caller[c].at = "read" /\ j \in caller[c].todo /\ s \in Seen(j)
    /\ caller'[c].asks = caller[c].asks /\ caller'[c].job = j
    /\ caller'[c].todo = caller[c].todo \ {j} /\ caller'[c].copy \in {Queued, s}
    /\ IF IsProbed(s.status)
         THEN /\ caller'[c].at = "probe" /\ caller'[c].copy = s
              /\ caller'[c].busy = caller[c].busy /\ caller'[c].blind = caller[c].blind
         ELSE /\ caller'[c].at = "read"
              /\ caller[c].asks \in {"cancel", "retry"} => caller'[c].copy = s
              /\ caller[c].asks = "start" =>
                    /\ caller'[c].busy = SeenBusy(caller[c].busy, s)
                    /\ caller'[c].blind = (caller[c].blind \/ ~Readable(s))

LEMMA SeenFacts ==
    ASSUME TypeOK, NEW j \in Job, NEW s \in Seen(j)
    PROVE  s \in Content /\ s \in {state[j], Garbled}
  BY ContentFacts DEF Seen, TypeOK

LEMMA ReadFacts ==
    ASSUME TypeOK, NEW c \in Caller, ReadState(c)
    PROVE  \E j \in Job : \E s \in Seen(j) : ReadEffect(c, j, s)
<1>1. caller[c] \in Local
  BY TypeFacts
<1>2. PICK j \in caller[c].todo : \E s \in Seen(j) :
        LET r == [caller[c] EXCEPT !.job = j, !.todo = caller[c].todo \ {j}]
        IN  caller' = [caller EXCEPT ![c] =
              IF IsProbed(s.status) THEN [r EXCEPT !.at = "probe", !.copy = s] ELSE Noted(r, s)]
  BY DEF ReadState
<1> DEFINE r == [caller[c] EXCEPT !.job = j, !.todo = caller[c].todo \ {j}]
<1>3. PICK s \in Seen(j) :
        caller' = [caller EXCEPT ![c] =
              IF IsProbed(s.status) THEN [r EXCEPT !.at = "probe", !.copy = s] ELSE Noted(r, s)]
  BY <1>2
<1>4. j \in Job /\ s \in Content
  BY <1>1, SeenFacts DEF Local
<1>5. /\ r \in Local /\ r.asks = caller[c].asks /\ r.job = j /\ r.todo = caller[c].todo \ {j}
      /\ r.busy = caller[c].busy /\ r.blind = caller[c].blind
  BY <1>1, <1>4 DEF Local
<1> HIDE DEF r
<1>6. caller[c].at = "read"
  BY DEF ReadState
<1>7. CASE IsProbed(s.status)
  <2> DEFINE k == [r EXCEPT !.at = "probe", !.copy = s]
  <2>1. /\ k \in Local /\ k.at = "probe" /\ k.copy = s /\ k.asks = r.asks /\ k.job = r.job
        /\ k.todo = r.todo /\ k.busy = r.busy /\ k.blind = r.blind
    BY <1>4, <1>5 DEF Local, Place
  <2>2. caller' = [caller EXCEPT ![c] = k]
    BY <1>3, <1>7
  <2> HIDE DEF k
  <2>3. Moves(c) /\ caller'[c] = k
    BY <2>1, <2>2, CallerFacts DEF Moves
  <2> QED
    BY <1>4, <1>5, <1>6, <1>7, <2>1, <2>3 DEF ReadEffect
<1>8. CASE ~IsProbed(s.status)
  <2> DEFINE k == Noted(r, s)
  <2>1. /\ k \in Local /\ k.at = "read" /\ k.asks = r.asks /\ k.job = r.job
        /\ k.todo = r.todo /\ k.copy \in {Queued, s}
        /\ r.asks \in {"cancel", "retry"} => k.copy = s
        /\ r.asks = "start" =>
              k.busy = SeenBusy(r.busy, s) /\ k.blind = (r.blind \/ ~Readable(s))
    BY <1>4, <1>5, NotedFacts
  <2>2. caller' = [caller EXCEPT ![c] = k]
    BY <1>3, <1>8
  <2> HIDE DEF k
  <2>3. Moves(c) /\ caller'[c] = k
    BY <2>1, <2>2, CallerFacts DEF Moves
  <2> QED
    BY <1>4, <1>5, <1>6, <1>8, <2>1, <2>3 DEF ReadEffect
<1> QED
  BY <1>4, <1>7, <1>8

\* The file of the caller is reconciled to its copy.
NoteEffect(c) ==
    /\ Moves(c) /\ caller'[c].at = "read"
    /\ caller'[c].asks = caller[c].asks /\ caller'[c].job = caller[c].job
    /\ caller'[c].todo = caller[c].todo /\ caller'[c].copy \in {Queued, caller[c].copy}
    /\ caller[c].asks \in {"cancel", "retry"} => caller'[c].copy = caller[c].copy
    /\ caller[c].asks = "start" =>
          /\ caller'[c].busy = SeenBusy(caller[c].busy, caller[c].copy)
          /\ caller'[c].blind = (caller[c].blind \/ ~Readable(caller[c].copy))

LEMMA NoteFacts ==
    ASSUME TypeOK, NEW c \in Caller, caller' = [caller EXCEPT ![c] = Noted(@, @.copy)]
    PROVE  NoteEffect(c)
<1> DEFINE k == Noted(caller[c], caller[c].copy)
<1>1. caller[c] \in Local /\ caller[c].copy \in Content
  BY TypeFacts DEF Local
<1>2. /\ k \in Local /\ k.at = "read" /\ k.asks = caller[c].asks /\ k.job = caller[c].job
      /\ k.todo = caller[c].todo /\ k.copy \in {Queued, caller[c].copy}
      /\ caller[c].asks \in {"cancel", "retry"} => k.copy = caller[c].copy
      /\ caller[c].asks = "start" =>
            /\ k.busy = SeenBusy(caller[c].busy, caller[c].copy)
            /\ k.blind = (caller[c].blind \/ ~Readable(caller[c].copy))
  BY <1>1, NotedFacts
<1>3. caller' = [caller EXCEPT ![c] = k]
  OBVIOUS
<1> HIDE DEF k
<1> QED
  BY <1>2, <1>3, CallerFacts DEF NoteEffect, Moves

LEMMA DeadFacts ==
    ASSUME TypeOK, NEW c \in Caller, FoundDead(c)
    PROVE  /\ Moves(c) /\ caller[c].at = "probe" /\ caller'[c].at = "settle"
           /\ caller[c].copy.pid => ~Live(caller[c].job)
           /\ caller'[c].asks = caller[c].asks /\ caller'[c].job = caller[c].job
           /\ caller'[c].todo = caller[c].todo
           /\ caller'[c].copy.status = "INTERRUPTED" /\ caller'[c].copy.pid = caller[c].copy.pid
           /\ caller'[c].copy # NoFile
           /\ caller'[c].busy = caller[c].busy /\ caller'[c].blind = caller[c].blind
<1> DEFINE copy == [caller[c].copy EXCEPT !.status = "INTERRUPTED"]
           k == [caller[c] EXCEPT !.at = "settle", !.copy = copy]
<1>1. caller[c] \in Local /\ caller[c].copy \in Content
  BY TypeFacts DEF Local
<1>2. copy \in Content /\ copy # NoFile /\ copy.status = "INTERRUPTED" /\ copy.pid = caller[c].copy.pid
  BY <1>1, EditFacts DEF TERMINAL
<1>3. caller' = [caller EXCEPT ![c] = k]
  BY DEF FoundDead
<1> HIDE DEF copy
<1>4. /\ k \in Local /\ k.at = "settle" /\ k.copy = copy /\ k.asks = caller[c].asks
      /\ k.job = caller[c].job /\ k.todo = caller[c].todo
      /\ k.busy = caller[c].busy /\ k.blind = caller[c].blind
  BY <1>1, <1>2 DEF Local, Place, CallWrites
<1> HIDE DEF k
<1>5. caller[c].at = "probe" /\ (caller[c].copy.pid => ~Live(caller[c].job))
  BY DEF FoundDead
<1> QED
  BY <1>2, <1>3, <1>4, <1>5, CallerFacts DEF Moves

LEMMA RetryFacts ==
    ASSUME TypeOK, NEW c \in Caller, Retry(c)
    PROVE  /\ Moves(c) /\ caller[c].at = "read" /\ caller'[c].at = "read"
           /\ caller'[c].asks = "start" /\ caller'[c].todo = Known
           /\ caller'[c].copy = caller[c].copy
<1> DEFINE k == [caller[c] EXCEPT !.asks = "start", !.todo = Known]
<1>1. caller[c].at = "read" /\ caller' = [caller EXCEPT ![c] = k]
  BY DEF Retry, Reconciled
<1>2. /\ k \in Local /\ k.at = caller[c].at /\ k.asks = "start" /\ k.todo = Known
      /\ k.copy = caller[c].copy
  <2>1. caller[c] \in Local /\ Known \subseteq Job
    BY TypeFacts DEF Known
  <2> QED
    BY <2>1 DEF Local, Request
<1> HIDE DEF k
<1> QED
  BY <1>1, <1>2, CallerFacts DEF Moves

LEMMA QueueFacts ==
    ASSUME TypeOK, NEW c \in Caller, Queue(c)
    PROVE  /\ Moves(c) /\ Reconciled(c, "start") /\ ~caller[c].busy
           /\ caller'[c].at = "queue" /\ caller'[c].asks = "start"
           /\ caller'[c].job \in Job \ Begun /\ caller'[c].todo = {}
           /\ caller'[c].copy = Queued /\ caller'[c].blind = caller[c].blind
<1> DEFINE j == CHOOSE i \in Job : i \notin Begun
           k == [caller[c] EXCEPT !.at = "queue", !.job = j, !.copy = Queued]
<1>1. Reconciled(c, "start") /\ ~caller[c].busy /\ Begun # Job /\ caller' = [caller EXCEPT ![c] = k]
  BY DEF Queue
<1>2. Begun \subseteq Job
  BY TypeFacts DEF Begun, Known, Local
<1>3. j \in Job \ Begun
  <2>1. \E i \in Job : i \notin Begun
    BY <1>1, <1>2
  <2> QED
    BY <2>1
<1> HIDE DEF j
<1>4. /\ k \in Local /\ k.at = "queue" /\ k.asks = caller[c].asks /\ k.job = j
      /\ k.todo = caller[c].todo /\ k.copy = Queued /\ k.blind = caller[c].blind
  <2>1. caller[c] \in Local /\ Queued \in Content
    BY TypeFacts, ContentFacts
  <2> QED
    BY <1>3, <2>1 DEF Local, Place, CallWrites
<1> HIDE DEF k
<1> QED
  BY <1>1, <1>3, <1>4, CallerFacts DEF Moves, Reconciled

LEMMA FailsFacts ==
    ASSUME TypeOK, NEW c \in Caller, PopenFails(c)
    PROVE  /\ Moves(c) /\ caller[c].at = "popen" /\ caller'[c].at = "fail"
           /\ caller'[c].asks = caller[c].asks /\ caller'[c].job = caller[c].job
           /\ caller'[c].todo = caller[c].todo /\ caller'[c].copy = Failed
<1> DEFINE k == [caller[c] EXCEPT !.at = "fail", !.copy = Failed]
<1>1. caller[c].at = "popen" /\ caller' = [caller EXCEPT ![c] = k]
  BY DEF PopenFails
<1>2. /\ k \in Local /\ k.at = "fail" /\ k.asks = caller[c].asks /\ k.job = caller[c].job
      /\ k.todo = caller[c].todo /\ k.copy = Failed
  <2>1. caller[c] \in Local /\ Failed \in Content
    BY TypeFacts, ContentFacts
  <2> QED
    BY <2>1 DEF Local, Place, CallWrites
<1> HIDE DEF k
<1> QED
  BY <1>1, <1>2, CallerFacts DEF Moves

LEMMA RereadFacts ==
    ASSUME TypeOK, NEW c \in Caller, Reread(c)
    PROVE  /\ Moves(c) /\ caller[c].at = "reread" /\ caller'[c].at = "pid"
           /\ caller'[c].asks = caller[c].asks /\ caller'[c].job = caller[c].job
           /\ caller'[c].todo = caller[c].todo
           /\ caller'[c].copy # NoFile /\ caller'[c].copy.pid
           /\ caller'[c].copy.status \in {"QUEUED", state[caller[c].job].status}
<1>1. PICK s \in Seen(caller[c].job) :
        caller' = [caller EXCEPT ![c] =
           [caller[c] EXCEPT !.at = "pid", !.copy = WithPid(IF Readable(s) THEN s ELSE Queued)]]
  BY DEF Reread
<1> DEFINE latest == IF Readable(s) THEN s ELSE Queued
           copy == WithPid(latest)
           k == [caller[c] EXCEPT !.at = "pid", !.copy = copy]
<1>2. caller[c] \in Local /\ caller[c].job \in Job
  BY TypeFacts DEF Local
<1>3. latest \in Content /\ latest.status \in {"QUEUED", state[caller[c].job].status}
  BY <1>2, SeenFacts, ContentFacts
<1>4. copy \in Content /\ copy # NoFile /\ copy.pid /\ copy.status = latest.status
  BY <1>3, EditFacts DEF WithPid
<1>5. caller[c].at = "reread" /\ caller' = [caller EXCEPT ![c] = k]
  BY <1>1 DEF Reread
<1> HIDE DEF latest, copy
<1>6. /\ k \in Local /\ k.at = "pid" /\ k.asks = caller[c].asks /\ k.job = caller[c].job
      /\ k.todo = caller[c].todo /\ k.copy = copy
  BY <1>2, <1>4 DEF Local, Place, CallWrites
<1> HIDE DEF k
<1> QED
  BY <1>3, <1>4, <1>5, <1>6, CallerFacts DEF Moves

LEMMA FlagFacts ==
    ASSUME TypeOK, NEW c \in Caller, Flag(c)
    PROVE  /\ Moves(c) /\ Reconciled(c, "cancel") /\ caller'[c].at = "request"
           /\ caller[c].copy.status \in ACTIVE
           /\ caller'[c].asks = caller[c].asks /\ caller'[c].job = caller[c].job
           /\ caller'[c].todo = caller[c].todo /\ caller'[c].copy # NoFile
           /\ caller'[c].copy.status = "CANCEL_REQUESTED"
           /\ caller'[c].copy.pid = caller[c].copy.pid
           /\ flag' = flag \cup {caller[c].job} /\ flag' \subseteq Job
<1> DEFINE copy == Requested(caller[c].copy)
           k == [caller[c] EXCEPT !.at = "request", !.copy = copy]
<1>1. caller[c] \in Local /\ caller[c].copy \in Content
  BY TypeFacts DEF Local
<1>2. /\ copy \in Content /\ copy # NoFile /\ copy.status = "CANCEL_REQUESTED"
      /\ copy.pid = caller[c].copy.pid
  BY <1>1, EditFacts DEF Requested, ACTIVE
<1>3. /\ Reconciled(c, "cancel") /\ caller[c].copy.status \in ACTIVE
      /\ flag' = flag \cup {caller[c].job} /\ caller' = [caller EXCEPT ![c] = k]
  BY DEF Flag
<1> HIDE DEF copy
<1>4. /\ k \in Local /\ k.at = "request" /\ k.asks = caller[c].asks /\ k.job = caller[c].job
      /\ k.todo = caller[c].todo /\ k.copy = copy
  BY <1>1, <1>2 DEF Local, Place, CallWrites
<1> HIDE DEF k
<1>5. flag' \subseteq Job
  BY <1>1, <1>3 DEF Local, TypeOK
<1> QED
  BY <1>2, <1>3, <1>4, <1>5, CallerFacts DEF Moves

-----------------------------------------------------------------------------
(* However calls overlap and break off.                                    *)

LEMMA KnownStays ==
    ASSUME TypeOK, NEW w \in Writer, FileMove(w)
    PROVE  Known \subseteq Known'
<1>1. FileOf(w) \in Job
  BY TypeFacts
<1> QED
  BY <1>1 DEF Known, FileMove

LEMMA CallerKeeps ==
    ASSUME CallInv, NEW c \in Caller, FileMove(c), Moves(c), UNCHANGED process,
           flag \subseteq flag', flag' \subseteq Job,
           pen'[c] # "shut" => caller'[c].at \in CallWrites,
           caller'[c].todo \subseteq Known, caller'[c].copy # NoFile,
           caller'[c].at \in Launching =>
              /\ worker[caller'[c].job] = "none"
              /\ \A d \in Caller \ {c} :
                    caller[d].at \in Launching => caller[d].job # caller'[c].job,
           caller'[c].at = "popen" => caller'[c].job \in Known'
    PROVE  CallInv'
<1>1. TypeOK
  BY DEF CallInv
<1>2. Known \subseteq Known'
  BY <1>1, KnownStays, TypeFacts
<1>3. TypeOK'
  BY <1>1 DEF TypeOK, FileMove, Moves, process, Pens, Local
<1>4. ASSUME NEW w \in Writer, pen'[w] # "shut"
      PROVE  Writes(w)'
  <2>1. CASE w \in Job
    <3>1. pen[w] # "shut"
      BY <2>1, <1>4 DEF FileMove
    <3> QED
      BY <2>1, <3>1 DEF CallInv, Writes, process
  <2>2. CASE w = c
    BY <1>1, <1>4, <2>2, TypeFacts DEF Writes
  <2>3. CASE w \in Caller \ {c}
    <3>1. pen[w] # "shut" /\ w \notin Job /\ caller'[w] = caller[w]
      BY <1>1, <2>3, <1>4, TypeFacts DEF FileMove, Moves, Only
    <3> QED
      BY <3>1, <1>4 DEF CallInv, Writes
  <2> QED
    BY <2>1, <2>2, <2>3 DEF Writer
<1>5. ASSUME NEW d \in Caller
      PROVE  LocalOk(d)'
  <2>1. worker' = worker
    BY DEF process
  <2>2. CASE d = c
    BY <1>2, <2>1, <2>2 DEF LocalOk, Moves, Only
  <2>3. CASE d # c
    <3>1. caller'[d] = caller[d] /\ LocalOk(d)
      BY <2>3 DEF Moves, Only, CallInv
    <3> QED
      BY <1>2, <2>1, <2>3, <3>1 DEF LocalOk, Moves, Only
  <2> QED
    BY <2>2, <2>3
<1>6. ASSUME NEW j \in Job
      PROVE  LateOk(j)'
  BY <1>2 DEF LateOk, CallInv, process
<1> QED
  BY <1>3, <1>4, <1>5, <1>6 DEF CallInv

LEMMA WorkerKeeps ==
    ASSUME CallInv, NEW j \in Job, NEW p \in Working \cup {"over"}, FileMove(j),
           UNCHANGED <<caller, flag>>, worker[j] # "none", worker' = [worker EXCEPT ![j] = p],
           reached' \in [Job -> SUBSET Verdict], left' \in [Job -> Nat], late' \in [Job -> Nat],
           \A i \in Job \ {j} : late'[i] = late[i] /\ left'[i] = left[i],
           p \in {"begin", "work"} => left'[j] > 0,
           late'[j] # 0 => late'[j] = 1 /\ j \in flag /\ p \in {"work", "off", "raised"},
           pen'[j] # "shut" => p \in WorkerWrites
    PROVE  CallInv'
<1>1. TypeOK /\ worker'[j] = p /\ \A i \in Job \ {j} : worker'[i] = worker[i]
  BY DEF CallInv, TypeOK
<1>2. Known \subseteq Known'
  BY <1>1, KnownStays, TypeFacts
<1>3. TypeOK'
  BY <1>1 DEF TypeOK, FileMove, Pens
<1>4. ASSUME NEW w \in Writer, pen'[w] # "shut"
      PROVE  Writes(w)'
  <2>1. CASE w = j
    BY <1>1, <1>4, <2>1 DEF Writes
  <2>2. CASE w # j
    <3>1. pen[w] # "shut" /\ Writes(w)
      BY <1>4, <2>2 DEF FileMove, CallInv
    <3> QED
      BY <1>1, <2>2, <3>1 DEF Writes, Writer
  <2> QED
    BY <2>1, <2>2
<1>5. ASSUME NEW d \in Caller
      PROVE  LocalOk(d)'
  <2>1. LocalOk(d) /\ caller[d].job \in Job
    BY <1>1, TypeFacts DEF CallInv
  <2> QED
    BY <1>1, <1>2, <2>1 DEF LocalOk
<1>6. ASSUME NEW i \in Job
      PROVE  LateOk(i)'
  BY <1>1, <1>2 DEF LateOk, CallInv
<1> QED
  BY <1>3, <1>4, <1>5, <1>6 DEF CallInv

LEMMA CallInit == Init => CallInv
<1> SUFFICES ASSUME Init PROVE CallInv
  OBVIOUS
<1>1. TypeOK
  BY IdleFacts, ContentFacts DEF Init, TypeOK, Local
<1>2. \A w \in Writer : pen[w] = "shut"
  BY DEF Init
<1>3. ASSUME NEW c \in Caller PROVE LocalOk(c)
  <2>1. \A d \in Caller : caller[d] = Idle
    BY DEF Init
  <2> QED
    BY <2>1, IdleFacts DEF LocalOk, Launching
<1>4. \A j \in Job : LateOk(j)
  BY DEF Init, LateOk
<1> QED
  BY <1>1, <1>2, <1>3, <1>4 DEF CallInv

LEMMA PenFacts ==
    ASSUME CallInv, NEW c \in Caller, caller[c].at \notin CallWrites
    PROVE  pen[c] = "shut"
  BY TypeFacts DEF CallInv, Writes

LEMMA Quiet ==
    ASSUME CallInv, NEW c \in Caller, caller[c].at \notin CallWrites, UNCHANGED files
    PROVE  FileMove(c) /\ pen'[c] = "shut" /\ state' = state
  BY PenFacts, NoMove, TypeFacts DEF CallInv, files

LEMMA CallKept ==
    ASSUME CallInv, NEW c \in Caller, NEW request \in Request, NEW j \in Job, Call(c, request, j)
    PROVE  CallInv'
<1>1. TypeOK
  BY DEF CallInv
<1>2. /\ Moves(c) /\ caller[c].at = "idle" /\ caller'[c].at = "read" /\ caller'[c].copy # NoFile
      /\ caller'[c].todo \subseteq Known
  <2>1. /\ Moves(c) /\ caller[c].at = "idle" /\ caller'[c].at = "read" /\ caller'[c].copy # NoFile
        /\ caller'[c].todo = IF request \in {"cancel", "retry"} THEN {j} ELSE Known
        /\ request \in {"cancel", "retry"} => j \in Known
    BY <1>1, CallFacts
  <2> QED
    BY <2>1
<1>3. UNCHANGED files /\ UNCHANGED <<flag, process>>
  BY DEF Call
<1>4. FileMove(c) /\ pen'[c] = "shut"
  BY <1>2, <1>3, Quiet DEF CallWrites
<1> QED
  BY <1>1, <1>2, <1>3, <1>4, CallerKeeps DEF Launching, TypeOK

LEMMA ReadKept ==
    ASSUME CallInv, NEW c \in Caller, ReadState(c)
    PROVE  CallInv'
<1>1. TypeOK /\ LocalOk(c)
  BY DEF CallInv
<1>2. PICK j \in Job : \E s \in Seen(j) : ReadEffect(c, j, s)
  BY <1>1, ReadFacts
<1>3. PICK s \in Seen(j) : ReadEffect(c, j, s)
  BY <1>2
<1>4. j \in Known
  BY <1>1, <1>3 DEF ReadEffect, LocalOk
<1>5. s # NoFile
  BY <1>1, <1>3, <1>4, SeenFacts, ContentFacts DEF Known
<1>6. UNCHANGED files /\ UNCHANGED <<flag, process>>
  BY DEF ReadState
<1>7. /\ Moves(c) /\ caller[c].at = "read" /\ caller'[c].at \in {"read", "probe"}
      /\ caller'[c].copy # NoFile /\ caller'[c].todo \subseteq Known
  BY <1>1, <1>3, <1>5, ContentFacts DEF ReadEffect, LocalOk
<1>8. FileMove(c) /\ pen'[c] = "shut"
  BY <1>6, <1>7, Quiet DEF CallWrites
<1> QED
  BY <1>1, <1>6, <1>7, <1>8, CallerKeeps DEF Launching, TypeOK

LEMMA ProbeKept ==
    ASSUME CallInv, NEW c \in Caller, FoundAlive(c) \/ FoundDead(c)
    PROVE  CallInv'
<1>1. TypeOK /\ LocalOk(c)
  BY DEF CallInv
<1>2. UNCHANGED files /\ UNCHANGED <<flag, process>> /\ caller[c].at = "probe"
  BY DEF FoundAlive, FoundDead
<1>3. FileMove(c) /\ pen'[c] = "shut"
  BY <1>2, Quiet DEF CallWrites
<1>4. /\ Moves(c) /\ caller'[c].at \in {"read", "settle"}
      /\ caller'[c].copy # NoFile /\ caller'[c].todo \subseteq Known
  <2>1. CASE FoundAlive(c)
    <3>1. NoteEffect(c)
      BY <1>1, <2>1, NoteFacts DEF FoundAlive
    <3> QED
      BY <1>1, <3>1, ContentFacts DEF NoteEffect, LocalOk
  <2>2. CASE FoundDead(c)
    BY <1>1, <2>2, DeadFacts DEF LocalOk
  <2> QED
    BY <2>1, <2>2
<1> QED
  BY <1>1, <1>2, <1>3, <1>4, CallerKeeps DEF Launching, TypeOK

LEMMA ReturnKept ==
    ASSUME CallInv, NEW c \in Caller, FileMove(c), Return(c), pen'[c] = "shut",
           UNCHANGED <<flag, process>>
    PROVE  CallInv'
<1>1. TypeOK
  BY DEF CallInv
<1>2. Moves(c) /\ caller'[c] = Idle
  BY <1>1, ReturnFacts
<1>3. flag \subseteq flag' /\ flag' \subseteq Job
  BY <1>1 DEF TypeOK
<1> QED
  BY <1>2, <1>3, IdleFacts, CallerKeeps DEF Launching

LEMMA RetryKept ==
    ASSUME CallInv, NEW c \in Caller, Retry(c)
    PROVE  CallInv'
<1>1. TypeOK /\ LocalOk(c)
  BY DEF CallInv
<1>2. UNCHANGED files /\ UNCHANGED <<flag, process>>
  BY DEF Retry
<1>3. /\ Moves(c) /\ caller[c].at = "read" /\ caller'[c].at = "read"
      /\ caller'[c].copy # NoFile /\ caller'[c].todo \subseteq Known
  BY <1>1, RetryFacts DEF LocalOk
<1>4. FileMove(c) /\ pen'[c] = "shut"
  BY <1>2, <1>3, Quiet DEF CallWrites
<1> QED
  BY <1>1, <1>2, <1>3, <1>4, CallerKeeps DEF Launching, TypeOK

LEMMA QueueKept ==
    ASSUME CallInv, NEW c \in Caller, Queue(c)
    PROVE  CallInv'
<1>1. TypeOK
  BY DEF CallInv
<1>2. UNCHANGED files /\ UNCHANGED <<flag, process>>
  BY DEF Queue
<1>3. /\ Moves(c) /\ caller[c].at = "read" /\ caller'[c].at = "queue"
      /\ caller'[c].copy = Queued /\ caller'[c].todo = {} /\ caller'[c].job \in Job \ Begun
  BY <1>1, QueueFacts DEF Reconciled
<1>4. FileMove(c) /\ pen'[c] = "shut"
  BY <1>2, <1>3, Quiet DEF CallWrites
<1>5. worker[caller'[c].job] = "none"
  BY <1>3 DEF CallInv, LateOk, Begun
<1>6. ASSUME NEW d \in Caller \ {c}, caller[d].at \in Launching
      PROVE  caller[d].job # caller'[c].job
  <2>1. caller[d].at = "queue" => caller[d].job \in Begun
    BY DEF Begun
  <2>2. caller[d].at = "popen" => caller[d].job \in Known
    BY DEF CallInv, LocalOk
  <2> QED
    BY <1>3, <1>6, <2>1, <2>2 DEF Launching, Begun
<1> QED
  BY <1>1, <1>2, <1>3, <1>4, <1>5, <1>6, ContentFacts, CallerKeeps DEF TypeOK

LEMMA FailsKept ==
    ASSUME CallInv, NEW c \in Caller, PopenFails(c)
    PROVE  CallInv'
<1>1. TypeOK /\ LocalOk(c)
  BY DEF CallInv
<1>2. UNCHANGED files /\ UNCHANGED <<flag, process>>
  BY DEF PopenFails
<1>3. /\ Moves(c) /\ caller[c].at = "popen" /\ caller'[c].at = "fail"
      /\ caller'[c].copy # NoFile /\ caller'[c].todo \subseteq Known
  BY <1>1, FailsFacts, ContentFacts DEF LocalOk
<1>4. FileMove(c) /\ pen'[c] = "shut"
  BY <1>2, <1>3, Quiet DEF CallWrites
<1> QED
  BY <1>1, <1>2, <1>3, <1>4, CallerKeeps DEF Launching, TypeOK

LEMMA RereadKept ==
    ASSUME CallInv, NEW c \in Caller, Reread(c)
    PROVE  CallInv'
<1>1. TypeOK /\ LocalOk(c)
  BY DEF CallInv
<1>2. UNCHANGED files /\ UNCHANGED <<flag, process>>
  BY DEF Reread
<1>3. /\ Moves(c) /\ caller[c].at = "reread" /\ caller'[c].at = "pid"
      /\ caller'[c].copy # NoFile /\ caller'[c].todo \subseteq Known
  BY <1>1, RereadFacts DEF LocalOk
<1>4. FileMove(c) /\ pen'[c] = "shut"
  BY <1>2, <1>3, Quiet DEF CallWrites
<1> QED
  BY <1>1, <1>2, <1>3, <1>4, CallerKeeps DEF Launching, TypeOK

LEMMA FlagKept ==
    ASSUME CallInv, NEW c \in Caller, Flag(c)
    PROVE  CallInv'
<1>1. TypeOK /\ LocalOk(c)
  BY DEF CallInv
<1>2. UNCHANGED files /\ UNCHANGED process
  BY DEF Flag
<1>3. /\ Moves(c) /\ caller[c].at = "read" /\ caller'[c].at = "request"
      /\ caller'[c].copy # NoFile /\ caller'[c].todo \subseteq Known
      /\ flag \subseteq flag' /\ flag' \subseteq Job
  BY <1>1, FlagFacts DEF LocalOk, Reconciled
<1>4. FileMove(c) /\ pen'[c] = "shut"
  BY <1>2, <1>3, Quiet DEF CallWrites
<1> QED
  BY <1>1, <1>2, <1>3, <1>4, CallerKeeps DEF Launching

LEMMA WriteKept ==
    ASSUME CallInv, NEW c \in Caller, Open(c) \/ Overwrite(c)
    PROVE  CallInv'
<1>1. TypeOK /\ LocalOk(c) /\ c \in Writer
  BY TypeFacts DEF CallInv
<1>2. UNCHANGED <<flag, process, caller>>
  BY DEF Open, Overwrite
<1>3. FileMove(c) /\ Writes(c)
  BY <1>1, OpenMoves, OverwriteMoves DEF CallInv
<1>4. caller[c].at \in CallWrites
  BY <1>1, <1>3, TypeFacts DEF Writes
<1>5. Moves(c)
  BY <1>1, <1>2, TypeFacts DEF Moves, Only
<1>6. Known \subseteq Known'
  BY <1>1, <1>3, KnownStays
<1> QED
  BY <1>1, <1>2, <1>3, <1>4, <1>5, <1>6, CallerKeeps DEF LocalOk, TypeOK

LEMMA WroteKept ==
    ASSUME CallInv, NEW c \in Caller, Wrote(c)
    PROVE  CallInv'
<1>1. TypeOK /\ LocalOk(c) /\ c \in Writer /\ caller[c].job \in Job /\ FileOf(c) = caller[c].job
  BY TypeFacts DEF CallInv
<1>2. UNCHANGED <<flag, process>> /\ Rename(c)
  BY DEF Wrote
<1>3. FileMove(c) /\ pen'[c] = "shut" /\ state'[caller[c].job] # NoFile
  <2>1. state'[FileOf(c)] # NoFile
    BY <1>1, <1>2, RenameMoves
  <2> QED
    BY <1>1, <1>2, <2>1, RenameMoves
<1>4. CASE caller[c].at = "settle"
  <2>1. NoteEffect(c)
    BY <1>1, <1>4, NoteFacts DEF Wrote
  <2> QED
    BY <1>1, <1>2, <1>3, <2>1, ContentFacts, CallerKeeps DEF NoteEffect, LocalOk, Launching, TypeOK
<1>5. CASE caller[c].at = "queue"
  <2>1. Goto(c, "popen") /\ "popen" \in Place
    BY <1>5 DEF Wrote, Place
  <2>2. /\ Moves(c) /\ caller'[c].at = "popen" /\ caller'[c].job = caller[c].job
        /\ caller'[c].todo = caller[c].todo /\ caller'[c].copy = caller[c].copy
    BY <1>1, <2>1, GotoFacts
  <2>3. caller'[c].job \in Known'
    BY <1>1, <1>3, <2>2 DEF Known
  <2>4. \A d \in Caller \ {c} : caller[d].at \in Launching => caller[d].job # caller'[c].job
    BY <1>1, <1>5, <2>2 DEF LocalOk, Launching
  <2> QED
    BY <1>1, <1>2, <1>3, <1>5, <2>2, <2>3, <2>4, CallerKeeps DEF LocalOk, Launching, TypeOK
<1>6. CASE caller[c].at \notin {"settle", "queue"}
  <2>1. Return(c)
    BY <1>6 DEF Wrote
  <2> QED
    BY <1>2, <1>3, <2>1, ReturnKept
<1> QED
  BY <1>4, <1>5, <1>6

LEMMA PopenKept ==
    ASSUME CallInv, NEW c \in Caller, Popen(c)
    PROVE  CallInv'
<1> DEFINE j == caller[c].job
<1>1. TypeOK /\ LocalOk(c) /\ j \in Job
  BY TypeFacts DEF CallInv
<1>2. /\ caller[c].at = "popen" /\ worker' = [worker EXCEPT ![j] = "boot"] /\ Goto(c, "reread")
      /\ UNCHANGED <<state, pen, stray, flag, reached, left, late>>
  BY DEF Popen, WorkerGoto, files
<1>3. worker[j] = "none" /\ j \in Known
  BY <1>1, <1>2 DEF LocalOk, Launching
<1>4. /\ Moves(c) /\ caller'[c].at = "reread" /\ caller'[c].job = j
      /\ caller'[c].todo = caller[c].todo /\ caller'[c].copy = caller[c].copy
  <2>1. "reread" \in Place
    BY DEF Place
  <2> QED
    BY <1>1, <1>2, <2>1, GotoFacts
<1>5. TypeOK'
  BY <1>1, <1>2, <1>4 DEF TypeOK, Moves, Local, Working
<1>6. ASSUME NEW w \in Writer, pen'[w] # "shut"
      PROVE  Writes(w)'
  <2>1. Writes(w)
    BY <1>2, <1>6 DEF CallInv
  <2>2. CASE w \in Job
    BY <1>1, <1>2, <1>3, <2>1, <2>2 DEF Writes, TypeOK, WorkerWrites, LastWrite
  <2>3. CASE w \in Caller
    <3>1. w \notin Job /\ w # c
      BY <1>1, <1>2, <2>1, <2>3, TypeFacts DEF Writes, CallWrites
    <3> QED
      BY <1>4, <2>1, <2>3, <3>1 DEF Writes, Moves, Only
  <2> QED
    BY <2>2, <2>3 DEF Writer
<1>7. ASSUME NEW d \in Caller
      PROVE  LocalOk(d)'
  <2>1. CASE d = c
    BY <1>1, <1>2, <1>4, <2>1 DEF LocalOk, Launching, Known
  <2>2. CASE d # c
    <3>1. caller'[d] = caller[d] /\ LocalOk(d) /\ caller[d].job \in Job
      BY <1>1, <1>4, <2>2, TypeFacts DEF Moves, Only, CallInv
    <3>2. caller[d].at \in Launching => caller[d].job # j
      BY <1>1, <1>2, <2>2 DEF LocalOk, Launching
    <3>3. caller[d].at \in Launching => worker'[caller[d].job] = "none"
      BY <1>1, <1>2, <3>1, <3>2 DEF LocalOk, TypeOK
    <3>4. \A e \in Caller \ {d} : caller'[e].at \in Launching => e # c /\ caller'[e] = caller[e]
      BY <1>4 DEF Moves, Only, Launching
    <3> QED
      BY <1>2, <3>1, <3>3, <3>4 DEF LocalOk, Known
  <2> QED
    BY <2>1, <2>2
<1>8. ASSUME NEW i \in Job
      PROVE  LateOk(i)'
  BY <1>1, <1>2, <1>3 DEF LateOk, CallInv, Known, TypeOK
<1> QED
  BY <1>5, <1>6, <1>7, <1>8 DEF CallInv

LEMMA CallerStepKept ==
    ASSUME CallInv, NEW c \in Caller, CallStep(c) \/ Break(c)
    PROVE  CallInv'
<1>1. TypeOK /\ c \in Writer
  BY TypeFacts DEF CallInv
<1>2. CASE EndPage(c) \/ Refuse(c)
  <2>1. caller[c].at = "read" /\ Return(c) /\ UNCHANGED files /\ UNCHANGED <<flag, process>>
    BY <1>2 DEF EndPage, Refuse, Reconciled
  <2> QED
    BY <2>1, Quiet, ReturnKept DEF CallWrites
<1>3. CASE WriteRaises(c)
  BY <1>1, <1>3, NothingMoves, ReturnKept DEF WriteRaises
<1>4. CASE Break(c)
  BY <1>1, <1>4, DropMoves, ReturnKept DEF Break
<1> QED
  BY <1>2, <1>3, <1>4, ReadKept, ProbeKept, RetryKept, QueueKept, PopenKept, FailsKept, RereadKept,
     FlagKept, WriteKept, WroteKept DEF CallStep

\* A step of the worker of j that writes nothing.
LEMMA InsideKept ==
    ASSUME CallInv, NEW j \in Job,
           Boot(j) \/ Look(j) \/ KeepGoing(j) \/ Fail(j) \/ Cancel(j) \/ Succeed(j) \/ Raise(j)
    PROVE  CallInv'
<1>1. TypeOK /\ LateOk(j) /\ j \in Writer
  BY TypeFacts DEF CallInv
<1>2. UNCHANGED files /\ UNCHANGED <<caller, flag>> /\ worker[j] \in {"boot", "look", "work"}
  BY DEF Boot, Look, KeepGoing, Fail, Cancel, Succeed, Raise, Conclude, outside
<1>3. FileMove(j) /\ pen'[j] = "shut"
  <2>1. pen[j] = "shut"
    BY <1>1, <1>2 DEF CallInv, Writes, WorkerWrites, LastWrite
  <2> QED
    BY <1>1, <1>2, <2>1, NoMove DEF files
<1>4. \E p \in Working \cup {"over"} :
        /\ worker' = [worker EXCEPT ![j] = p]
        /\ left' \in [Job -> Nat] /\ late' \in [Job -> Nat] /\ reached' \in [Job -> SUBSET Verdict]
        /\ \A i \in Job \ {j} : late'[i] = late[i] /\ left'[i] = left[i]
        /\ p \in {"begin", "work"} => left'[j] > 0
        /\ late'[j] # 0 => late'[j] = 1 /\ j \in flag /\ p \in {"work", "off", "raised"}
  <2>1. CASE Boot(j)
    <3>1. PICK s \in Seen(j) :
            IF Readable(s) THEN WorkerGoto(j, "enroll") /\ UNCHANGED <<left, late>> ELSE WorkerEnds(j)
      BY <2>1 DEF Boot
    <3>2. worker[j] = "boot" /\ UNCHANGED reached
      BY <2>1 DEF Boot
    <3>3. CASE Readable(s)
      BY <1>1, <3>1, <3>2, <3>3 DEF WorkerGoto, LateOk, TypeOK, Working, WorkerWrites
    <3>4. CASE ~Readable(s)
      BY <1>1, <3>1, <3>2, <3>4 DEF WorkerEnds, WorkerGoto, TypeOK
    <3> QED
      BY <3>3, <3>4
  <2>2. CASE Look(j)
    BY <1>1, <2>2 DEF Look, WorkerGoto, LateOk, TypeOK, Working, WorkerWrites
  <2>3. CASE KeepGoing(j)
    <3>1. /\ worker[j] = "work" /\ j \notin flag /\ worker' = [worker EXCEPT ![j] = "keep"]
          /\ left' = [left EXCEPT ![j] = left[j] - 1] /\ UNCHANGED <<reached, late>> /\ left[j] > 0
      BY <1>1, <2>3 DEF KeepGoing, WorkerGoto, Cancelled, LateOk
    <3>2. left' \in [Job -> Nat] /\ \A i \in Job \ {j} : left'[i] = left[i]
      BY <1>1, <3>1 DEF TypeOK
    <3>3. late[j] = 0 /\ "keep" \in Working
      BY <1>1, <3>1 DEF LateOk, Working, WorkerWrites
    <3> QED
      BY <1>1, <3>1, <3>2, <3>3 DEF TypeOK
  <2>4. CASE Fail(j) \/ Cancel(j) \/ Succeed(j) \/ Raise(j)
    <3>1. PICK place \in LastWrite :
            /\ Conclude(j, place)
            /\ late[j] # 0 => place \in {"off", "raised"}
      <4>1. CASE Fail(j)
        BY <1>1, <4>1 DEF Fail, LateOk, LastWrite, Cancelled
      <4>2. CASE Cancel(j)
        BY <4>2 DEF Cancel, LastWrite
      <4>3. CASE Succeed(j)
        BY <1>1, <4>3 DEF Succeed, LateOk, LastWrite
      <4>4. CASE Raise(j)
        BY <4>4 DEF Raise, LastWrite
      <4> QED
        BY <2>4, <4>1, <4>2, <4>3, <4>4
    <3>2. /\ worker' = [worker EXCEPT ![j] = place] /\ UNCHANGED <<left, late>>
          /\ reached' = [reached EXCEPT ![j] = reached[j] \cup {WorkerText(place).status}]
      BY <3>1 DEF Conclude, WorkerGoto
    <3>3. WorkerText(place).status \in Verdict
      BY TextFacts
    <3>4. place \in Working /\ place \notin {"begin", "work"}
      BY DEF Working, WorkerWrites, LastWrite
    <3>5. late[j] # 0 => late[j] = 1 /\ j \in flag /\ place \in {"off", "raised"}
      BY <1>1, <3>1 DEF LateOk
    <3>6. reached' \in [Job -> SUBSET Verdict]
      BY <1>1, <3>2, <3>3 DEF TypeOK
    <3> QED
      BY <1>1, <3>2, <3>4, <3>5, <3>6 DEF TypeOK
  <2> QED
    BY <2>1, <2>2, <2>3, <2>4
<1> QED
  BY <1>1, <1>2, <1>3, <1>4, WorkerKeeps

LEMMA WorkerWriteKept ==
    ASSUME CallInv, NEW j \in Job, Open(j) \/ Overwrite(j)
    PROVE  CallInv'
<1>1. TypeOK /\ LateOk(j) /\ j \in Writer /\ worker \in [Job -> Working \cup {"none", "over"}]
  BY TypeFacts DEF CallInv, TypeOK
<1>2. UNCHANGED <<flag, process, caller>> /\ FileMove(j)
  BY <1>1, OpenMoves, OverwriteMoves DEF Open, Overwrite
<1>3. Writes(j)
  BY <1>1, OpenMoves, OverwriteMoves DEF CallInv
<1>4. worker[j] \in WorkerWrites
  BY <1>3 DEF Writes
<1>5. worker[j] \in Working /\ worker[j] # "none" /\ worker' = [worker EXCEPT ![j] = worker[j]]
  BY <1>1, <1>2, <1>4 DEF process, Working, WorkerWrites, LastWrite
<1> QED
  BY <1>1, <1>2, <1>4, <1>5, WorkerKeeps DEF process, LateOk, TypeOK

LEMMA WorkerWroteKept ==
    ASSUME CallInv, NEW j \in Job, WorkerWrote(j)
    PROVE  CallInv'
<1>1. TypeOK /\ LateOk(j) /\ j \in Writer
  BY TypeFacts DEF CallInv
<1>2. UNCHANGED <<flag, reached, caller>> /\ FileMove(j) /\ pen[j] # "shut" /\ pen'[j] = "shut"
  BY <1>1, RenameMoves DEF WorkerWrote
<1>3. worker[j] \in WorkerWrites
  BY <1>1, <1>2 DEF CallInv, Writes
<1>4. CASE worker[j] \in {"enroll", "keep"}
  <2>1. worker' = [worker EXCEPT ![j] = "look"] /\ UNCHANGED <<left, late>>
    BY <1>4 DEF WorkerWrote, WorkerGoto
  <2> QED
    BY <1>1, <1>2, <1>4, <2>1, WorkerKeeps DEF LateOk, TypeOK, Working
<1>5. CASE worker[j] = "begin"
  <2>1. /\ worker' = [worker EXCEPT ![j] = "work"] /\ UNCHANGED left
        /\ late' = [late EXCEPT ![j] = IF j \in flag THEN late[j] + 1 ELSE late[j]]
    BY <1>5 DEF WorkerWrote, WorkerGoto
  <2>2. late[j] = 0 /\ left[j] > 0
    BY <1>1, <1>5 DEF LateOk
  <2>3. /\ late' \in [Job -> Nat] /\ \A i \in Job \ {j} : late'[i] = late[i]
        /\ late'[j] # 0 => late'[j] = 1 /\ j \in flag
    BY <1>1, <2>1, <2>2 DEF TypeOK
  <2>4. reached' \in [Job -> SUBSET Verdict] /\ left' \in [Job -> Nat] /\ left'[j] > 0
        /\ \A i \in Job \ {j} : left'[i] = left[i]
    BY <1>1, <1>2, <2>1, <2>2 DEF TypeOK
  <2>5. "work" \in Working /\ worker[j] # "none"
    BY <1>5 DEF Working
  <2> QED
    BY <1>2, <2>1, <2>3, <2>4, <2>5, WorkerKeeps
<1>6. CASE worker[j] \in LastWrite
  <2>1. worker' = [worker EXCEPT ![j] = "over"] /\ left' = [left EXCEPT ![j] = 0] /\ late' = [late EXCEPT ![j] = 0]
    BY <1>6 DEF WorkerWrote, WorkerGoto, WorkerEnds, LastWrite
  <2>2. worker[j] # "none"
    BY <1>6 DEF LastWrite
  <2> QED
    BY <1>1, <1>2, <2>1, <2>2, WorkerKeeps DEF TypeOK
<1> QED
  BY <1>3, <1>4, <1>5, <1>6 DEF WorkerWrites

LEMMA WorkerRaisesKept ==
    ASSUME CallInv, NEW j \in Job, WorkerRaises(j)
    PROVE  CallInv'
<1>1. TypeOK /\ LateOk(j) /\ j \in Writer
  BY TypeFacts DEF CallInv
<1>2. UNCHANGED <<flag, caller>> /\ FileMove(j) /\ pen[j] # "shut" /\ pen'[j] = "shut"
  BY <1>1, NothingMoves DEF WorkerRaises
<1>3. worker[j] \in WorkerWrites
  BY <1>1, <1>2 DEF CallInv, Writes
<1>4. worker[j] # "none"
  BY <1>3 DEF WorkerWrites, LastWrite
<1>5. CASE worker[j] \in {"enroll", "raised"}
  <2>1. /\ worker' = [worker EXCEPT ![j] = "over"] /\ left' = [left EXCEPT ![j] = 0]
        /\ late' = [late EXCEPT ![j] = 0] /\ UNCHANGED reached
    BY <1>5 DEF WorkerRaises, WorkerGoto, WorkerEnds
  <2> QED
    BY <1>1, <1>2, <1>4, <2>1, WorkerKeeps DEF TypeOK
<1>6. CASE worker[j] \notin {"enroll", "raised"}
  <2>1. /\ worker' = [worker EXCEPT ![j] = "raised"] /\ UNCHANGED <<left, late>>
        /\ reached' = [reached EXCEPT ![j] = reached[j] \cup {"FAILED"}]
    BY <1>6 DEF WorkerRaises, WorkerGoto
  <2> QED
    BY <1>1, <1>2, <1>4, <2>1, WorkerKeeps DEF LateOk, TypeOK, Working, WorkerWrites, LastWrite, Verdict
<1> QED
  BY <1>5, <1>6

LEMMA KillKept ==
    ASSUME CallInv, NEW j \in Job, Kill(j)
    PROVE  CallInv'
<1>1. TypeOK /\ j \in Writer
  BY TypeFacts DEF CallInv
<1>2. UNCHANGED <<flag, reached, caller>> /\ FileMove(j) /\ pen'[j] = "shut" /\ worker[j] \in Working
  BY <1>1, DropMoves DEF Kill, Live
<1>3. /\ worker' = [worker EXCEPT ![j] = "over"] /\ left' = [left EXCEPT ![j] = 0]
      /\ late' = [late EXCEPT ![j] = 0]
  BY DEF Kill, WorkerGoto, WorkerEnds
<1>4. worker[j] # "none"
  BY <1>2 DEF Working, WorkerWrites, LastWrite
<1> QED
  BY <1>1, <1>2, <1>3, <1>4, WorkerKeeps DEF TypeOK

LEMMA CallStays == CallInv /\ [Next]_vars => CallInv'
<1> SUFFICES ASSUME CallInv, [Next]_vars PROVE CallInv'
  OBVIOUS
<1>1. ASSUME NEW c \in Caller, NEW request \in Request, NEW j \in Job, Call(c, request, j)
      PROVE  CallInv'
  BY <1>1, CallKept
<1>2. ASSUME NEW c \in Caller, CallStep(c) \/ Break(c) PROVE CallInv'
  BY <1>2, CallerStepKept
<1>3. ASSUME NEW j \in Job, WorkerStep(j) \/ Kill(j) PROVE CallInv'
  BY <1>3, InsideKept, WorkerWriteKept, WorkerWroteKept, WorkerRaisesKept, KillKept DEF WorkerStep
<1>4. CASE UNCHANGED vars
  <2>1. /\ UNCHANGED <<state, pen, stray, flag, worker, reached, left, late, caller>>
    BY <1>4 DEF vars, files, process
  <2> QED
    BY <2>1 DEF CallInv, TypeOK, Writes, LocalOk, LateOk, Known
<1> QED
  BY <1>1, <1>2, <1>3, <1>4 DEF Next

\* Every variable keeps its type.
THEOREM TypeCorrect == Spec => []TypeOK
<1>1. CallInv => TypeOK
  BY DEF CallInv
<1> QED
  BY <1>1, CallInit, CallStays, PTL DEF Spec

\* However calls overlap, break off and repeat, at most one more step of a job begins
\* after the request to cancel it.
THEOREM CancelIsObeyed == Spec => []OneStepAfterCancel
<1>1. CallInv => OneStepAfterCancel
  <2> SUFFICES ASSUME CallInv, NEW j \in Job PROVE late[j] <= 1
    BY DEF OneStepAfterCancel
  <2>1. LateOk(j) /\ late[j] \in Nat
    BY DEF CallInv, TypeOK
  <2> QED
    BY <2>1 DEF LateOk
<1> QED
  BY <1>1, CallInit, CallStays, PTL DEF Spec

-----------------------------------------------------------------------------
(* When calls do not overlap: the files.                                   *)

Grown(r, k, s, l) ==
    /\ r \subseteq s
    /\ l = "none" <=> k = "none"
    /\ l \in Working => k \in Working

LEMMA TruthStays ==
    ASSUME NEW s, NEW r, NEW k, NEW r2, NEW k2, Grown(r, k, r2, k2)
    PROVE  /\ Fits(s, r, k) => Fits(s, r2, k2)
           /\ HasPid(s, k) => HasPid(s, k2)
           /\ Truth(s, r, k) => Truth(s, r2, k2)
  BY DEF Grown, Fits, HasPid, Truth

\* The worker of j goes on, or has not been launched.
Grows(j) ==
    /\ Grown(reached[j], worker[j], reached'[j], worker'[j])
    /\ AtWork(j)' => AtWork(j)
    /\ AtWork(j)' \/ worker'[j] = "none" => reached'[j] = {}
    /\ worker'[j] \in LastWrite => WorkerText(worker'[j]).status \in reached'[j]

LEMMA NoGrowth ==
    ASSUME SerialInv, UNCHANGED process, NEW j \in Job
    PROVE  Grows(j)
  BY DEF SerialInv, FileOk, Grows, Grown, process, AtWork

LEMMA TornIsTrue ==
    ASSUME NEW s \in {NoFile, Blank, Garbled}, NEW r, NEW k
    PROVE  Truth(s, r, k)
  BY DEF Truth, Fits, HasPid, Readable, NoFile, Blank, Garbled, Verdict, ACTIVE, TERMINAL

LEMMA TextIsTrue ==
    ASSUME SerialInv, NEW w \in Writer, pen[w] # "shut"
    PROVE  Truth(Text(w), reached[FileOf(w)], worker[FileOf(w)])
<1>1. CallInv /\ Writes(w)
  BY DEF SerialInv, CallInv
<1>2. CASE w \in Job
  <2>1. worker[w] \in WorkerWrites /\ FileOk(w) /\ Text(w) = WorkerText(worker[w]) /\ FileOf(w) = w
    BY <1>1, <1>2 DEF Writes, SerialInv, Text, FileOf
  <2>2. /\ WorkerText(worker[w]).pid /\ WorkerText(worker[w]).status \in {"RUNNING"} \cup Verdict
        /\ worker[w] \notin LastWrite => WorkerText(worker[w]).status = "RUNNING"
    BY TextFacts
  <2>3. worker[w] \in LastWrite => WorkerText(worker[w]).status \in reached[w]
    BY <2>1 DEF FileOk
  <2> QED
    BY <2>1, <2>2, <2>3 DEF Truth, Fits, HasPid, Verdict
<1>3. CASE w \in Caller
  <2>1. /\ w \notin Job /\ FileOf(w) = caller[w].job /\ Text(w) = caller[w].copy
        /\ caller[w].at \in CallWrites
    BY <1>1, <1>3 DEF Writes, Text, FileOf
  <2> QED
    BY <1>3, <2>1 DEF SerialInv, CallerOk, CopyOk, Holds
<1> QED
  BY <1>2, <1>3 DEF Writer

LEMMA RenewedIsTrue ==
    ASSUME SerialInv, NEW j \in Job, Renewed(j)
    PROVE  Truth(state'[j], reached[j], worker[j])
<1>1. CASE state'[j] \in {Blank, Garbled}
  BY <1>1, TornIsTrue
<1>2. CASE stray[j] # NoFile /\ state'[j] = stray[j]
  BY <1>2 DEF SerialInv, FileOk
<1>3. CASE \E v \in Writer : pen[v] # "shut" /\ FileOf(v) = j /\ state'[j] = Text(v)
  BY <1>3, TextIsTrue
<1> QED
  BY <1>1, <1>2, <1>3 DEF Renewed

\* A write is a step of a worker, or of a caller within a call.
Acts(w) == IF w \in Job THEN worker[w] # "none" ELSE caller[w].at # "idle"

LEMMA StrayIsTrue ==
    ASSUME SerialInv, NEW w \in Writer, FileMove(w), UNCHANGED stray \/ Acts(w), NEW j \in Job
    PROVE  /\ Truth(stray'[j], reached[j], worker[j])
           /\ worker[j] = "none" => stray'[j] = NoFile
<1>1. CallInv /\ TypeOK /\ FileOk(j) /\ FileOf(w) \in Job
  BY TypeFacts DEF SerialInv, CallInv
<1>2. CASE stray'[j] = stray[j]
  BY <1>1, <1>2 DEF FileOk
<1>3. CASE stray'[j] # stray[j]
  <2>1. j = FileOf(w) /\ Acts(w)
    BY <1>1, <1>3 DEF FileMove
  <2>2. Truth(stray'[j], reached[j], worker[j])
    <3>1. \/ stray'[j] \in {NoFile, Blank}
          \/ pen[w] # "shut" /\ stray'[j] = Text(w)
      BY <1>3, <2>1 DEF FileMove
    <3> QED
      BY <2>1, <3>1, TornIsTrue, TextIsTrue
  <2>3. ASSUME worker[j] = "none", stray'[j] # NoFile
        PROVE  FALSE
    <3>1. stray[j] = NoFile
      BY <1>1, <2>3 DEF FileOk
    <3>2. PICK v \in Writer \ {w} : pen[v] # "shut" /\ FileOf(v) = j
      BY <2>1, <2>3, <3>1 DEF FileMove
    <3>3. Writes(v)
      BY <1>1, <3>2 DEF CallInv
    <3>4. v \in Caller /\ caller[v].at # "idle"
      <4>1. v \notin Job
        BY <2>3, <3>2, <3>3 DEF Writes, FileOf, WorkerWrites, LastWrite
      <4> QED
        BY <3>3, <4>1 DEF Writes, Writer, CallWrites
    <3>5. w \in Caller /\ caller[w].at # "idle"
      BY <2>1, <2>3 DEF Acts, FileOf, Writer
    <3> QED
      BY <3>2, <3>4, <3>5 DEF SerialInv
  <2> QED
    BY <2>2, <2>3
<1> QED
  BY <1>2, <1>3

\* Whoever writes, all files stay true if every awaited pid is still awaited, or there.
LEMMA FilesKeep ==
    ASSUME SerialInv, NEW w \in Writer, FileMove(w), UNCHANGED stray \/ Acts(w),
           \A j \in Job : Grows(j),
           \A c \in Caller, j \in Job :
              Awaits(c, j) => Awaits(c, j)' \/ HasPid(state'[j], worker[j])
    PROVE  \A j \in Job : FileOk(j)'
<1> SUFFICES ASSUME NEW j \in Job PROVE FileOk(j)'
  OBVIOUS
<1>1. FileOk(j) /\ Grows(j) /\ TypeOK
  BY DEF SerialInv, CallInv
<1>2. state'[j] = state[j] \/ Renewed(j)
  BY <1>1, TypeFacts DEF FileMove
<1>3. Fits(state'[j], reached[j], worker[j])
  BY <1>1, <1>2, RenewedIsTrue DEF FileOk, Truth
<1>4. HasPid(state'[j], worker[j]) \/ \E c \in Caller : Awaits(c, j)'
  <2>1. CASE Renewed(j)
    BY <2>1, RenewedIsTrue DEF Truth
  <2>2. CASE state'[j] = state[j]
    BY <1>1, <2>2 DEF FileOk
  <2> QED
    BY <1>2, <2>1, <2>2
<1>5. /\ Truth(stray'[j], reached[j], worker[j])
      /\ worker[j] = "none" => stray'[j] = NoFile
  BY StrayIsTrue
<1>6. /\ Fits(state'[j], reached'[j], worker'[j])
      /\ HasPid(state'[j], worker'[j]) \/ \E c \in Caller : Awaits(c, j)'
      /\ Truth(stray'[j], reached'[j], worker'[j])
  <2>1. Grown(reached[j], worker[j], reached'[j], worker'[j])
    BY <1>1 DEF Grows
  <2>2. Fits(state'[j], reached'[j], worker'[j])
    BY <1>3, <2>1, TruthStays
  <2>3. HasPid(state'[j], worker[j]) => HasPid(state'[j], worker'[j])
    BY <2>1, TruthStays
  <2>4. Truth(stray'[j], reached'[j], worker'[j])
    BY <1>5, <2>1, TruthStays
  <2> QED
    BY <1>4, <2>2, <2>3, <2>4
<1>7. worker'[j] = "none" => worker[j] = "none"
  BY <1>1 DEF Grows, Grown
<1> QED
  BY <1>1, <1>5, <1>6, <1>7 DEF FileOk, Grows

LEMMA OthersAwait ==
    ASSUME SerialInv, NEW w \in Writer, FileMove(w), NEW c \in Caller \ {w}, caller'[c] = caller[c],
           NEW j \in Job, Awaits(c, j)
    PROVE  Awaits(c, j)' \/ HasPid(state'[j], worker[j])
<1>1. TypeOK
  BY DEF SerialInv, CallInv
<1>2. c \in Writer /\ FileOf(c) = j /\ caller[c].job = j
  BY <1>1, TypeFacts DEF Awaits
<1>3. CASE pen'[c] = pen[c]
  BY <1>2, <1>3 DEF Awaits
<1>4. CASE pen'[c] # pen[c]
  <2>1. FileOf(w) = j /\ Renewed(j)
    BY <1>2, <1>4 DEF FileMove
  <2> QED
    BY <2>1, RenewedIsTrue DEF Truth
<1> QED
  BY <1>3, <1>4

-----------------------------------------------------------------------------
(* When calls do not overlap: the workers.                                 *)

LEMMA WorkerSerial ==
    ASSUME SerialInv, CallInv', NEW j \in Job, FileMove(j), UNCHANGED caller,
           worker[j] # "none", \A i \in Job : Grows(i)
    PROVE  SerialInv'
<1>1. TypeOK /\ j \in Writer /\ FileOf(j) = j
  BY TypeFacts DEF SerialInv, CallInv
<1>2. \A i \in Job : FileOk(i)'
  <2>1. Acts(j)
    BY DEF Acts
  <2>2. ASSUME NEW c \in Caller, NEW i \in Job, Awaits(c, i)
        PROVE  Awaits(c, i)' \/ HasPid(state'[i], worker[i])
    BY <1>1, <2>2, OthersAwait
  <2> QED
    BY <1>1, <2>1, <2>2, FilesKeep
<1>3. ASSUME NEW c \in Caller
      PROVE  CallerOk(c)'
  <2> DEFINE i == caller[c].job
  <2>1. CallerOk(c) /\ LocalOk(c) /\ i \in Job /\ c \in Writer /\ FileOf(c) = i /\ caller'[c] = caller[c]
    BY <1>1, TypeFacts DEF SerialInv, CallInv
  <2>2. Holds(c)' => Truth(caller[c].copy, reached'[i], worker'[i])
    <3>1. Holds(c)' => Truth(caller[c].copy, reached[i], worker[i])
      BY <2>1 DEF Holds, CallerOk, CopyOk
    <3>2. Grown(reached[i], worker[i], reached'[i], worker'[i])
      BY <2>1 DEF Grows
    <3> QED
      BY <3>1, <3>2, TruthStays
  <2>3. caller[c].at \in Launching => state'[i] = state[i] /\ pen'[c] = pen[c]
    <3>1. caller[c].at \in Launching => i # j
      BY <2>1 DEF LocalOk
    <3> QED
      BY <1>1, <2>1, <3>1 DEF FileMove
  <2>4. CopyOk(c)'
    BY <2>1, <2>2, <2>3 DEF CopyOk, CallerOk, Launching
  <2>5. StartOk(c)'
    <3>1. \A k \in Job : AtWork(k)' => AtWork(k)
      BY DEF Grows
    <3> QED
      BY <2>1, <3>1 DEF StartOk, CallerOk
  <2> QED
    BY <2>1, <2>4, <2>5 DEF CallerOk
<1> QED
  BY <1>2, <1>3 DEF SerialInv

\* The other workers, which do not move.
LEMMA OthersGrow ==
    ASSUME SerialInv, NEW j \in Job, \A i \in Job \ {j} : worker'[i] = worker[i] /\ reached'[i] = reached[i],
           Grows(j)
    PROVE  \A i \in Job : Grows(i)
  BY DEF SerialInv, FileOk, Grows, Grown, AtWork

\* The worker of j moves from k to l, and may come to the verdict it is about to write.
LEMMA MoveGrows ==
    ASSUME SerialInv, NEW j \in Job, NEW l \in Working \cup {"over"},
           worker[j] \in Working, worker' = [worker EXCEPT ![j] = l],
           AtWork(j) \/ l \notin Working \ LastWrite,
           \/ reached' = reached /\ (l \in LastWrite => l = worker[j])
           \/ l \in LastWrite /\ reached' = [reached EXCEPT ![j] = reached[j] \cup {WorkerText(l).status}]
    PROVE  \A i \in Job : Grows(i)
<1>1. TypeOK /\ FileOk(j)
  BY DEF SerialInv, CallInv
<1>2. /\ worker'[j] = l /\ reached[j] \subseteq reached'[j]
      /\ \A i \in Job \ {j} : worker'[i] = worker[i] /\ reached'[i] = reached[i]
      /\ l \in LastWrite => WorkerText(l).status \in reached'[j]
      /\ l \notin LastWrite => reached'[j] = reached[j]
  BY <1>1 DEF TypeOK, FileOk
<1>3. l # "none" /\ worker[j] # "none"
  BY DEF Working, WorkerWrites, LastWrite
<1>4. Grows(j)
  BY <1>1, <1>2, <1>3 DEF Grows, Grown, AtWork, FileOk
<1> QED
  BY <1>2, <1>4, OthersGrow

LEMMA WorkerStepSerial ==
    ASSUME SerialInv, CallInv', NEW j \in Job, WorkerStep(j) \/ Kill(j)
    PROVE  SerialInv'
<1>1. CallInv /\ TypeOK /\ j \in Writer /\ FileOf(j) = j /\ worker[j] \in Working \cup {"none", "over"}
  BY TypeFacts DEF SerialInv, CallInv, TypeOK
<1>2. {"enroll", "begin", "keep", "look", "work"} \cap LastWrite = {}
  BY DEF LastWrite
<1>3. CASE Boot(j) \/ Look(j) \/ KeepGoing(j) \/ Fail(j) \/ Cancel(j) \/ Succeed(j) \/ Raise(j)
  <2>1. UNCHANGED files /\ UNCHANGED caller /\ worker[j] \in {"boot", "look", "work"}
    BY <1>3 DEF Boot, Look, KeepGoing, Fail, Cancel, Succeed, Raise, Conclude, outside
  <2>2. worker[j] \in Working /\ AtWork(j) /\ worker[j] # "none"
    BY <2>1 DEF Working, AtWork, LastWrite
  <2>3. \A i \in Job : Grows(i)
    <3>1. CASE Boot(j) \/ Look(j) \/ KeepGoing(j)
      <4>1. PICK l \in {"enroll", "begin", "keep", "over"} :
              worker' = [worker EXCEPT ![j] = l] /\ reached' = reached
        BY <3>1 DEF Boot, Look, KeepGoing, WorkerGoto, WorkerEnds
      <4>2. l \in Working \cup {"over"} /\ l \notin LastWrite
        BY DEF Working, WorkerWrites, LastWrite
      <4> QED
        BY <2>2, <4>1, <4>2, MoveGrows
    <3>2. CASE Fail(j) \/ Cancel(j) \/ Succeed(j) \/ Raise(j)
      <4>1. PICK l \in LastWrite :
              /\ worker' = [worker EXCEPT ![j] = l]
              /\ reached' = [reached EXCEPT ![j] = reached[j] \cup {WorkerText(l).status}]
        BY <3>2 DEF Fail, Cancel, Succeed, Raise, Conclude, WorkerGoto, LastWrite
      <4>2. l \in Working \cup {"over"}
        BY DEF Working, WorkerWrites
      <4> QED
        BY <2>2, <4>1, <4>2, MoveGrows
    <3> QED
      BY <1>3, <3>1, <3>2
  <2>4. FileMove(j)
    BY <1>1, <2>1, NoMove
  <2> QED
    BY <2>1, <2>2, <2>3, <2>4, WorkerSerial
<1>4. CASE Open(j) \/ Overwrite(j)
  <2>1. FileMove(j) /\ Writes(j) /\ UNCHANGED caller /\ UNCHANGED process
    BY <1>1, <1>4, OpenMoves, OverwriteMoves DEF Open, Overwrite, CallInv
  <2>2. worker[j] # "none"
    BY <2>1 DEF Writes, WorkerWrites, LastWrite
  <2> QED
    BY <2>1, <2>2, NoGrowth, WorkerSerial
<1>5. CASE WorkerWrote(j)
  <2>1. FileMove(j) /\ pen[j] # "shut" /\ UNCHANGED <<caller, reached>>
    BY <1>1, <1>5, RenameMoves DEF WorkerWrote
  <2>2. worker[j] \in WorkerWrites /\ worker[j] \in Working /\ worker[j] # "none"
    BY <1>1, <2>1 DEF CallInv, Writes, WorkerWrites, LastWrite, Working
  <2>3. PICK l \in {"look", "work", "over"} :
          worker' = [worker EXCEPT ![j] = l] /\ (worker[j] \in LastWrite => l = "over")
    <3>1. CASE worker[j] \in LastWrite
      BY <1>5, <3>1 DEF WorkerWrote, WorkerGoto, WorkerEnds, LastWrite
    <3>2. CASE worker[j] \in {"enroll", "begin", "keep"}
      BY <1>2, <1>5, <3>2 DEF WorkerWrote, WorkerGoto
    <3> QED
      BY <2>2, <3>1, <3>2 DEF WorkerWrites
  <2>4. l \in Working \cup {"over"} /\ l \notin LastWrite /\ (l = "over" => l \notin Working)
    BY DEF Working, WorkerWrites, LastWrite
  <2>5. AtWork(j) \/ l \notin Working \ LastWrite
    BY <2>2, <2>3, <2>4 DEF AtWork
  <2>6. \A i \in Job : Grows(i)
    BY <2>1, <2>2, <2>3, <2>4, <2>5, MoveGrows
  <2> QED
    BY <2>1, <2>2, <2>6, WorkerSerial
<1>6. CASE WorkerRaises(j)
  <2>1. FileMove(j) /\ pen[j] # "shut" /\ UNCHANGED caller
    BY <1>1, <1>6, NothingMoves DEF WorkerRaises
  <2>2. worker[j] \in WorkerWrites /\ worker[j] \in Working /\ worker[j] # "none"
    BY <1>1, <2>1 DEF CallInv, Writes, WorkerWrites, LastWrite, Working
  <2>3. \A i \in Job : Grows(i)
    <3>1. CASE worker[j] \in {"enroll", "raised"}
      <4>1. worker' = [worker EXCEPT ![j] = "over"] /\ reached' = reached
        BY <1>6, <3>1 DEF WorkerRaises, WorkerGoto, WorkerEnds
      <4>2. "over" \notin Working /\ "over" \notin LastWrite
        BY DEF Working, WorkerWrites, LastWrite
      <4> QED
        BY <2>2, <4>1, <4>2, MoveGrows
    <3>2. CASE worker[j] \notin {"enroll", "raised"}
      <4>1. /\ worker' = [worker EXCEPT ![j] = "raised"]
            /\ reached' = [reached EXCEPT ![j] = reached[j] \cup {"FAILED"}]
        BY <1>6, <3>2 DEF WorkerRaises, WorkerGoto
      <4>2. "raised" \in Working /\ "raised" \in LastWrite /\ WorkerText("raised").status = "FAILED"
        BY TextFacts DEF Working, WorkerWrites, LastWrite
      <4> QED
        BY <2>2, <4>1, <4>2, MoveGrows
    <3> QED
      BY <3>1, <3>2
  <2> QED
    BY <2>1, <2>2, <2>3, WorkerSerial
<1>7. CASE Kill(j)
  <2>1. FileMove(j) /\ UNCHANGED <<caller, reached>> /\ worker[j] \in Working
    BY <1>1, <1>7, DropMoves DEF Kill, Live
  <2>2. worker' = [worker EXCEPT ![j] = "over"]
    BY <1>7 DEF Kill, WorkerEnds, WorkerGoto
  <2>3. "over" \notin Working /\ "over" \notin LastWrite /\ worker[j] # "none"
    BY <2>1 DEF Working, WorkerWrites, LastWrite
  <2>4. \A i \in Job : Grows(i)
    BY <2>1, <2>2, <2>3, MoveGrows
  <2> QED
    BY <2>1, <2>3, <2>4, WorkerSerial
<1> QED
  BY <1>3, <1>4, <1>5, <1>6, <1>7 DEF WorkerStep

-----------------------------------------------------------------------------
(* When calls do not overlap: the calls.                                   *)

Alone(c) == \A d \in Caller \ {c} : caller[d].at = "idle"

LEMMA ActiveIsAlone ==
    ASSUME SerialInv, NEW c \in Caller, caller[c].at # "idle"
    PROVE  Alone(c)
  BY DEF SerialInv, Alone

LEMMA IdleIsOk ==
    ASSUME NEW c \in Caller, caller[c].at = "idle"
    PROVE  CallerOk(c)
  BY DEF CallerOk, CopyOk, StartOk, Holds, CallWrites, Launching

\* A step of c that is not the launch, after which c is as it should be.
LEMMA CallerSerial ==
    ASSUME SerialInv, CallInv', NEW c \in Caller, Alone(c), FileMove(c), Moves(c),
           UNCHANGED process, UNCHANGED stray \/ caller[c].at # "idle",
           \A j \in Job : Awaits(c, j) => Awaits(c, j)' \/ HasPid(state'[j], worker[j]),
           CallerOk(c)'
    PROVE  SerialInv'
<1>1. TypeOK /\ c \in Writer /\ c \notin Job
  BY TypeFacts DEF SerialInv, CallInv
<1>2. \A d \in Caller \ {c} : caller'[d] = caller[d] /\ caller'[d].at = "idle"
  BY DEF Moves, Only, Alone
<1>3. \A j \in Job : FileOk(j)'
  <2>1. \A j \in Job : Grows(j)
    BY NoGrowth
  <2>2. UNCHANGED stray \/ Acts(c)
    BY <1>1 DEF Acts
  <2>3. ASSUME NEW d \in Caller, NEW j \in Job, Awaits(d, j)
        PROVE  Awaits(d, j)' \/ HasPid(state'[j], worker[j])
    BY <1>2, <2>3 DEF Awaits
  <2> QED
    BY <1>1, <2>1, <2>2, <2>3, FilesKeep
<1>4. \A d \in Caller : CallerOk(d)'
  <2>1. ASSUME NEW d \in Caller \ {c} PROVE CallerOk(d)'
    BY <1>2, IdleIsOk DEF CallerOk, CopyOk, StartOk, Holds, CallWrites, Launching
  <2> QED
    BY <2>1
<1> QED
  BY <1>2, <1>3, <1>4 DEF SerialInv

\* The same, for a step that leaves the files alone, out of a write or a launch.
LEMMA LocalSerial ==
    ASSUME SerialInv, CallInv', NEW c \in Caller, Alone(c), Moves(c), UNCHANGED files,
           UNCHANGED process,
           caller[c].at \notin {"reread", "pid"} \/ (caller[c].at = "reread" /\ caller'[c].at = "pid"
                                                     /\ caller'[c].job = caller[c].job),
           CallerOk(c)'
    PROVE  SerialInv'
<1>1. CallInv /\ TypeOK /\ c \in Writer
  BY TypeFacts DEF SerialInv, CallInv
<1>2. FileMove(c) /\ UNCHANGED <<stray, pen>>
  BY <1>1, NoMove DEF files
<1>3. ASSUME NEW j \in Job, Awaits(c, j)
      PROVE  Awaits(c, j)'
  <2>1. /\ caller[c].at = "reread" /\ caller'[c].at = "pid"
        /\ caller'[c].job = j
    BY <1>3 DEF Awaits
  <2>2. pen[c] = "shut"
    BY <1>1, <2>1, PenFacts DEF CallWrites
  <2> QED
    BY <1>2, <2>1, <2>2 DEF Awaits
<1> QED
  BY <1>2, <1>3, CallerSerial

LEMMA ReturnSerial ==
    ASSUME SerialInv, CallInv', NEW c \in Caller, FileMove(c), Return(c), UNCHANGED process,
           caller[c].at # "idle",
           caller[c].at \notin {"reread", "pid"} \/ Renewed(FileOf(c)) \/ (caller[c].at = "pid" /\ pen[c] = "gone")
    PROVE  SerialInv'
<1>1. TypeOK /\ c \in Writer /\ FileOf(c) = caller[c].job
  BY TypeFacts DEF SerialInv, CallInv
<1>2. Moves(c) /\ caller'[c] = Idle
  BY <1>1, ReturnFacts
<1>3. CallerOk(c)'
  BY <1>2, IdleFacts DEF CallerOk, CopyOk, StartOk, Holds, CallWrites, Launching
<1>4. ASSUME NEW j \in Job, Awaits(c, j)
      PROVE  HasPid(state'[j], worker[j])
  <2>1. caller[c].job = j /\ Renewed(j)
    BY <1>1, <1>4 DEF Awaits
  <2> QED
    BY <2>1, RenewedIsTrue DEF Truth
<1> QED
  BY <1>2, <1>3, <1>4, ActiveIsAlone, CallerSerial

LEMMA CallSerial ==
    ASSUME SerialInv, CallInv', ~Overlap, NEW c \in Caller, NEW request \in Request, NEW j \in Job,
           Call(c, request, j)
    PROVE  SerialInv'
<1>1. CallInv /\ TypeOK
  BY DEF SerialInv, CallInv
<1>2. /\ Moves(c) /\ caller[c].at = "idle" /\ caller'[c].at = "read"
      /\ caller'[c].asks = request
      /\ caller'[c].todo = IF request \in {"cancel", "retry"} THEN {j} ELSE Known
  BY <1>1, CallFacts
<1>3. UNCHANGED files /\ UNCHANGED process /\ Alone(c)
  BY DEF Call, Alone
<1>4. CallerOk(c)'
  <2>1. ~Holds(c)'
    BY <1>2 DEF Holds, CallWrites
  <2>2. StartOk(c)'
    <3>1. ASSUME NEW i \in Job, AtWork(i)' PROVE i \in Known
      <4>1. worker[i] # "none"
        BY <1>3, <3>1 DEF process, AtWork, Working, WorkerWrites, LastWrite
      <4> QED
        BY <1>1, <4>1 DEF CallInv, LateOk
    <3>2. request = "start" => caller'[c].todo = Known
      BY <1>2
    <3> QED
      BY <1>2, <3>1, <3>2 DEF StartOk, Launching
  <2> QED
    BY <1>2, <2>1, <2>2 DEF CallerOk, CopyOk, Launching
<1> QED
  BY <1>2, <1>3, <1>4, LocalSerial

\* The states of the jobs that are at work are active or torn.
LEMMA AtWorkFacts ==
    ASSUME SerialInv, NEW j \in Job, AtWork(j)
    PROVE  /\ Readable(state[j]) => state[j].status \in ACTIVE
           /\ worker[j] # "none" /\ j \in Known /\ Live(j)
<1>1. FileOk(j) /\ LateOk(j)
  BY DEF SerialInv, CallInv
<1>2. worker[j] # "none" /\ Live(j)
  BY DEF AtWork, Working, WorkerWrites, LastWrite, Live
<1>3. state[j].status \notin Verdict \cup {"INTERRUPTED"}
  BY <1>1, <1>2 DEF FileOk, Fits, Live
<1> QED
  BY <1>1, <1>2, <1>3 DEF LateOk, Readable, TERMINAL, Verdict

\* A caller that reads the files finds the pid of every worker in them.
LEMMA ReadersFindPid ==
    ASSUME SerialInv, NEW c \in Caller, caller[c].at = "read", NEW j \in Job
    PROVE  Truth(state[j], reached[j], worker[j])
<1>1. \A d \in Caller : ~Awaits(d, j)
  BY DEF SerialInv, Awaits
<1> QED
  BY <1>1 DEF SerialInv, FileOk, Truth

LEMMA ReadSerial ==
    ASSUME SerialInv, CallInv', NEW c \in Caller, ReadState(c)
    PROVE  SerialInv'
<1>1. CallInv /\ TypeOK /\ CallerOk(c) /\ LocalOk(c)
  BY DEF SerialInv, CallInv
<1>2. PICK j \in Job : \E s \in Seen(j) : ReadEffect(c, j, s)
  BY <1>1, ReadFacts
<1>3. PICK s \in Seen(j) : ReadEffect(c, j, s)
  BY <1>2
<1>4. /\ Moves(c) /\ caller[c].at = "read" /\ caller'[c].at \in {"read", "probe"}
      /\ caller'[c].asks = caller[c].asks /\ caller'[c].job = j
      /\ caller'[c].todo = caller[c].todo \ {j}
  BY <1>3 DEF ReadEffect
<1>5. UNCHANGED files /\ UNCHANGED process
  BY DEF ReadState
<1>6. s \in {state[j], Garbled} /\ Truth(s, reached[j], worker[j])
  BY <1>1, <1>4, SeenFacts, ReadersFindPid, TornIsTrue
<1>7. CopyOk(c)'
  <2>1. Holds(c)' => caller'[c].copy = s
    BY <1>3, <1>4 DEF Holds, ReadEffect, CallWrites
  <2>2. Holds(c)' => Truth(caller'[c].copy, reached'[j], worker'[j])
    BY <1>5, <1>6, <2>1 DEF process
  <2>3. caller'[c].at = "probe" => caller'[c].copy.status \in Probed
    BY <1>3 DEF ReadEffect, IsProbed
  <2> QED
    BY <1>4, <2>2, <2>3 DEF CopyOk
<1>8. StartOk(c)'
  <2> SUFFICES ASSUME caller[c].asks = "start", NEW i \in Job, AtWork(i)
               PROVE  /\ caller'[c].at = "read" =>
                            i \in caller'[c].todo \/ caller'[c].busy \/ caller'[c].blind
                      /\ caller'[c].at = "probe" =>
                            \/ i \in caller'[c].todo \/ i = caller'[c].job
                            \/ caller'[c].busy \/ caller'[c].blind
    BY <1>4, <1>5 DEF StartOk, AtWork, process, Launching
  <2>1. i \in caller[c].todo \/ caller[c].busy \/ caller[c].blind
    BY <1>1, <1>4 DEF CallerOk, StartOk
  <2>2. CASE IsProbed(s.status)
    BY <1>3, <1>4, <2>1, <2>2 DEF ReadEffect
  <2>3. CASE ~IsProbed(s.status)
    <3>1. /\ caller'[c].at = "read" /\ caller'[c].busy = SeenBusy(caller[c].busy, s)
          /\ caller'[c].blind = (caller[c].blind \/ ~Readable(s))
      BY <1>3, <2>3 DEF ReadEffect
    <3>2. i = j => ~Readable(s) \/ s.status \in ACTIVE
      BY <1>6, AtWorkFacts, ContentFacts
    <3> QED
      BY <1>4, <2>1, <3>1, <3>2 DEF SeenBusy
  <2> QED
    BY <2>2, <2>3
<1>9. CallerOk(c)'
  BY <1>4, <1>7, <1>8 DEF CallerOk, Launching
<1> QED
  BY <1>4, <1>5, <1>9, ActiveIsAlone, LocalSerial

\* The file of c is reconciled; it has no worker, or its status is active.
LEMMA NoteSerial ==
    ASSUME SerialInv, NEW c \in Caller, UNCHANGED process, NoteEffect(c),
           caller[c].at \in {"probe", "settle"},
           AtWork(caller[c].job) => caller[c].copy.status \in ACTIVE
    PROVE  CallerOk(c)'
<1>1. CallerOk(c) /\ Holds(c)
  BY DEF SerialInv, Holds, CallWrites
<1>2. CopyOk(c)'
  <2>1. Holds(c)' => caller'[c].copy = caller[c].copy
    BY DEF NoteEffect, Holds, CallWrites
  <2>2. Truth(caller[c].copy, reached'[caller[c].job], worker'[caller[c].job])
    BY <1>1 DEF CallerOk, CopyOk, process
  <2> QED
    BY <2>1, <2>2 DEF CopyOk, NoteEffect
<1>3. StartOk(c)'
  <2> SUFFICES ASSUME caller[c].asks = "start", NEW i \in Job, AtWork(i)
               PROVE  i \in caller[c].todo \/ caller'[c].busy \/ caller'[c].blind
    BY DEF StartOk, AtWork, process, Launching, NoteEffect
  <2>1. i \in caller[c].todo \/ i = caller[c].job \/ caller[c].busy \/ caller[c].blind
    BY <1>1 DEF CallerOk, StartOk
  <2> QED
    BY <2>1 DEF NoteEffect, SeenBusy
<1> QED
  BY <1>2, <1>3 DEF CallerOk, NoteEffect, Launching

LEMMA AliveSerial ==
    ASSUME SerialInv, CallInv', NEW c \in Caller, FoundAlive(c)
    PROVE  SerialInv'
<1>1. TypeOK /\ CallerOk(c)
  BY DEF SerialInv, CallInv
<1>2. NoteEffect(c) /\ caller[c].at = "probe" /\ UNCHANGED files /\ UNCHANGED process
  BY <1>1, NoteFacts DEF FoundAlive
<1>3. caller[c].copy.status \in ACTIVE
  BY <1>1, <1>2 DEF CallerOk, CopyOk, Probed, ACTIVE
<1>4. CallerOk(c)'
  BY <1>2, <1>3, NoteSerial
<1> QED
  BY <1>2, <1>4, ActiveIsAlone, LocalSerial DEF NoteEffect

LEMMA DeadSerial ==
    ASSUME SerialInv, CallInv', NEW c \in Caller, FoundDead(c)
    PROVE  SerialInv'
<1> DEFINE j == caller[c].job
<1>1. CallInv /\ TypeOK /\ CallerOk(c)
  BY DEF SerialInv, CallInv
<1>2. /\ Moves(c) /\ caller[c].at = "probe" /\ caller'[c].at = "settle"
      /\ caller[c].copy.pid => ~Live(j)
      /\ caller'[c].asks = caller[c].asks /\ caller'[c].job = j /\ caller'[c].todo = caller[c].todo
      /\ caller'[c].copy.status = "INTERRUPTED" /\ caller'[c].copy.pid = caller[c].copy.pid
      /\ caller'[c].busy = caller[c].busy /\ caller'[c].blind = caller[c].blind
  BY <1>1, DeadFacts
<1>3. UNCHANGED files /\ UNCHANGED process
  BY DEF FoundDead
<1>4. Truth(caller[c].copy, reached[j], worker[j]) /\ Readable(caller[c].copy)
  BY <1>1, <1>2 DEF CallerOk, CopyOk, Holds, Readable, Probed, ACTIVE
<1>5. worker[j] \notin Working /\ (worker[j] # "none" => caller[c].copy.pid)
  BY <1>2, <1>4 DEF Truth, HasPid, Live, Working, WorkerWrites, LastWrite
<1>6. Truth(caller'[c].copy, reached'[j], worker'[j])
  BY <1>2, <1>3, <1>5 DEF Truth, Fits, HasPid, Verdict, process
<1>7. CopyOk(c)'
  BY <1>2, <1>6 DEF CopyOk
<1>8. StartOk(c)'
  BY <1>1, <1>2, <1>3 DEF CallerOk, StartOk, AtWork, process, Launching
<1>9. CallerOk(c)'
  BY <1>2, <1>7, <1>8 DEF CallerOk, Launching
<1> QED
  BY <1>2, <1>3, <1>9, ActiveIsAlone, LocalSerial

LEMMA RetrySerial ==
    ASSUME SerialInv, CallInv', NEW c \in Caller, Retry(c)
    PROVE  SerialInv'
<1>1. CallInv /\ TypeOK
  BY DEF SerialInv, CallInv
<1>2. /\ Moves(c) /\ caller[c].at = "read" /\ caller'[c].at = "read"
      /\ caller'[c].asks = "start" /\ caller'[c].todo = Known
  BY <1>1, RetryFacts
<1>3. UNCHANGED files /\ UNCHANGED process
  BY DEF Retry
<1>4. \A j \in Job : AtWork(j)' => j \in Known
  BY <1>3, AtWorkFacts DEF AtWork, process
<1>5. CallerOk(c)'
  BY <1>2, <1>4 DEF CallerOk, CopyOk, StartOk, Holds, CallWrites, Launching
<1> QED
  BY <1>2, <1>3, <1>5, ActiveIsAlone, LocalSerial

LEMMA QueueSerial ==
    ASSUME SerialInv, CallInv', NEW c \in Caller, Queue(c)
    PROVE  SerialInv'
<1>1. CallInv /\ TypeOK /\ CallerOk(c)
  BY DEF SerialInv, CallInv
<1>2. /\ Moves(c) /\ Reconciled(c, "start") /\ ~caller[c].busy
      /\ caller'[c].at = "queue" /\ caller'[c].asks = "start" /\ caller'[c].job \in Job \ Begun
      /\ caller'[c].copy = Queued /\ caller'[c].blind = caller[c].blind
  BY <1>1, QueueFacts
<1> DEFINE j == caller'[c].job
<1>3. UNCHANGED files /\ UNCHANGED process /\ caller[c].at = "read"
  BY <1>2 DEF Queue, Reconciled
<1>4. state[j] = NoFile /\ worker[j] = "none" /\ pen[c] = "shut"
  BY <1>1, <1>2, <1>3, PenFacts DEF Begun, Known, CallInv, LateOk, CallWrites
<1>5. CopyOk(c)'
  <2>1. Truth(Queued, reached[j], worker[j])
    BY <1>4, ContentFacts DEF Truth, Fits, HasPid, Verdict
  <2> QED
    BY <1>2, <1>3, <1>4, <2>1 DEF CopyOk, files, process
<1>6. StartOk(c)'
  BY <1>1, <1>2, <1>3 DEF CallerOk, StartOk, Reconciled, AtWork, process, Launching
<1>7. CallerOk(c)'
  BY <1>2, <1>5, <1>6 DEF CallerOk
<1> QED
  BY <1>2, <1>3, <1>7, ActiveIsAlone, LocalSerial

LEMMA FailsSerial ==
    ASSUME SerialInv, CallInv', NEW c \in Caller, PopenFails(c)
    PROVE  SerialInv'
<1> DEFINE j == caller[c].job
<1>1. CallInv /\ TypeOK /\ LocalOk(c)
  BY DEF SerialInv, CallInv
<1>2. /\ Moves(c) /\ caller[c].at = "popen" /\ caller'[c].at = "fail"
      /\ caller'[c].job = j /\ caller'[c].copy = Failed
  BY <1>1, FailsFacts
<1>3. UNCHANGED files /\ UNCHANGED process
  BY DEF PopenFails
<1>4. worker[j] = "none"
  BY <1>1, <1>2 DEF LocalOk, Launching
<1>5. Truth(Failed, reached'[j], worker'[j])
  BY <1>3, <1>4, ContentFacts DEF Truth, Fits, HasPid, process
<1>6. CallerOk(c)'
  BY <1>2, <1>5 DEF CallerOk, CopyOk, StartOk, Launching
<1> QED
  BY <1>2, <1>3, <1>6, ActiveIsAlone, LocalSerial

LEMMA RereadSerial ==
    ASSUME SerialInv, CallInv', NEW c \in Caller, Reread(c)
    PROVE  SerialInv'
<1> DEFINE j == caller[c].job
<1>1. CallInv /\ TypeOK /\ j \in Job /\ FileOk(j)
  BY TypeFacts DEF SerialInv, CallInv
<1>2. /\ Moves(c) /\ caller[c].at = "reread" /\ caller'[c].at = "pid" /\ caller'[c].job = j
      /\ caller'[c].copy.pid /\ caller'[c].copy.status \in {"QUEUED", state[j].status}
  BY <1>1, RereadFacts
<1>3. UNCHANGED files /\ UNCHANGED process
  BY DEF Reread
<1>4. Truth(caller'[c].copy, reached'[j], worker'[j])
  BY <1>1, <1>2, <1>3 DEF FileOk, Truth, Fits, HasPid, Verdict, process
<1>5. CallerOk(c)'
  BY <1>2, <1>4 DEF CallerOk, CopyOk, StartOk, Launching
<1> QED
  BY <1>2, <1>3, <1>5, ActiveIsAlone, LocalSerial

LEMMA FlagSerial ==
    ASSUME SerialInv, CallInv', NEW c \in Caller, Flag(c)
    PROVE  SerialInv'
<1> DEFINE j == caller[c].job
<1>1. CallInv /\ TypeOK /\ CallerOk(c)
  BY DEF SerialInv, CallInv
<1>2. /\ Moves(c) /\ Reconciled(c, "cancel") /\ caller'[c].at = "request"
      /\ caller[c].copy.status \in ACTIVE /\ caller'[c].job = j
      /\ caller'[c].copy.status = "CANCEL_REQUESTED" /\ caller'[c].copy.pid = caller[c].copy.pid
  BY <1>1, FlagFacts
<1>3. UNCHANGED files /\ UNCHANGED process /\ caller[c].at = "read"
  BY <1>2 DEF Flag, Reconciled
<1>4. Truth(caller[c].copy, reached[j], worker[j])
  BY <1>1, <1>2 DEF CallerOk, CopyOk, Holds, Reconciled
<1>5. Truth(caller'[c].copy, reached'[j], worker'[j])
  BY <1>2, <1>3, <1>4 DEF Truth, Fits, HasPid, Readable, Verdict, process
<1>6. CallerOk(c)'
  <2>1. caller'[c].at = "request" /\ caller'[c].asks # "start"
    BY <1>1, <1>2, FlagFacts DEF Reconciled
  <2> QED
    BY <1>2, <1>5, <2>1 DEF CallerOk, CopyOk, StartOk, Launching
<1> QED
  BY <1>2, <1>3, <1>6, ActiveIsAlone, LocalSerial

LEMMA WriteSerial ==
    ASSUME SerialInv, CallInv', NEW c \in Caller, Open(c) \/ Overwrite(c)
    PROVE  SerialInv'
<1>1. CallInv /\ TypeOK /\ CallerOk(c) /\ LocalOk(c) /\ c \in Writer /\ FileOf(c) = caller[c].job
  BY TypeFacts DEF SerialInv, CallInv
<1>2. UNCHANGED process /\ UNCHANGED caller /\ FileMove(c) /\ Writes(c)
  BY <1>1, OpenMoves, OverwriteMoves DEF Open, Overwrite, CallInv
<1>3. caller[c].at \in CallWrites
  BY <1>1, <1>2, TypeFacts DEF Writes
<1>4. Moves(c)
  BY <1>1, <1>2, TypeFacts DEF Moves, Only
<1>5. (pen'[c] = "temp" /\ state' = state) \/ pen[c] = "state"
  BY <1>1, OpenMoves DEF Overwrite
<1>6. \A j \in Job : Awaits(c, j) => Awaits(c, j)'
  BY <1>2, <1>3, <1>5 DEF Awaits, CallWrites
<1>7. CopyOk(c)'
  <2>1. caller[c].at = "queue" => pen'[c] = "temp" /\ state' = state
    BY <1>1, <1>5 DEF CallerOk, CopyOk
  <2>2. caller[c].at # "popen" /\ caller[c].at # "probe"
    BY <1>3 DEF CallWrites
  <2>3. Holds(c)' => Holds(c)
    BY <1>2 DEF Holds
  <2> QED
    BY <1>1, <1>2, <2>1, <2>2, <2>3 DEF CopyOk, CallerOk, process
<1>8. CallerOk(c)'
  BY <1>1, <1>2, <1>7 DEF CallerOk, StartOk, AtWork, process
<1>9. caller[c].at # "idle"
  BY <1>3 DEF CallWrites
<1> QED
  BY <1>2, <1>4, <1>6, <1>8, <1>9, ActiveIsAlone, CallerSerial

LEMMA WroteSerial ==
    ASSUME SerialInv, CallInv', NEW c \in Caller, Wrote(c)
    PROVE  SerialInv'
<1> DEFINE j == caller[c].job
<1>1. CallInv /\ TypeOK /\ CallerOk(c) /\ LocalOk(c) /\ c \in Writer /\ FileOf(c) = j /\ j \in Job
  BY TypeFacts DEF SerialInv, CallInv
<1>2. /\ UNCHANGED process /\ FileMove(c) /\ Renewed(j) /\ pen[c] # "shut"
      /\ Rename(c)
  BY <1>1, RenameMoves DEF Wrote
<1>3. caller[c].at \in CallWrites /\ caller[c].at # "idle"
  BY <1>1, <1>2, TypeFacts DEF CallInv, Writes, CallWrites
<1>4. ASSUME NEW i \in Job, Awaits(c, i) PROVE HasPid(state'[i], worker[i])
  BY <1>2, <1>4, RenewedIsTrue DEF Awaits, Truth
<1>5. CASE caller[c].at = "settle"
  <2>1. NoteEffect(c)
    BY <1>1, <1>5, NoteFacts DEF Wrote
  <2>2. ~AtWork(j)
    <3>1. Fits(caller[c].copy, reached[j], worker[j]) /\ caller[c].copy.status = "INTERRUPTED"
      BY <1>1, <1>5 DEF CallerOk, CopyOk, Holds, CallWrites, Truth
    <3> QED
      BY <3>1 DEF Fits, AtWork
  <2>3. CallerOk(c)'
    BY <1>2, <1>5, <2>1, <2>2, NoteSerial
  <2> QED
    BY <1>2, <1>3, <1>4, <2>1, <2>3, ActiveIsAlone, CallerSerial DEF NoteEffect
<1>6. CASE caller[c].at = "queue"
  <2>1. Goto(c, "popen") /\ "popen" \in Place
    BY <1>6 DEF Wrote, Place
  <2>2. /\ Moves(c) /\ caller'[c].at = "popen" /\ caller'[c].job = j
        /\ caller'[c].asks = caller[c].asks /\ caller'[c].blind = caller[c].blind
    BY <1>1, <2>1, GotoFacts
  <2>3. state'[j] = Queued
    <3>1. worker[j] = "none" /\ FileOk(j) /\ stray[j] = NoFile
      BY <1>1, <1>6 DEF LocalOk, Launching, SerialInv, FileOk
    <3>2. ASSUME NEW v \in Writer \ {c}, pen[v] # "shut" PROVE FileOf(v) # j
      <4>1. Writes(v)
        BY <1>1, <3>2 DEF CallInv
      <4>2. v \in Job => v # j
        BY <3>1, <4>1 DEF Writes, WorkerWrites, LastWrite
      <4>3. v \notin Caller
        BY <1>1, <1>3, <3>2, <4>1, ActiveIsAlone, TypeFacts DEF Writes, Alone, CallWrites
      <4> QED
        BY <1>1, <4>2, <4>3, TypeFacts DEF Writer
    <3>3. Others(c, "temp") = {}
      BY <1>1, <3>2 DEF Others
    <3>4. pen[c] = "temp" /\ Text(c) = Queued
      BY <1>1, <1>2, <1>6, TypeFacts DEF CallerOk, CopyOk, Text
    <3>5. InTemp(c, {}) = {Queued}
      BY <1>1, <3>1, <3>3, <3>4 DEF InTemp
    <3>6. \E s \in InTemp(c, {}) : state' = [state EXCEPT ![j] = s]
      BY <1>1, <1>2, <3>3 DEF Rename
    <3> QED
      BY <1>1, <3>5, <3>6 DEF TypeOK
  <2>4. CallerOk(c)'
    BY <1>1, <1>2, <1>6, <2>2, <2>3
       DEF CallerOk, CopyOk, StartOk, Holds, CallWrites, Launching, AtWork, process
  <2> QED
    BY <1>2, <1>3, <1>4, <2>2, <2>4, ActiveIsAlone, CallerSerial
<1>7. CASE caller[c].at \notin {"settle", "queue"}
  <2>1. Return(c)
    BY <1>7 DEF Wrote
  <2> QED
    BY <1>1, <1>2, <1>3, <2>1, ReturnSerial
<1> QED
  BY <1>5, <1>6, <1>7

LEMMA PopenSerial ==
    ASSUME SerialInv, CallInv', NEW c \in Caller, Popen(c)
    PROVE  SerialInv'
<1> DEFINE j == caller[c].job
<1>1. CallInv /\ TypeOK /\ CallerOk(c) /\ LocalOk(c) /\ j \in Job
  BY TypeFacts DEF SerialInv, CallInv
<1>2. /\ caller[c].at = "popen" /\ worker' = [worker EXCEPT ![j] = "boot"] /\ Goto(c, "reread")
      /\ UNCHANGED <<state, pen, stray, reached>>
  BY DEF Popen, WorkerGoto, files
<1>3. worker[j] = "none" /\ state[j] = Queued
  BY <1>1, <1>2 DEF LocalOk, CallerOk, CopyOk, Launching
<1>4. Moves(c) /\ caller'[c].at = "reread" /\ caller'[c].job = j
  <2>1. "reread" \in Place
    BY DEF Place
  <2> QED
    BY <1>1, <1>2, <2>1, GotoFacts
<1>5. \A d \in Caller \ {c} : caller'[d] = caller[d] /\ caller'[d].at = "idle"
  BY <1>2, <1>4, ActiveIsAlone DEF Moves, Only, Alone
<1>6. ASSUME NEW d \in Caller PROVE CallerOk(d)'
  <2>1. caller'[d].at \in {"reread", "idle"}
    BY <1>4, <1>5
  <2> QED
    BY <2>1 DEF CallerOk, CopyOk, StartOk, Holds, CallWrites, Launching
<1>7. ASSUME NEW i \in Job PROVE FileOk(i)'
  <2>1. FileOk(i)
    BY DEF SerialInv
  <2>2. CASE i = j
    <3>1. worker'[i] = "boot" /\ reached[i] = {} /\ stray[i] = NoFile
      BY <1>1, <1>2, <1>3, <2>1, <2>2 DEF FileOk, TypeOK
    <3>2. Awaits(c, i)'
      BY <1>4, <2>2 DEF Awaits
    <3>3. Fits(Queued, reached[i], "boot") /\ Truth(NoFile, reached[i], "boot")
      BY ContentFacts, TornIsTrue DEF Fits, Verdict
    <3> QED
      BY <1>2, <1>3, <2>2, <3>1, <3>2, <3>3 DEF FileOk, LastWrite
  <2>3. CASE i # j
    <3>1. worker'[i] = worker[i]
      BY <1>1, <1>2, <2>3 DEF TypeOK
    <3>2. ~\E d \in Caller : Awaits(d, i)
      BY <1>2, ActiveIsAlone DEF Awaits, Alone
    <3> QED
      BY <1>2, <2>1, <3>1, <3>2 DEF FileOk, AtWork
  <2> QED
    BY <2>2, <2>3
<1> QED
  BY <1>5, <1>6, <1>7 DEF SerialInv

LEMMA StepSerial ==
    ASSUME SerialInv, CallInv', NEW c \in Caller, CallStep(c) \/ (Break(c) /\ Serial)
    PROVE  SerialInv'
<1>1. CallInv /\ TypeOK /\ c \in Writer /\ FileOf(c) = caller[c].job
  BY TypeFacts DEF SerialInv, CallInv
<1>2. CASE EndPage(c) \/ Refuse(c)
  <2>1. caller[c].at = "read" /\ Return(c) /\ UNCHANGED files /\ UNCHANGED process
    BY <1>2 DEF EndPage, Refuse, Reconciled
  <2>2. FileMove(c)
    BY <1>1, <2>1, NoMove
  <2> QED
    BY <2>1, <2>2, ReturnSerial
<1>3. CASE WriteRaises(c)
  <2>1. FileMove(c) /\ pen[c] = "gone" /\ Return(c) /\ UNCHANGED process
    BY <1>1, <1>3, NothingMoves DEF WriteRaises
  <2>2. caller[c].at \in CallWrites
    BY <1>1, <2>1, TypeFacts DEF CallInv, Writes
  <2> QED
    BY <2>1, <2>2, ReturnSerial DEF CallWrites
<1>4. CASE Break(c) /\ Serial
  <2>1. FileMove(c) /\ Return(c) /\ UNCHANGED process
    BY <1>1, <1>4, DropMoves DEF Break
  <2>2. caller[c].at \in {"read", "probe", "settle", "queue", "popen"}
    BY <1>4 DEF Break, Serial
  <2> QED
    BY <2>1, <2>2, ReturnSerial
<1> QED
  BY <1>2, <1>3, <1>4, ReadSerial, AliveSerial, DeadSerial, RetrySerial, QueueSerial, PopenSerial,
     FailsSerial, RereadSerial, FlagSerial, WriteSerial, WroteSerial DEF CallStep

LEMMA SerialInit == Init => SerialInv
<1> SUFFICES ASSUME Init PROVE SerialInv
  OBVIOUS
<1>1. CallInv
  BY CallInit
<1>2. \A c \in Caller : caller[c].at = "idle"
  BY IdleFacts DEF Init
<1>3. ASSUME NEW j \in Job PROVE FileOk(j)
  <2>1. state[j] = NoFile /\ stray[j] = NoFile /\ worker[j] = "none" /\ reached[j] = {}
    BY DEF Init
  <2>2. Truth(NoFile, {}, "none")
    BY TornIsTrue
  <2> QED
    BY <2>1, <2>2 DEF FileOk, Truth, LastWrite
<1> QED
  BY <1>1, <1>2, <1>3, IdleIsOk DEF SerialInv

LEMMA SerialStays == SerialInv /\ Serial /\ [Next]_vars => SerialInv'
<1> SUFFICES ASSUME SerialInv, Serial, [Next]_vars PROVE SerialInv'
  OBVIOUS
<1>1. CallInv'
  BY CallStays DEF SerialInv
<1>2. ASSUME NEW c \in Caller, NEW request \in Request, NEW j \in Job, Call(c, request, j)
      PROVE  SerialInv'
  BY <1>1, <1>2, CallSerial DEF Serial
<1>3. ASSUME NEW c \in Caller, CallStep(c) \/ Break(c) PROVE SerialInv'
  BY <1>1, <1>3, StepSerial
<1>4. ASSUME NEW j \in Job, WorkerStep(j) \/ Kill(j) PROVE SerialInv'
  BY <1>1, <1>4, WorkerStepSerial
<1>5. CASE UNCHANGED vars
  <2>1. UNCHANGED <<state, pen, stray, worker, reached, caller>>
    BY <1>5 DEF vars, files, process
  <2>2. ASSUME NEW c \in Caller PROVE CallerOk(c)'
    BY <2>1 DEF SerialInv, CallerOk, CopyOk, StartOk, Holds, AtWork
  <2>3. ASSUME NEW j \in Job PROVE FileOk(j)'
    BY <2>1 DEF SerialInv, FileOk, Awaits, AtWork
  <2> QED
    BY <1>1, <2>1, <2>2, <2>3 DEF SerialInv
<1> QED
  BY <1>2, <1>3, <1>4, <1>5 DEF Next

LEMMA SerialAlways == Spec /\ Serial => []SerialInv
<1> SUFFICES ASSUME Serial PROVE Spec => []SerialInv
  OBVIOUS
<1>1. SerialInv /\ [Next]_vars => SerialInv'
  BY SerialStays
<1> QED
  BY <1>1, SerialInit, PTL DEF Spec

\* When calls do not overlap and a starter completes once it has launched the worker, no
\* worker is launched beside one that is at work by a start that could read all files.
THEOREM SoleJob == Spec /\ Serial => StartsAlone
<1>1. ASSUME SerialInv, NEW c \in Caller, Popen(c)
      PROVE  caller[c].blind \/ \A j \in Job : ~AtWork(j)
  <2>1. caller[c].at = "popen" /\ CallerOk(c)
    BY <1>1 DEF Popen, SerialInv
  <2> QED
    BY <2>1 DEF CallerOk, StartOk, Launching
<1>2. SerialInv => [\A c \in Caller : Popen(c) => caller[c].blind \/ \A j \in Job : ~AtWork(j)]_vars
  BY <1>1
<1> QED
  BY <1>2, SerialAlways, PTL DEF StartsAlone

\* Under the same assumptions, also after a start that could not read all files: the file
\* of a job whose worker is at work exists and does not say that the job is over.
THEOREM RunningIsNotOver == Spec /\ Serial => []RunningJobIsNotOver
<1>1. SerialInv => RunningJobIsNotOver
  BY AtWorkFacts DEF RunningJobIsNotOver, Readable, Status, ACTIVE, TERMINAL
<1> QED
  BY <1>1, SerialAlways, PTL

\* Under the same assumptions a verdict in a job's file is one its worker has come to.
THEOREM ShownIsReal == Spec /\ Serial => []ShownResultIsReal
<1>1. SerialInv => ShownResultIsReal
  BY DEF SerialInv, FileOk, Fits, ShownResultIsReal, Status, Verdict
<1> QED
  BY <1>1, SerialAlways, PTL
=============================================================================
