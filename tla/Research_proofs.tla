----------------------------- MODULE Research_proofs -----------------------------
(***************************************************************************)
(* Proofs about the research side: ExperimentRegistry, for any programs,   *)
(* ids and replays (a hold-out is used once, a finished run keeps its row, *)
(* readiness is lost only by a repeated calibration), and MarketReplay,    *)
(* for any symbols, candles, cap, checkpoint interval and number of        *)
(* launches (a resumed replay repeats no decision and loses none but by a  *)
(* torn checkpoint).                                                       *)
(***************************************************************************)
EXTENDS ExperimentRegistry, MarketReplay, FiniteSetTheorems, TLAPS

USE RegistryAssumption, NoRowAssumption DEF RegistryAssumption

Registered == {"claim", "evaluate", "complete", "fail", "block"}
OwnIds(p) == IF p \in Calibration THEN {p} ELSE Id

LEMMA PlaceFacts ==
    /\ Registered \subseteq Place
    /\ {"idle", "over"} \cap Registered = {}
    /\ DOMAIN StatusAt \subseteq Registered
    /\ \A place \in DOMAIN StatusAt : StatusAt[place] \in {"COMPLETED", "FAILED", "BLOCKED"}
  BY DEF Registered, Place, StatusAt

LEMMA LocalFacts ==
    /\ Fresh \in Locals /\ Fresh.at = "idle"
    /\ Over \in Locals /\ Over.at = "over"
    /\ \A k \in Locals, place \in Place :
           /\ [k EXCEPT !.at = place] \in Locals
           /\ [k EXCEPT !.at = place].at = place
           /\ [k EXCEPT !.at = place].id = k.id
           /\ [k EXCEPT !.at = place].data = k.data
  BY DEF Fresh, Over, Locals, Place, Data

\* A program under way has an id of its own; once it has registered, the row of
\* that id is its own and RUNNING, so no two share one.
RowInv ==
    /\ TypeOK
    /\ \A p \in Run : run[p].at \notin {"idle", "over"} => run[p].id \in OwnIds(p)
    /\ \A c \in Calibration : run[c].at \in {"idle", "insert"} => runRows[c] = NoRow
    /\ \A p \in Run : run[p].at \in Registered =>
           runRows[run[p].id] \in RegistryRow /\ runRows[run[p].id].status = "RUNNING"
    /\ \A p, q \in Run : run[p].at \in Registered /\ run[q].at \in Registered /\ run[p].id = run[q].id
                         => p = q

\* What a step leaves of the programs other than p, and of the rows other than i.
Only(p) == \A q \in Run \ {p} : run'[q] = run[q]
OnlyRow(i) == \A j \in RowId \ {i} : runRows'[j] = runRows[j]

LEMMA GotoFacts ==
    ASSUME TypeOK, NEW p \in Run, NEW place \in Place, Goto(p, place)
    PROVE  /\ run' \in [Run -> Locals] /\ Only(p)
           /\ run'[p].at = place /\ run'[p].id = run[p].id /\ run'[p].data = run[p].data
<1>1. run[p] \in Locals /\ run' = [run EXCEPT ![p] = [@ EXCEPT !.at = place]]
  BY DEF TypeOK, Goto
<1>2. run' = [q \in Run |-> IF q = p THEN [run[p] EXCEPT !.at = place] ELSE run[q]]
  BY <1>1 DEF TypeOK
<1> QED
  BY <1>1, <1>2, LocalFacts DEF TypeOK, Only

LEMMA EndFacts ==
    ASSUME TypeOK, NEW p \in Run, End(p)
    PROVE  run' \in [Run -> Locals] /\ Only(p) /\ run'[p].at = "over"
  BY LocalFacts DEF TypeOK, End, Only

LEMMA KeyFacts == ASSUME TypeOK, NEW p \in Run PROVE KeyOf(p) \in Key
  BY DEF TypeOK, Locals, KeyOf, Key, Family, Kinds

\* A program that is registered knows its row; nothing else is said of a step
\* that moves one program and touches no row.
LEMMA QuietStep ==
    ASSUME RowInv, NEW p \in Run, UNCHANGED runRows, Only(p), TypeOK',
           \/ run'[p].at = "over" /\ run[p].at # "idle"
           \/ run'[p].at \in Registered /\ run[p].at \in Registered /\ run'[p].id = run[p].id
    PROVE  RowInv'
<1>1. \A q \in Run : /\ run'[q].at \notin {"idle", "over"} => run[q].at \notin {"idle", "over"}
                     /\ run'[q].at \in Registered => run[q].at \in Registered
                     /\ run'[q].at \in {"idle", "insert"} => run[q].at \in {"idle", "insert"}
                     /\ run'[q].at # "over" => run'[q].id = run[q].id
  BY DEF Only, Registered
<1>2. \A q \in Run : run'[q].at \notin {"idle", "over"} => run'[q].id \in OwnIds(q)
  BY <1>1 DEF RowInv
<1>3. \A c \in Calibration : run'[c].at \in {"idle", "insert"} => runRows'[c] = NoRow
  BY <1>1 DEF RowInv, Run
<1>4. \A q \in Run : run'[q].at \in Registered => run[q].at \in Registered /\ run'[q].id = run[q].id
  BY <1>1, PlaceFacts
<1>5. \A q \in Run : run'[q].at \in Registered =>
          runRows'[run'[q].id] \in RegistryRow /\ runRows'[run'[q].id].status = "RUNNING"
  BY <1>4 DEF RowInv
<1>6. \A q, r \in Run : run'[q].at \in Registered /\ run'[r].at \in Registered
                          /\ run'[q].id = run'[r].id => q = r
  BY <1>4 DEF RowInv
<1> QED
  BY <1>2, <1>3, <1>5, <1>6 DEF RowInv

LEMMA RowIsKept == Spec => []RowInv
<1>1. Init => RowInv
  <2> SUFFICES ASSUME Init PROVE RowInv
    OBVIOUS
  <2>1. TypeOK
    BY LocalFacts DEF Init, TypeOK, Data
  <2>2. \A p \in Run : run[p].at = "idle"
    BY LocalFacts DEF Init
  <2>3. \A c \in Calibration : runRows[c] = NoRow
    BY DEF Init, RowId
  <2> QED
    BY <2>1, <2>2, <2>3 DEF RowInv, Registered
<1>2. RowInv /\ [Next]_vars => RowInv'
  <2> SUFFICES ASSUME RowInv, [Next]_vars PROVE RowInv'
    OBVIOUS
  <2>0. TypeOK
    BY DEF RowInv
  <2>1. CASE Replay
    <3>1. replay' \in [run : Data, data : Data]
      <4>1. PICK d \in {replay.data, replay.run + 1} :
                replay' = [run |-> replay.run + 1, data |-> d]
        BY <2>1 DEF Replay
      <4>2. replay.run + 1 \in Data /\ replay.data \in Data
        BY <2>0, <2>1 DEF Replay, TypeOK, Data
      <4> QED
        BY <4>1, <4>2
    <3> QED
      BY <2>1, <3>1 DEF Replay, RowInv, TypeOK
  <2>2. ASSUME NEW p \in Run, NEW i \in RowId, NEW d \in Data, Begin(p, i, d), i \in OwnIds(p)
        PROVE RowInv'
    <3> DEFINE new == [at |-> "insert", id |-> i, data |-> d, parent |-> replay.run, started |-> clock + 1]
    <3>1. new \in Locals /\ new.at = "insert" /\ new.id = i
      BY <2>0, <2>2 DEF Begin, TypeOK, Locals, Place
    <3> HIDE DEF new
    <3>2. run' = [run EXCEPT ![p] = new]
      BY <2>2 DEF Begin, new
    <3>3. run'[p] = new /\ Only(p) /\ run' \in [Run -> Locals] /\ run[p].at = "idle"
      BY <2>0, <2>2, <3>1, <3>2 DEF TypeOK, Only, Begin, At
    <3>4. TypeOK'
      BY <2>0, <2>2, <3>3 DEF Begin, TypeOK
    <3> QED
      BY <2>2, <3>1, <3>3, <3>4 DEF Begin, RowInv, Only, Registered
  <2>3. ASSUME NEW c \in Calibration, BeginCalibration(c) PROVE RowInv'
    BY <2>0, <2>2, <2>3 DEF BeginCalibration, Run, RowId, OwnIds, TypeOK
  <2>4. ASSUME NEW h \in Challenger, NEW i \in Id, BeginChallenger(h, i) PROVE RowInv'
    BY <2>0, <2>2, <2>4 DEF BeginChallenger, Run, RowId, OwnIds, TypeOK
  <2>5. ASSUME NEW p \in Run, StartRun(p) PROVE RowInv'
    <3> DEFINE new == [kind |-> Family(p), status |-> "RUNNING",
                       parent |-> IF p \in Calibration THEN run[p].parent ELSE 0,
                       started |-> run[p].started]
               i == run[p].id
    <3>1. new \in RegistryRow /\ new.status = "RUNNING"
      BY <2>0 DEF TypeOK, Locals, RegistryRow, Family, Kinds, Data
    <3> HIDE DEF new
    <3>2. run[p].at = "insert" /\ i \in OwnIds(p) /\ i \in RowId
      BY <2>5 DEF StartRun, At, RowInv, OwnIds, RowId, Run
    <3>3. runRows' = [runRows EXCEPT ![i] = new]
      BY <2>5 DEF StartRun, new
    <3>4. runRows'[i] = new /\ OnlyRow(i) /\ runRows' \in [RowId -> RegistryRow \cup {NoRow}]
      BY <2>0, <3>1, <3>2, <3>3 DEF TypeOK, OnlyRow
    <3>5. PICK place \in Registered : Goto(p, place)
      BY <2>5 DEF StartRun, Registered
    <3>6. run' \in [Run -> Locals] /\ Only(p) /\ run'[p].at \in Registered /\ run'[p].id = i
      BY <2>0, <3>5, GotoFacts, PlaceFacts
    <3>7. TypeOK'
      BY <2>0, <2>5, <3>4, <3>6 DEF StartRun, TypeOK
    <3>8. runRows[i] = NoRow
      BY <2>5, <3>2 DEF StartRun, MayInsert, OwnIds, RowInv
    <3>9. ASSUME NEW q \in Run \ {p}, run[q].at \in Registered PROVE run[q].id # i
      BY <3>8, <3>9 DEF RowInv
    <3>10. \A c \in Calibration : run'[c].at \in {"idle", "insert"} => runRows'[c] = NoRow
      <4> SUFFICES ASSUME NEW c \in Calibration, run'[c].at \in {"idle", "insert"}
                   PROVE runRows'[c] = NoRow
        OBVIOUS
      <4>1. c # p /\ run'[c] = run[c] /\ c \in Run
        BY <3>6 DEF Only, Registered, Run
      <4>2. c # i
        BY <3>2, <4>1 DEF OwnIds
      <4> QED
        BY <3>4, <4>1, <4>2 DEF RowInv, OnlyRow, RowId
    <3>11. \A q \in Run : run'[q].at \in Registered =>
               runRows'[run'[q].id] \in RegistryRow /\ runRows'[run'[q].id].status = "RUNNING"
      <4> SUFFICES ASSUME NEW q \in Run \ {p}, run[q].at \in Registered
                   PROVE runRows'[run[q].id] \in RegistryRow /\ runRows'[run[q].id].status = "RUNNING"
        BY <3>1, <3>4, <3>6 DEF Only
      <4>1. run[q].id # i /\ run[q].id \in RowId
        BY <3>9, PlaceFacts DEF RowInv, OwnIds, RowId, Run, Registered
      <4> QED
        BY <3>4, <4>1 DEF RowInv, OnlyRow
    <3> QED
      BY <3>2, <3>6, <3>7, <3>9, <3>10, <3>11 DEF RowInv, Only
  <2>6. ASSUME NEW p \in Run, StartRefused(p) \/ Die(p) PROVE RowInv'
    <3>1. TypeOK' /\ Only(p) /\ run'[p].at = "over"
      BY <2>0, <2>6, EndFacts DEF StartRefused, Die, TypeOK
    <3> QED
      BY <2>6, <3>1, QuietStep DEF StartRefused, Die, At
  <2>7. ASSUME NEW p \in Run, Claim(p) \/ ClaimRefused(p) \/ Evaluate(p) PROVE RowInv'
    <3>1. PICK place \in Registered : Goto(p, place)
      BY <2>7 DEF Claim, ClaimRefused, Evaluate, Registered
    <3>2. run' \in [Run -> Locals] /\ Only(p) /\ run'[p].at \in Registered /\ run'[p].id = run[p].id
      BY <2>0, <3>1, GotoFacts, PlaceFacts
    <3>3. claims' \subseteq Key \X Run /\ looked' \subseteq Key \X Run
      BY <2>0, <2>7, KeyFacts DEF Claim, ClaimRefused, Evaluate, TypeOK
    <3>4. TypeOK'
      BY <2>0, <2>7, <3>2, <3>3 DEF Claim, ClaimRefused, Evaluate, TypeOK
    <3> QED
      BY <2>7, <3>2, <3>4, QuietStep DEF Claim, ClaimRefused, Evaluate, At, Registered
  <2>8. ASSUME NEW p \in Run, FinishRun(p) PROVE RowInv'
    <3> DEFINE i == run[p].id
               new == [runRows[i] EXCEPT !.status = StatusAt[run[p].at]]
    <3>1. run[p].at \in Registered /\ i \in RowId /\ runRows[i] \in RegistryRow
      BY <2>8, PlaceFacts DEF FinishRun, RowInv, OwnIds, RowId, Run, Registered
    <3>2. StatusAt[run[p].at] \in {"COMPLETED", "FAILED", "BLOCKED"}
      BY <2>8, PlaceFacts DEF FinishRun
    <3>3. new \in RegistryRow
      BY <3>1, <3>2 DEF RegistryRow
    <3>4. runRows' = [runRows EXCEPT ![i] = new]
      BY <2>8 DEF FinishRun
    <3> HIDE DEF new
    <3>5. OnlyRow(i) /\ runRows' \in [RowId -> RegistryRow \cup {NoRow}]
      BY <2>0, <3>1, <3>3, <3>4 DEF TypeOK, OnlyRow
    <3>6. run' \in [Run -> Locals] /\ Only(p) /\ run'[p].at = "over"
      BY <2>0, <2>8, EndFacts DEF FinishRun
    <3>7. TypeOK'
      BY <2>0, <2>8, <3>5, <3>6 DEF FinishRun, TypeOK
    <3>8. \A c \in Calibration : run'[c].at \in {"idle", "insert"} => runRows'[c] = NoRow
      <4> SUFFICES ASSUME NEW c \in Calibration, run'[c].at \in {"idle", "insert"}
                   PROVE runRows'[c] = NoRow
        OBVIOUS
      <4>1. c # p /\ run'[c] = run[c] /\ c \in Run /\ c \in RowId
        BY <3>6 DEF Only, Run, RowId
      <4>2. c # i
        BY <3>1, <4>1 DEF RowInv, OwnIds, Registered
      <4> QED
        BY <3>5, <4>1, <4>2 DEF RowInv, OnlyRow
    <3>9. \A q \in Run : run'[q].at \in Registered =>
              runRows'[run'[q].id] \in RegistryRow /\ runRows'[run'[q].id].status = "RUNNING"
      <4> SUFFICES ASSUME NEW q \in Run \ {p}, run[q].at \in Registered
                   PROVE runRows'[run[q].id] \in RegistryRow /\ runRows'[run[q].id].status = "RUNNING"
        BY <3>6 DEF Only, Registered
      <4>1. run[q].id # i /\ run[q].id \in RowId
        BY <3>1, PlaceFacts DEF RowInv, OwnIds, RowId, Run, Registered
      <4> QED
        BY <3>5, <4>1 DEF RowInv, OnlyRow
    <3> QED
      BY <3>6, <3>7, <3>8, <3>9 DEF RowInv, Only, Registered
  <2>9. CASE UNCHANGED vars
    BY <2>9 DEF vars, RowInv, TypeOK
  <2> QED
    BY <2>1, <2>3, <2>4, <2>5, <2>6, <2>7, <2>8, <2>9 DEF Next, Step
<1> QED
  BY <1>1, <1>2, PTL DEF Spec

\* Every variable keeps its type.
THEOREM TypeCorrect == Spec => []TypeOK
  BY RowIsKept, PTL DEF RowInv
\* A finished run keeps its row for good, whatever is started under its id.
THEOREM FinishedStays == Spec => FinishedRunStays
<1>1. RowInv /\ [Next]_vars => \A i \in RowId : Finished(i) => runRows'[i] = runRows[i]
  <2> SUFFICES ASSUME RowInv, [Next]_vars, NEW i \in RowId, Finished(i) PROVE runRows'[i] = runRows[i]
    OBVIOUS
  <2>1. ASSUME NEW p \in Run, StartRun(p) PROVE runRows'[i] = runRows[i]
    <3>1. runRows[run[p].id] = NoRow
      BY <2>1 DEF StartRun, MayInsert, At, RowInv, OwnIds
    <3> QED
      BY <2>1, <3>1 DEF StartRun, Finished, RowInv, TypeOK
  <2>2. ASSUME NEW p \in Run, FinishRun(p) PROVE runRows'[i] = runRows[i]
    <3>1. runRows[run[p].id].status = "RUNNING"
      BY <2>2, PlaceFacts DEF FinishRun, RowInv
    <3> QED
      BY <2>2, <3>1 DEF FinishRun, Finished, RowInv, TypeOK
  <2>3. CASE UNCHANGED runRows
    BY <2>3
  <2> QED
    BY <2>1, <2>2, <2>3 DEF Next, Step, vars, Replay, BeginCalibration, BeginChallenger, Begin,
       StartRefused, Claim, ClaimRefused, Evaluate, Die
<1> QED
  BY <1>1, RowIsKept, PTL DEF Spec, FinishedRunStays

-----------------------------------------------------------------------------
(* A hold-out is used once. *)

\* Claims are unique by their key, and whoever must claim looks only at what it
\* has claimed.
ClaimInv ==
    /\ \A c, d \in claims : c[1] = d[1] => c = d
    /\ \A p \in MustClaim : run[p].at = "evaluate" => <<KeyOf(p), p>> \in claims
    /\ \A p \in MustClaim, k \in Key : <<k, p>> \in looked => <<k, p>> \in claims

\* A step that claims nothing, looks at nothing and sends nobody to evaluate.
LEMMA IdleStep ==
    ASSUME ClaimInv, UNCHANGED <<claims, looked>>,
           \A p \in MustClaim : run'[p].at = "evaluate" => run'[p] = run[p]
    PROVE  ClaimInv'
  BY DEF ClaimInv, KeyOf, Family

LEMMA ClaimIsKept == Spec => []ClaimInv
<1>1. Init => ClaimInv
  <2> SUFFICES ASSUME Init PROVE ClaimInv
    OBVIOUS
  <2>1. \A p \in MustClaim : run[p].at = "idle"
    BY LocalFacts DEF Init, MustClaim, Run
  <2> QED
    BY <2>1 DEF Init, ClaimInv
<1>2. RowInv /\ ClaimInv /\ [Next]_vars => ClaimInv'
  <2> SUFFICES ASSUME RowInv, ClaimInv, [Next]_vars PROVE ClaimInv'
    OBVIOUS
  <2>0. TypeOK /\ MustClaim \subseteq Run
    BY DEF RowInv, MustClaim, Run
  <2>1. CASE Replay
    BY <2>1, IdleStep DEF Replay
  <2>2. ASSUME NEW p \in Run, NEW i, NEW d, Begin(p, i, d) PROVE ClaimInv'
    <3>1. \A q \in Run : run'[q].at = "evaluate" => run'[q] = run[q]
      BY <2>0, <2>2 DEF Begin, TypeOK
    <3> QED
      BY <2>0, <2>2, <3>1, IdleStep DEF Begin
  <2>3. ASSUME NEW p \in Run, StartRun(p) PROVE ClaimInv'
    <3>1. PICK place \in Place : Goto(p, place) /\ (p \in MustClaim => place = "claim")
      BY <2>3 DEF StartRun, Place, MustClaim
    <3>2. \A q \in MustClaim : run'[q].at = "evaluate" => run'[q] = run[q]
      BY <2>0, <3>1, GotoFacts DEF Only
    <3> QED
      BY <2>3, <3>2, IdleStep DEF StartRun
  <2>4. ASSUME NEW p \in Run, StartRefused(p) \/ Die(p) \/ FinishRun(p) PROVE ClaimInv'
    <3>1. \A q \in MustClaim : run'[q].at = "evaluate" => run'[q] = run[q]
      BY <2>0, <2>4, EndFacts DEF Only, StartRefused, Die, FinishRun
    <3> QED
      BY <2>4, <3>1, IdleStep DEF StartRefused, Die, FinishRun
  <2>5. ASSUME NEW p \in Run, ClaimRefused(p) PROVE ClaimInv'
    <3>1. \A q \in MustClaim : run'[q].at = "evaluate" => run'[q] = run[q]
      BY <2>0, <2>5, GotoFacts DEF Only, ClaimRefused, Place
    <3> QED
      BY <2>5, <3>1, IdleStep DEF ClaimRefused
  <2>6. ASSUME NEW p \in Run, Claim(p) PROVE ClaimInv'
    <3>1. Only(p) /\ run'[p].data = run[p].data
      BY <2>0, <2>6, GotoFacts DEF Claim, Place
    <3>2. \A q \in Run : KeyOf(q)' = KeyOf(q)
      BY <3>1 DEF Only, KeyOf, Family
    <3>3. claims' = claims \cup {<<KeyOf(p), p>>} /\ \A c \in claims : c[1] # KeyOf(p)
      BY <2>6 DEF Claim, Unclaimed
    <3>4. \A c, d \in claims' : c[1] = d[1] => c = d
      BY <3>3 DEF ClaimInv
    <3>5. \A q \in MustClaim : run'[q].at = "evaluate" => <<KeyOf(q), q>> \in claims'
      BY <2>0, <3>1, <3>3 DEF ClaimInv, Only
    <3>6. \A q \in MustClaim : run'[q].at = "evaluate" => <<KeyOf(q)', q>> \in claims'
      BY <2>0, <3>2, <3>5
    <3> QED
      BY <2>6, <3>3, <3>4, <3>6 DEF ClaimInv, Claim
  <2>7. ASSUME NEW p \in Run, Evaluate(p) PROVE ClaimInv'
    <3>1. PICK place \in {"complete", "block", "fail"} : Goto(p, place)
      BY <2>7 DEF Evaluate
    <3>2. \A q \in MustClaim : run'[q].at = "evaluate" => run'[q] = run[q]
      BY <2>0, <3>1, GotoFacts DEF Only, Place
    <3>3. p \in MustClaim => <<KeyOf(p), p>> \in claims
      BY <2>7 DEF Evaluate, At, ClaimInv
    <3>4. \A q \in MustClaim, k \in Key : <<k, q>> \in looked' => <<k, q>> \in claims
      BY <2>7, <3>3 DEF Evaluate, ClaimInv
    <3> QED
      BY <2>7, <3>2, <3>4 DEF ClaimInv, Evaluate, KeyOf, Family
  <2>8. CASE UNCHANGED vars
    BY <2>8, IdleStep DEF vars
  <2> QED
    BY <2>1, <2>2, <2>3, <2>4, <2>5, <2>6, <2>7, <2>8
       DEF Next, Step, BeginCalibration, BeginChallenger, Run
<1> QED
  BY <1>1, <1>2, RowIsKept, PTL DEF Spec

\* Of all programs that must claim it, at most one of a family looks at the TEST
\* outcomes of a data set, whatever races, dies or is repeated.
THEOREM UsedOnce == Spec => []HoldoutUsedOnce
<1>1. ClaimInv => HoldoutUsedOnce
  BY DEF ClaimInv, HoldoutUsedOnce
<1> QED
  BY <1>1, ClaimIsKept, PTL

-----------------------------------------------------------------------------
(* What a completed calibration allows is lost only by a repeat. *)

\* A step that leaves the calibrations of a replay as they are, up to the status
\* of one that had not completed, leaves it ready.
LEMMA ReadyIsKept ==
    ASSUME NEW r, Ready(r),
           CalibrationsOf(r)' = CalibrationsOf(r),
           \A i \in CalibrationsOf(r) :
               /\ runRows'[i].started = runRows[i].started
               /\ runRows[i].status = "COMPLETED" => runRows'[i].status = "COMPLETED"
    PROVE  Ready(r)'
<1>1. PICK i \in CalibrationsOf(r) :
          /\ runRows[i].status = "COMPLETED"
          /\ \A j \in CalibrationsOf(r) : runRows[j].started <= runRows[i].started
  BY DEF Ready
<1>2. /\ i \in CalibrationsOf(r)'
      /\ runRows'[i].status = "COMPLETED"
      /\ \A j \in CalibrationsOf(r)' : runRows'[j].started <= runRows'[i].started
  BY <1>1
<1> QED
  BY <1>2 DEF Ready

\* The preflight's answer for a replay turns from yes to no only when another
\* calibration of this replay is started.
THEOREM ReadinessIsKept == Spec => ReadinessIsLostOnlyByARepeat
<1>1. ASSUME RowInv, [Next]_vars, NEW r \in Data, Ready(r),
             \A c \in Calibration : ~(StartRun(c) /\ run[c].parent = r)
      PROVE  Ready(r)'
  <2>0. TypeOK
    BY <1>1 DEF RowInv
  <2>1. CASE UNCHANGED runRows
    BY <1>1, <2>1 DEF Ready, CalibrationsOf
  <2>2. ASSUME NEW p \in Run, StartRun(p) PROVE Ready(r)'
    <3> DEFINE i == run[p].id
    <3>1. \A j \in RowId \ {i} : runRows'[j] = runRows[j]
      BY <2>0, <2>2 DEF StartRun, TypeOK
    <3>2. i \in OwnIds(p)
      BY <1>1, <2>2 DEF StartRun, At, RowInv
    <3>3. CASE p \in Calibration
      <4>1. i = p /\ runRows[p] = NoRow /\ p \in RowId
        BY <1>1, <3>2, <3>3, <2>2 DEF StartRun, At, OwnIds, RowInv, RowId
      <4>2. runRows'[p].parent = run[p].parent
        BY <2>0, <2>2, <3>3, <4>1 DEF StartRun, TypeOK
      <4>3. run[p].parent # r
        BY <1>1, <2>2, <3>3
      <4>4. \A c \in Calibration : runRows'[c] # NoRow /\ runRows'[c].parent = r
                                   <=> runRows[c] # NoRow /\ runRows[c].parent = r
        BY <2>0, <3>1, <4>1, <4>2, <4>3 DEF RowId
      <4>5. CalibrationsOf(r)' = CalibrationsOf(r) /\ p \notin CalibrationsOf(r)
        BY <4>1, <4>4 DEF CalibrationsOf
      <4> QED
        BY <1>1, <3>1, <4>1, <4>5, ReadyIsKept DEF CalibrationsOf, RowId
    <3>4. CASE p \notin Calibration
      <4>1. i \notin Calibration
        BY <3>2, <3>4 DEF OwnIds
      <4>2. \A c \in Calibration : runRows'[c] = runRows[c]
        BY <3>1, <4>1 DEF RowId
      <4> QED
        BY <1>1, <4>2, ReadyIsKept DEF CalibrationsOf
    <3> QED
      BY <3>3, <3>4
  <2>3. ASSUME NEW p \in Run, FinishRun(p) PROVE Ready(r)'
    <3> DEFINE i == run[p].id
               status == StatusAt[run[p].at]
    <3>1. run[p].at \in Registered /\ i \in RowId /\ runRows[i] \in RegistryRow
          /\ runRows[i].status = "RUNNING"
      BY <1>1, <2>3, PlaceFacts DEF FinishRun, RowInv, OwnIds, RowId, Run, Registered
    <3>2. runRows' = [runRows EXCEPT ![i] = [runRows[i] EXCEPT !.status = status]]
      BY <2>3 DEF FinishRun
    <3>3. /\ \A j \in RowId \ {i} : runRows'[j] = runRows[j]
          /\ runRows'[i] = [runRows[i] EXCEPT !.status = status]
      BY <2>0, <3>1, <3>2 DEF TypeOK
    <3>4. /\ runRows'[i].parent = runRows[i].parent /\ runRows'[i].started = runRows[i].started
          /\ runRows'[i] \in [kind : Kinds, status : {status}, parent : Data, started : Nat]
      BY <3>1, <3>3 DEF RegistryRow
    <3>5. status \in {"COMPLETED", "FAILED", "BLOCKED"}
      BY <2>3, PlaceFacts DEF FinishRun
    <3>6. runRows'[i] # NoRow /\ runRows[i] # NoRow
      BY <3>1, <3>4, <3>5 DEF RegistryRow
    <3>7. CalibrationsOf(r)' = CalibrationsOf(r)
      BY <3>3, <3>4, <3>6 DEF CalibrationsOf, RowId
    <3> QED
      BY <1>1, <3>1, <3>3, <3>4, <3>7, ReadyIsKept DEF CalibrationsOf, RowId
  <2> QED
    BY <1>1, <2>1, <2>2, <2>3 DEF Next, Step, vars, Replay, BeginCalibration, BeginChallenger,
       Begin, StartRefused, Claim, ClaimRefused, Evaluate, Die
<1>2. RowInv /\ [Next]_vars =>
          \A r \in Data : Ready(r) /\ ~Ready(r)' => \E c \in Calibration : StartRun(c) /\ run[c].parent = r
  BY <1>1
<1> QED
  BY <1>2, RowIsKept, PTL DEF Spec, ReadinessIsLostOnlyByARepeat

-----------------------------------------------------------------------------
(* The replay: its files, its process and its rows are variables of its    *)
(* own; a step of it is none of the registry.                              *)

USE ReplayAssumption DEF ReplayAssumption

\* Every variable keeps its type.
THEOREM ReplayTypeCorrect == ReplaySpec => []ReplayTypeOK
<1>1. ReplayInit => ReplayTypeOK
  <2>1. 1 \in 1 .. Last + 1
    OBVIOUS
  <2>2. Start \in Progress
    BY <2>1 DEF Start, Progress
  <2> SUFFICES ASSUME ReplayInit PROVE ReplayTypeOK
    OBVIOUS
  <2>3. saved \in Progress /\ mem \in Progress /\ launches \in 0 .. MaxLaunch
    BY <2>2 DEF ReplayInit
  <2> QED
    BY <2>3 DEF ReplayInit, ReplayTypeOK
<1> USE DEF Row, Progress
<1>2. ReplayTypeOK /\ [ReplayNext]_replayVars => ReplayTypeOK'
  <2> SUFFICES ASSUME ReplayTypeOK, [ReplayNext]_replayVars PROVE ReplayTypeOK'
    OBVIOUS
  <2> USE DEF ReplayTypeOK, files, memory, remembered
  <2>1. CASE Launch
    BY <2>1 DEF Launch, Restored, RestoredRows
  <2>2. ASSUME NEW s \in Symbol, NextSymbol(s) PROVE ReplayTypeOK'
    BY <2>2 DEF NextSymbol
  <2>3. CASE NoSymbolLeft
    BY <2>3 DEF NoSymbolLeft
  <2>4. ASSUME pc = "candles", Candle <= Last PROVE [mem EXCEPT !.next[symbol] = Candle + 1] \in Progress
    BY <2>4 DEF Candle
  <2>5. CASE SkipNeutral
    BY <2>4, <2>5 DEF SkipNeutral, Advance
  <2>6. CASE Decide
    <3>1. <<symbol, Candle>> \in Row
      BY <2>6 DEF Decide
    <3> QED
      BY <2>4, <2>6, <3>1 DEF Decide, Advance
  <2>7. CASE CompleteSymbol
    BY <2>7 DEF CompleteSymbol
  <2>8. CASE FailSymbol
    BY <2>8 DEF FailSymbol
  <2>9. CASE SaveState
    BY <2>9 DEF SaveState
  <2>10. CASE SaveRows
    BY <2>10 DEF SaveRows
  <2>11. CASE SaveFails
    BY <2>11 DEF SaveFails
  <2>12. CASE Publish
    BY <2>12 DEF Publish
  <2>13. CASE Finish
    BY <2>13 DEF Finish
  <2>14. CASE Crash
    BY <2>14 DEF Crash
  <2>15. CASE UNCHANGED replayVars
    BY <2>15 DEF replayVars
  <2> QED
    BY <2>1, <2>2, <2>3, <2>5, <2>6, <2>7, <2>8, <2>9, <2>10, <2>11, <2>12, <2>13, <2>14, <2>15
       DEF ReplayNext, Loop, Candles, Save
<1> QED
  BY <1>1, <1>2, PTL DEF ReplaySpec

-----------------------------------------------------------------------------
(* The position never falls behind the rows. *)

Behind(progress, R) == \A r \in R : r[2] < progress.next[r[1]]

\* The checkpoint file is written first, so neither copy has a row that the
\* position beside it has not passed.
BehindInv ==
    /\ Behind(saved, savedRows)
    /\ pc # "off" => Behind(mem, rows) /\ savedRows \subseteq rows
    /\ pc = "saveRows" => saved = mem

LEMMA BehindIsKept == ReplaySpec => []BehindInv
<1> USE DEF Row, Progress
<1>1. ReplayInit => BehindInv
  BY DEF ReplayInit, BehindInv, Behind
<1>2. ReplayTypeOK /\ BehindInv /\ [ReplayNext]_replayVars => BehindInv'
  <2> SUFFICES ASSUME ReplayTypeOK, BehindInv, [ReplayNext]_replayVars PROVE BehindInv'
    OBVIOUS
  <2> USE DEF files, memory, remembered
  <2>1. CASE Launch
    BY <2>1 DEF Launch, Restored, RestoredRows, BehindInv, Behind
  <2>2. ASSUME NEW s \in Symbol, NextSymbol(s) PROVE BehindInv'
    BY <2>2 DEF NextSymbol, BehindInv, Behind
  <2>3. CASE NoSymbolLeft
    BY <2>3 DEF NoSymbolLeft, BehindInv, Behind
  <2>4. ASSUME pc = "candles", Candle <= Last, Advance
        PROVE Behind(mem, rows) => Behind(mem', rows) /\ Candle < mem'.next[symbol]
    BY <2>4 DEF Advance, Candle, ReplayTypeOK, Behind
  <2>5. CASE SkipNeutral
    BY <2>4, <2>5 DEF SkipNeutral, BehindInv, Behind
  <2>6. CASE Decide
    <3>1. Behind(mem', rows) /\ Candle < mem'.next[symbol]
      BY <2>4, <2>6 DEF Decide, BehindInv
    <3>2. Behind(mem', rows')
      BY <2>6, <3>1 DEF Decide, Behind
    <3> QED
      BY <2>6, <3>2 DEF Decide, BehindInv, Behind
  <2>7. CASE CompleteSymbol
    <3>1. mem'.next = mem.next
      BY <2>7 DEF CompleteSymbol, ReplayTypeOK
    <3> QED
      BY <2>7, <3>1 DEF CompleteSymbol, BehindInv, Behind
  <2>8. CASE FailSymbol
    <3>1. mem'.next = mem.next
      BY <2>8 DEF FailSymbol, ReplayTypeOK
    <3> QED
      BY <2>8, <3>1 DEF FailSymbol, BehindInv, Behind
  <2>9. CASE SaveState
    BY <2>9 DEF SaveState, BehindInv, Behind
  <2>10. CASE SaveRows
    <3>1. saved = mem /\ Behind(saved, savedRows) /\ Behind(mem, rows)
      BY <2>10 DEF SaveRows, BehindInv
    <3>2. /\ saved' = saved /\ mem' = mem /\ rows' = rows
          /\ savedRows' \in {savedRows, rows} /\ savedRows \subseteq rows
      BY <2>10 DEF SaveRows, BehindInv
    <3>3. Behind(saved, savedRows)' /\ Behind(mem, rows)'
      BY <3>1, <3>2 DEF Behind
    <3>4. pc' # "saveRows"
      BY <2>10 DEF SaveRows, ReplayTypeOK
    <3> QED
      BY <3>2, <3>3, <3>4 DEF BehindInv
  <2>11. CASE SaveFails
    <3>1. mem'.next = mem.next
      BY <2>11 DEF SaveFails, ReplayTypeOK
    <3> QED
      BY <2>11, <3>1 DEF SaveFails, BehindInv, Behind
  <2>12. CASE Publish
    BY <2>12 DEF Publish, BehindInv, Behind
  <2>13. CASE Finish
    BY <2>13 DEF Finish, BehindInv, Behind
  <2>14. CASE Crash
    BY <2>14 DEF Crash, BehindInv, Behind
  <2>15. CASE UNCHANGED replayVars
    BY <2>15 DEF replayVars, BehindInv, Behind
  <2> QED
    BY <2>1, <2>2, <2>3, <2>5, <2>6, <2>7, <2>8, <2>9, <2>10, <2>11, <2>12, <2>13, <2>14, <2>15
       DEF ReplayNext, Loop, Candles, Save
<1> QED
  BY <1>1, <1>2, ReplayTypeCorrect, PTL DEF ReplaySpec

\* A resumed run never analyses a candle again whose row it has: the position
\* is saved before the rows.
THEOREM RepeatsNothing == ReplaySpec => NoDecisionIsRepeated
<1> USE DEF Row, Progress
<1>1. ReplayTypeOK /\ BehindInv /\ [ReplayNext]_replayVars
      => (count' = count + 1 => <<symbol, Candle>> \notin rows)
  <2> SUFFICES ASSUME ReplayTypeOK, BehindInv, [ReplayNext]_replayVars, count' = count + 1
               PROVE <<symbol, Candle>> \notin rows
    OBVIOUS
  <2>1. count' # count
    BY DEF ReplayTypeOK
  <2>2. CASE Decide
    BY <2>2 DEF Decide, BehindInv, Behind, ReplayTypeOK, Candle
  <2>3. ASSUME NEW s \in Symbol, NextSymbol(s) PROVE FALSE
    BY <2>3 DEF NextSymbol, ReplayTypeOK
  <2>4. CASE ~Decide /\ \A s \in Symbol : ~NextSymbol(s)
    BY <2>1, <2>4 DEF replayVars, memory, remembered, ReplayNext, Loop, Candles, Save, Launch, NoSymbolLeft,
       SkipNeutral, CompleteSymbol, FailSymbol, SaveState, SaveRows, SaveFails, Publish, Finish, Crash
  <2> QED
    BY <2>2, <2>3, <2>4
<1> QED
  BY <1>1, ReplayTypeCorrect, BehindIsKept, PTL DEF ReplaySpec, NoDecisionIsRepeated
-----------------------------------------------------------------------------
(* Nothing but torn rows is lost. *)

\* Every decision the position has passed is among the rows.
Covers(R, progress) == \A d \in Decision : d[2] < progress.next[d[1]] => d \in R

Finishing == pc \in {"publish", "finish"} \/ (pc \in {"saveState", "saveRows"} /\ then = "finish")

\* The symbol the loop is at.
Current(s) ==
    /\ symbol = s
    /\ pc = "candles" \/ (pc \in {"saveState", "saveRows"} /\ then = "candles")

\* The decisions of a symbol that a position has passed. A launch counts at most
\* these, so that a symbol completed by its cap has passed as many as it may have.
Passed(progress, s) == {d \in Decision : d[1] = s /\ d[2] < progress.next[s]}

Through(progress, s) == \A d \in Expected : d[1] = s => d[2] < progress.next[s]

WholeInv ==
    /\ halfSaved => pc \notin {"off", "finish"}
    /\ pc # "off" => Covers(rows \cup torn, mem)
    /\ Covers(savedRows \cup torn \cup (IF halfSaved THEN rows ELSE {}), saved)
    /\ \A s \in saved.done : Through(saved, s)
    /\ \A s \in mem.done : Through(mem, s)
    /\ \A s \in Symbol : Current(s) => count <= Cardinality(Passed(mem, s))
    /\ pc # "off" => \A s \in Symbol : s \in todo \/ s \in mem.done \/ errors > 0 \/ Current(s)
    /\ Finishing => todo \subseteq mem.done
    /\ Finishing /\ pc # "publish" => rows \subseteq published
    /\ registry = "COMPLETED" => Expected \subseteq published \cup torn

LEMMA PassedIsFinite ==
    ASSUME NEW s \in Symbol, NEW S \in SUBSET Decision,
           \A d \in S : d[1] = s
    PROVE  IsFiniteSet(S) /\ Cardinality(S) \in Nat
<1> USE DEF Row
<1>1. IsFiniteSet({s} \X (1 .. Last))
  <2>1. IsFiniteSet({s})
    BY FS_Singleton
  <2>2. IsFiniteSet(1 .. Last)
    BY FS_Interval
  <2> QED
    BY <2>1, <2>2, FS_Product
<1>2. S \subseteq {s} \X (1 .. Last)
  OBVIOUS
<1> QED
  BY <1>1, <1>2, FS_Subset, FS_CardinalityType

\* A symbol that is exhausted has every decision expected of it behind it.
LEMMA ExhaustedIsThrough ==
    ASSUME ReplayTypeOK, WholeInv, pc = "candles", Exhausted
    PROVE  Through(mem, symbol)
<1> USE DEF Row
<1>1. SUFFICES ASSUME NEW r \in Expected, r[1] = symbol, ~(r[2] < mem.next[symbol])
               PROVE  FALSE
  BY DEF Through
<1>2. /\ symbol \in Symbol /\ mem.next[symbol] \in 1 .. Last + 1
      /\ r \in Decision /\ r[2] \in 1 .. Last /\ count \in Nat
  BY DEF Expected, ReplayTypeOK, Progress
<1>3. Cap # 0 /\ count >= Cap
  BY <1>1, <1>2 DEF Exhausted, CapReached, Candle
<1> DEFINE UpTo == {d \in Decision : d[1] = r[1] /\ d[2] <= r[2]}
           P == Passed(mem, symbol)
<1>4. Cardinality(UpTo) <= Cap
  BY <1>3 DEF Expected
<1>5. P \subseteq UpTo /\ r \in UpTo /\ r \notin P
  BY <1>1, <1>2 DEF Passed
<1>6. /\ IsFiniteSet(UpTo) /\ Cardinality(UpTo) \in Nat
      /\ IsFiniteSet(P) /\ Cardinality(P) \in Nat
  BY <1>1, <1>2, PassedIsFinite DEF Passed
<1>7. Cardinality(P \cup {r}) = Cardinality(P) + 1
  BY <1>5, <1>6, FS_AddElement
<1>8. Cardinality(P \cup {r}) <= Cardinality(UpTo)
  BY <1>5, <1>6, FS_Subset
<1>9. count <= Cardinality(P)
  BY <1>2 DEF WholeInv, Current
<1> QED
  BY <1>2, <1>3, <1>4, <1>6, <1>7, <1>8, <1>9

\* Another candle of the current symbol is passed.
LEMMA PassedGrows ==
    ASSUME ReplayTypeOK, pc = "candles", Candle <= Last,
           Advance, symbol' = symbol
    PROVE  LET new == <<symbol, Candle>>
               grown == Cardinality(Passed(mem, symbol)) + (IF new \in Decision THEN 1 ELSE 0)
           IN  Cardinality(Passed(mem, symbol))' = grown
<1> USE DEF Row
<1> DEFINE new == <<symbol, Candle>>
           P == Passed(mem, symbol)
<1>1. symbol \in Symbol /\ mem.next[symbol] \in Nat /\ Candle = mem.next[symbol]
  BY DEF ReplayTypeOK, Progress, Candle
<1>2. mem'.next[symbol] = mem.next[symbol] + 1
  BY <1>1 DEF Advance, ReplayTypeOK, Progress
<1>3. IsFiniteSet(P) /\ Cardinality(P) \in Nat /\ new \notin P
  BY <1>1, PassedIsFinite DEF Passed
<1>4. {d \in Decision : d[1] = symbol /\ d[2] < mem.next[symbol] + 1}
      = IF new \in Decision THEN P \cup {new} ELSE P
  <2>1. \A d \in Decision : d[1] = symbol =>
            (d[2] < mem.next[symbol] + 1 <=> d[2] < mem.next[symbol] \/ d = new)
    BY <1>1
  <2> QED
    BY <2>1 DEF Passed
<1>5. Cardinality(IF new \in Decision THEN P \cup {new} ELSE P)
      = Cardinality(P) + (IF new \in Decision THEN 1 ELSE 0)
  <2>1. Cardinality(P \cup {new}) = Cardinality(P) + 1
    BY <1>3, FS_AddElement
  <2> QED
    BY <1>3, <2>1
<1>6. P' = {d \in Decision : d[1] = symbol /\ d[2] < mem.next[symbol] + 1}
  BY <1>2 DEF Passed
<1> QED
  BY <1>4, <1>5, <1>6

\* A step that leaves the positions alone leaves what they have passed.
LEMMA SamePlace ==
    ASSUME mem'.next = mem.next
    PROVE  /\ \A s : Through(mem, s)' <=> Through(mem, s)
           /\ \A s : Passed(mem, s)' = Passed(mem, s)
  BY DEF Through, Passed, Expected

\* A step that gets a symbol further does not lose what was behind.
LEMMA Further ==
    ASSUME NEW s \in Symbol, mem.next[s] \in Nat, mem'.next[s] \in Nat,
           mem'.next[s] >= mem.next[s], Through(mem, s)
    PROVE  Through(mem, s)'
<1> SUFFICES ASSUME NEW d \in Expected, d[1] = s PROVE d[2] < mem'.next[s]
  BY DEF Through, Expected
<1>1. d[2] \in Nat /\ d[2] < mem.next[s]
  BY DEF Through, Expected, Row
<1> QED
  BY <1>1

LEMMA WholeIsKept == ReplaySpec => []WholeInv
<1> USE DEF Row, Progress
<1>1. ReplayInit => WholeInv
  BY DEF ReplayInit, WholeInv, Covers, Start, Finishing, Current
<1>2. ReplayTypeOK /\ BehindInv /\ WholeInv /\ [ReplayNext]_replayVars => WholeInv'
  <2> SUFFICES ASSUME ReplayTypeOK, BehindInv, WholeInv, [ReplayNext]_replayVars PROVE WholeInv'
    OBVIOUS
  <2> USE DEF files, memory, remembered
  <2>0. \A s : (UNCHANGED saved => (Through(saved, s)' <=> Through(saved, s)))
               /\ (saved' = mem => (Through(saved, s)' <=> Through(mem, s)))
               /\ (mem' = saved => (Through(mem, s)' <=> Through(saved, s)))
    BY DEF Through, Expected
  <2>s. /\ \A s : UNCHANGED mem => (Through(mem, s)' <=> Through(mem, s))
        /\ \A s : UNCHANGED mem => Passed(mem, s)' = Passed(mem, s)
    BY SamePlace
  <2>w. /\ \A s \in saved.done : Through(saved, s)
        /\ \A s \in mem.done : Through(mem, s)
        /\ \A s \in Symbol : Current(s) => count <= Cardinality(Passed(mem, s))
    BY DEF WholeInv
  <2>1. CASE Launch
    BY <2>0, <2>w, <2>1 DEF Launch, Restored, RestoredRows, WholeInv, Covers,
       Finishing, Current, ReplayTypeOK
  <2>2. ASSUME NEW s \in Symbol, NextSymbol(s) PROVE WholeInv'
    <3>1. Cardinality(Passed(mem, s)) \in Nat
      BY PassedIsFinite DEF Passed
    <3>2. UNCHANGED <<saved, mem>> /\ pc = "symbols" /\ symbol' = s /\ count' = 0
      BY <2>2 DEF NextSymbol
    <3>3. \A t \in Symbol : Current(t)' => count' <= Cardinality(Passed(mem, t)')
      BY <2>s, <3>1, <3>2 DEF Current
    <3> QED
      BY <2>0, <2>s, <2>w, <2>2, <3>2, <3>3 DEF NextSymbol, WholeInv, Covers, Finishing, Current,
         ReplayTypeOK
  <2>3. CASE NoSymbolLeft
    BY <2>0, <2>s, <2>w, <2>3 DEF NoSymbolLeft, WholeInv, Covers, Finishing, Current
  <2>4. ASSUME pc = "candles", Candle <= Last, Advance
        PROVE  /\ mem'.done = mem.done
               /\ \A s \in Symbol : mem'.next[s] = IF s = symbol THEN Candle + 1 ELSE mem.next[s]
               /\ \A s \in mem'.done : Through(mem, s)'
    <3>1. /\ mem'.done = mem.done /\ mem.done \subseteq Symbol
          /\ \A s \in Symbol : mem'.next[s] = IF s = symbol THEN Candle + 1 ELSE mem.next[s]
          /\ \A s \in Symbol : mem.next[s] \in Nat
      BY <2>4 DEF Advance, Candle, ReplayTypeOK
    <3>2. ASSUME NEW s \in mem.done PROVE Through(mem, s)'
      <4>1. s \in Symbol /\ Through(mem, s) /\ mem'.next[s] \in Nat /\ mem'.next[s] >= mem.next[s]
        BY <2>w, <3>1 DEF Candle
      <4> QED
        BY <3>1, <4>1, Further
    <3> QED
      BY <3>1, <3>2
  <2>a. ASSUME pc = "candles", Candle <= Last, Advance, symbol' = symbol,
               count' = count + (IF <<symbol, Candle>> \in Decision THEN 1 ELSE 0)
        PROVE  \A s \in Symbol : Current(s)' => count' <= Cardinality(Passed(mem, s)')
    <3>1. symbol \in Symbol /\ count \in Nat /\ count <= Cardinality(Passed(mem, symbol))
      BY <2>w, <2>a DEF Current, ReplayTypeOK
    <3>2. Cardinality(Passed(mem, symbol)) \in Nat
      BY <3>1, PassedIsFinite DEF Passed
    <3>3. count' <= Cardinality(Passed(mem, symbol)')
      BY <2>a, <3>1, <3>2, PassedGrows
    <3>4. \A s \in Symbol : Current(s)' => s = symbol'
      BY DEF Current
    <3> QED
      BY <2>a, <3>3, <3>4 DEF Passed
  <2>5. CASE SkipNeutral
    <3>1. pc = "candles" /\ Candle <= Last /\ Advance
          /\ symbol' = symbol /\ count' = count /\ saved' = saved /\ count \in Nat
          /\ <<symbol, Candle>> \notin Decision
      BY <2>5 DEF SkipNeutral, ReplayTypeOK
    <3>2. Candle \in Nat /\ symbol \in Symbol
      BY <3>1 DEF Candle, ReplayTypeOK
    <3>3. Covers(rows \cup torn, mem)'
      BY <2>4, <2>5, <3>1, <3>2 DEF SkipNeutral, WholeInv, Covers, Candle, ReplayTypeOK
    <3>4. \A s \in Symbol : Current(s)' => count' <= Cardinality(Passed(mem, s)')
      BY <2>a, <3>1
    <3>5. \A s \in saved'.done : Through(saved, s)'
      BY <2>0, <2>w, <3>1
    <3>6. Covers(savedRows \cup torn \cup (IF halfSaved THEN rows ELSE {}), saved)'
      BY <2>5 DEF SkipNeutral, WholeInv, Covers
    <3> QED
      BY <2>4, <2>5, <3>1, <3>2, <3>3, <3>4, <3>5, <3>6 DEF SkipNeutral, WholeInv, Finishing, Current
  <2>6. CASE Decide
    <3>1. pc = "candles" /\ Candle <= Last /\ Advance
          /\ symbol' = symbol /\ count' = count + 1 /\ saved' = saved
          /\ <<symbol, Candle>> \in Decision
      BY <2>6 DEF Decide
    <3>2. Candle \in Nat /\ symbol \in Symbol
      BY <3>1 DEF Candle, ReplayTypeOK
    <3>3. Covers(rows \cup torn, mem)'
      BY <2>4, <2>6, <3>1, <3>2 DEF Decide, WholeInv, Covers, Candle, ReplayTypeOK
    <3>4. Covers(savedRows \cup torn \cup (IF halfSaved THEN rows ELSE {}), saved)'
      BY <2>6 DEF Decide, WholeInv, Covers
    <3>5. \A s \in Symbol : Current(s)' => count' <= Cardinality(Passed(mem, s)')
      BY <2>a, <3>1
    <3>6. \A s \in saved'.done : Through(saved, s)'
      BY <2>0, <2>w, <3>1
    <3> QED
      BY <2>4, <2>6, <3>1, <3>2, <3>3, <3>4, <3>5, <3>6 DEF Decide, WholeInv, Finishing, Current
  <2>m. ASSUME mem'.next = mem.next, saved' = saved, mem'.done = mem.done
        PROVE  /\ \A s \in saved'.done : Through(saved, s)'
               /\ \A s \in mem'.done : Through(mem, s)'
    BY <2>0, <2>w, <2>m, SamePlace
  <2>7. CASE CompleteSymbol
    <3>1. mem'.next = mem.next /\ mem'.done = mem.done \cup {symbol} /\ saved' = saved
      BY <2>7 DEF CompleteSymbol, ReplayTypeOK
    <3>2. Through(mem, symbol)
      BY <2>7, ExhaustedIsThrough DEF CompleteSymbol
    <3>3. \A s \in saved'.done : Through(saved, s)'
      BY <2>0, <2>w, <3>1
    <3>4. \A s \in mem'.done : Through(mem, s)'
      BY <2>w, <3>1, <3>2, SamePlace
    <3>5. \A s : ~Current(s)'
      BY <2>7 DEF CompleteSymbol, Current
    <3> QED
      BY <2>7, <3>1, <3>3, <3>4, <3>5 DEF CompleteSymbol, WholeInv, Covers, Finishing, Current,
         ReplayTypeOK
  <2>8. CASE FailSymbol
    <3>1. mem'.next = mem.next /\ mem'.done = mem.done /\ saved' = saved
      BY <2>8 DEF FailSymbol, ReplayTypeOK
    <3>2. errors' > 0 /\ \A s : ~Current(s)'
      BY <2>8 DEF FailSymbol, ReplayTypeOK, Current
    <3> QED
      BY <2>m, <2>8, <3>1, <3>2 DEF FailSymbol, WholeInv, Covers, Finishing
  <2>9. CASE SaveState
    <3>1. \A s \in Symbol : Current(s)' => Current(s)
      BY <2>9 DEF SaveState, Current
    <3> QED
      BY <2>0, <2>s, <2>w, <2>9, <3>1 DEF SaveState, WholeInv, Covers, Finishing, Current
  <2>10. CASE SaveRows
    <3>1. saved = mem /\ pc = "saveRows" /\ pc' = then /\ then' = then
          /\ UNCHANGED <<saved, mem, symbol, count>>
      BY <2>10 DEF SaveRows, BehindInv
    <3>2. Covers(savedRows \cup torn \cup (IF halfSaved THEN rows ELSE {}), saved)'
      BY <2>10, <3>1 DEF SaveRows, WholeInv, Covers
    <3>3. \A s \in Symbol : Current(s)' <=> Current(s)
      BY <3>1 DEF Current, ReplayTypeOK
    <3> QED
      BY <2>0, <2>s, <2>w, <2>10, <3>1, <3>2, <3>3 DEF SaveRows, WholeInv, Covers, Finishing, ReplayTypeOK
  <2>11. CASE SaveFails
    <3>1. mem'.next = mem.next /\ mem'.done = mem.done /\ saved' = saved
      BY <2>11 DEF SaveFails, ReplayTypeOK
    <3>2. errors' > 0 /\ \A s : ~Current(s)'
      BY <2>11 DEF SaveFails, ReplayTypeOK, Current
    <3> QED
      BY <2>m, <2>11, <3>1, <3>2 DEF SaveFails, WholeInv, Covers, Finishing
  <2>12. CASE Publish
    BY <2>0, <2>s, <2>w, <2>12 DEF Publish, WholeInv, Covers, Finishing, Current
  <2>13. CASE Finish
    <3>1. registry' = "COMPLETED" => Expected \subseteq published \cup torn
      <4> SUFFICES ASSUME RunOk, NEW d \in Expected PROVE d \in published \cup torn
        BY <2>13 DEF Finish
      <4>1. d[1] \in Symbol /\ d[2] \in 1 .. Last /\ d \in Decision
        BY DEF Expected
      <4>2. d[1] \in mem.done
        BY <2>13, <4>1 DEF Finish, WholeInv, Finishing, Current, RunOk
      <4>3. d[2] < mem.next[d[1]]
        BY <2>w, <4>1, <4>2 DEF Through
      <4>4. d \in rows \cup torn /\ rows \subseteq published
        BY <2>13, <4>1, <4>3 DEF Finish, WholeInv, Covers, Finishing
      <4> QED
        BY <4>4
    <3>2. /\ UNCHANGED <<saved, mem, published, torn, savedRows, halfSaved, rows>>
          /\ pc = "finish" /\ pc' = "off"
      BY <2>13 DEF Finish
    <3> QED
      BY <2>0, <2>s, <2>w, <3>1, <3>2 DEF WholeInv, Covers, Finishing, Current, Expected
  <2>14. CASE Crash
    <3>1. savedRows \cup torn \cup (IF halfSaved THEN rows ELSE {})
          \subseteq savedRows' \cup torn' \cup (IF halfSaved' THEN rows' ELSE {})
      BY <2>14 DEF Crash
    <3>2. Covers(savedRows \cup torn \cup (IF halfSaved THEN rows ELSE {}), saved)'
      BY <2>14, <3>1 DEF Crash, WholeInv, Covers
    <3>3. registry' = "COMPLETED" => Expected \subseteq published' \cup torn'
      BY <2>14 DEF Crash, WholeInv, Expected
    <3>4. UNCHANGED <<saved, mem>> /\ pc' = "off" /\ halfSaved' = FALSE
      BY <2>14 DEF Crash
    <3> QED
      BY <2>0, <2>s, <2>w, <3>2, <3>3, <3>4 DEF WholeInv, Finishing, Current, Expected
  <2>15. CASE UNCHANGED replayVars
    <3>1. \A s : Current(s)' <=> Current(s)
      BY <2>15 DEF replayVars, Current
    <3> QED
      BY <2>0, <2>s, <2>w, <2>15, <3>1 DEF replayVars, WholeInv, Covers, Finishing, Current, Expected
  <2> QED
    BY <2>1, <2>2, <2>3, <2>5, <2>6, <2>7, <2>8, <2>9, <2>10, <2>11, <2>12, <2>13, <2>14, <2>15
       DEF ReplayNext, Loop, Candles, Save
<1> QED
  BY <1>1, <1>2, ReplayTypeCorrect, BehindIsKept, PTL DEF ReplaySpec

\* However often a replay is killed and resumed: once it is registered as
\* COMPLETED, each decision is published or was torn off by a crash between the
\* two files of a checkpoint.
THEOREM NothingElseIsLost ==
    ReplaySpec => []OnlyTornRowsAreLost
<1>1. WholeInv => OnlyTornRowsAreLost
  BY DEF WholeInv, OnlyTornRowsAreLost, Expected
<1> QED
  BY <1>1, WholeIsKept, PTL
=============================================================================
