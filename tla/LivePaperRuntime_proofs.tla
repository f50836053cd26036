------------------------ MODULE LivePaperRuntime_proofs ------------------------
(***************************************************************************)
(* Proofs about the live paper runtime, for any universe of symbols,       *)
(* limits, targets and number of processes, each killed or failing between *)
(* any two steps.  The limits and the rollout hold even while processes    *)
(* overlap; that a decision is entered once, that plans are kept and that  *)
(* damage stays local needs one process at a time.                         *)
(***************************************************************************)
EXTENDS LivePaperRuntime, FiniteSetTheorems, TLAPS

Trading == {"sold", "buying", "bought"}

\* A trade under way names a decision, and a half exit has a target left.
TypeInv ==
    /\ TypeOK
    /\ \A p \in Worker :
          /\ pc[p] \in Trading => deal[p] \in Symbol \X Candle
          /\ pc[p] = "sold" /\ broker[p][deal[p][1]] # 0 =>
                store[p].managed[deal[p][1]].next < Targets

USE LiveAssumption DEF LiveAssumption

-----------------------------------------------------------------------------
(***************************************************************************)
(* What the store's operations make of a state.                            *)
(***************************************************************************)
LEMMA ProcessedState ==
    ASSUME NEW state \in State, NEW d \in Symbol \X Candle
    PROVE  /\ Processed(state, d) \in State
           /\ Processed(state, d).processed = state.processed \cup {d}
           /\ Processed(state, d).managed = state.managed
           /\ Processed(state, d).core = state.core /\ Processed(state, d).all = state.all
BY DEF Processed, State

LEMMA PlannedState ==
    ASSUME NEW state \in State, NEW s \in Symbol, NEW c \in Candle
    PROVE  /\ Planned(state, s, c) \in State
           /\ Planned(state, s, c).processed = state.processed
           /\ Planned(state, s, c).managed =
                 [state.managed EXCEPT ![s] = [entry |-> c, next |-> 1]]
           /\ Planned(state, s, c).core = state.core /\ Planned(state, s, c).all = state.all
BY SMTT(30) DEF Planned, Candle, State, Plan

LEMMA AdvancedState ==
    ASSUME NEW state \in State, NEW s \in Symbol
    PROVE  /\ state.managed[s].next < Targets => Advanced(state, s) \in State
           /\ Advanced(state, s).processed = state.processed
           /\ Advanced(state, s).managed = [state.managed EXCEPT ![s].next = @ + 1]
           /\ Advanced(state, s).core = state.core /\ Advanced(state, s).all = state.all
BY SMTT(30) DEF Advanced, State, Plan

LEMMA ClosedState ==
    ASSUME NEW state \in State, NEW s \in Symbol
    PROVE  /\ Closed(state, s) \in State
           /\ Closed(state, s).processed = state.processed
           /\ Closed(state, s).managed = [state.managed EXCEPT ![s] = NoPlan]
           /\ Closed(state, s).core = state.core + (IF s \in Core THEN 1 ELSE 0)
           /\ Closed(state, s).all = state.all + 1
<1> USE DEF State, Plan, NoPlan
<1>1. Closed(state, s) = [state EXCEPT !.managed = [state.managed EXCEPT ![s] = NoPlan],
                                      !.all = state.all + 1,
                                      !.core = state.core + (IF s \in Core THEN 1 ELSE 0)]
  BY Zenon DEF Closed
<1>2. [state.managed EXCEPT ![s] = NoPlan] \in [Symbol -> Plan]
  OBVIOUS
<1>3. state.core + (IF s \in Core THEN 1 ELSE 0) \in Nat /\ state.all + 1 \in Nat
  OBVIOUS
<1>4. QED
  BY <1>1, <1>2, <1>3

-----------------------------------------------------------------------------
LEMMA TypeInvariant == Spec => []TypeInv
<1>1. Init => TypeInv
  BY DEF Init, TypeInv, TypeOK, State, Plan, Positions, FirstState, NoPlan, NoPositions, NoDeal,
         Candle, Trading, Locked
<1>2. TypeInv /\ [Next]_vars => TypeInv'
  <2> SUFFICES ASSUME TypeInv, [Next]_vars PROVE TypeInv'
    OBVIOUS
  <2>0. FirstState \in State /\ NoPositions \in Positions
    BY DEF FirstState, State, Plan, NoPlan, NoPositions, Positions
  <2> USE DEF TypeInv, TypeOK, Positions, Candle, Trading, Locked, Goto, Save, disk, memory, ghosts
  <2>1. ASSUME NEW p \in Worker, Start(p) PROVE TypeInv'
    BY <2>1 DEF Start
  <2>2. ASSUME NEW p \in Worker, SaveScope(p) PROVE TypeInv'
    BY <2>2 DEF SaveScope
  <2>3. ASSUME NEW p \in Worker, LoadAccount(p) PROVE TypeInv'
    BY <2>3 DEF LoadAccount
  <2>4. ASSUME NEW p \in Worker, LeaveUnlocked(p) PROVE TypeInv'
    BY <2>4, <2>0 DEF LeaveUnlocked, Gone
  <2>5. ASSUME NEW p \in Worker, TakeLock(p) PROVE TypeInv'
    BY <2>5 DEF TakeLock, Managed
  <2>6. ASSUME NEW p \in Worker, CheckFails(p) PROVE TypeInv'
    BY <2>6 DEF CheckFails
  <2>7. ASSUME NEW p \in Worker, CheckHolds(p) PROVE TypeInv'
    BY <2>7 DEF CheckHolds
  <2>8. ASSUME NEW p \in Worker, Sell(p) PROVE TypeInv'
    <3>1. PICK s \in todo[p], stopped \in BOOLEAN :
             LET all == stopped \/ IsFinal(store[p].managed[s].next)
             IN  /\ broker[p][s] # 0
                 /\ broker' = [broker EXCEPT ![p][s] = IF all THEN 0 ELSE @]
                 /\ deal' = [deal EXCEPT ![p] = <<s, broker[p][s]>>]
                 /\ closes' = [core |-> closes.core + (IF all /\ s \in Core THEN 1 ELSE 0),
                               all |-> closes.all + (IF all THEN 1 ELSE 0)]
                 /\ underway' = [underway EXCEPT ![p] = @ \cup {s}]
      BY <2>8 DEF Sell
    <3>2. s \in Symbol /\ broker[p][s] \in Candle /\ store[p].managed[s].next \in 1..Targets
      BY <3>1 DEF State, Plan
    <3>3. closes' \in [core : Nat, all : Nat] /\ underway' \in [Worker -> SUBSET Symbol]
      BY <3>1, <3>2
    <3>4. broker' \in [Worker -> Positions] /\ deal' \in [Worker -> (Symbol \X Candle) \cup {NoDeal}]
      BY <3>1, <3>2
    <3>5. broker'[p][s] # 0 => store[p].managed[s].next < Targets
      BY <3>1, <3>2 DEF IsFinal
    <3>6. account' = broker'[p] /\ pc' = [pc EXCEPT ![p] = "sold"]
          /\ UNCHANGED <<lock, plan, store, todo, clock, entered, torn>>
      BY <2>8 DEF Sell
    <3>7. TypeOK'
      BY <3>3, <3>4, <3>6
    <3>11. pc'[p] = "sold" /\ store'[p] = store[p]
      BY <3>6
    <3>8. \A q \in Worker \ {p} : deal'[q] = deal[q] /\ broker'[q] = broker[q] /\ pc'[q] = pc[q]
      BY <3>1, <3>6
    <3>9. deal'[p] \in Symbol \X Candle /\ deal'[p][1] = s
      BY <3>1, <3>2
    <3>12. ASSUME NEW q \in Worker, pc'[q] \in Trading
           PROVE  /\ deal'[q] \in Symbol \X Candle
                  /\ pc'[q] = "sold" /\ broker'[q][deal'[q][1]] # 0 =>
                        store'[q].managed[deal'[q][1]].next < Targets
      <4>1. CASE q = p
        BY <3>5, <3>9, <3>11, <4>1
      <4>2. CASE q # p
        BY <3>6, <3>8, <3>12, <4>2
      <4>3. QED
        BY <4>1, <4>2
    <3>10. QED
      BY <3>7, <3>12
  <2>9. ASSUME NEW p \in Worker, Settle(p) PROVE TypeInv'
    <3> DEFINE s == deal[p][1]
               settled == IF broker[p][s] = 0 THEN Closed(store[p], s) ELSE Advanced(store[p], s)
    <3>1. s \in Symbol /\ store[p] \in State
          /\ (broker[p][s] # 0 => store[p].managed[s].next < Targets)
      BY <2>9 DEF Settle
    <3>2. settled \in State
      BY <3>1, AdvancedState, ClosedState
    <3>3. store' = [store EXCEPT ![p] = settled]
      BY <2>9 DEF Settle
    <3> HIDE DEF settled
    <3>4. store' \in [Worker -> State] /\ \A q \in Worker \ {p} : store'[q] = store[q]
      BY <3>2, <3>3
    <3> QED
      BY <2>9, <3>4 DEF Settle
  <2>10. ASSUME NEW p \in Worker, EndManage(p) PROVE TypeInv'
    BY <2>10 DEF EndManage
  <2>11. ASSUME NEW p \in Worker, ProcessFails(p) PROVE TypeInv'
    BY <2>11 DEF ProcessFails
  <2>12. ASSUME NEW p \in Worker, IgnoreDuplicate(p) PROVE TypeInv'
    BY <2>12 DEF IgnoreDuplicate
  <2>13. ASSUME NEW p \in Worker, Record(p) PROVE TypeInv'
    <3>1. PICK s \in todo[p] :
             /\ store' = [store EXCEPT ![p] = Processed(@, <<s, clock>>)]
             /\ \/ /\ todo' = [todo EXCEPT ![p] = @ \ {s}]
                   /\ UNCHANGED <<pc, deal>>
                \/ /\ deal' = [deal EXCEPT ![p] = <<s, clock>>]
                   /\ pc' = [pc EXCEPT ![p] = "buying"]
                   /\ UNCHANGED todo
      BY <2>13 DEF Record
    <3>2. <<s, clock>> \in Symbol \X Candle
      OBVIOUS
    <3>3. Processed(store[p], <<s, clock>>) \in State
      BY <3>2, ProcessedState
    <3>4. store' \in [Worker -> State] /\ plan' \in State
      BY <2>13, <3>1, <3>3 DEF Record
    <3>5. pc[p] = "process" /\ UNCHANGED <<lock, account, broker, clock, ghosts>>
      BY <2>13 DEF Record
    <3>6. todo' \in [Worker -> SUBSET Symbol]
      <4>1. todo' = [todo EXCEPT ![p] = @ \ {s}] \/ todo' = todo
        BY <3>1
      <4>2. todo \in [Worker -> SUBSET Symbol] /\ todo[p] \ {s} \in SUBSET Symbol
        OBVIOUS
      <4>3. QED
        BY ONLY <4>1, <4>2
    <3>7. /\ deal' \in [Worker -> (Symbol \X Candle) \cup {NoDeal}]
          /\ pc'[p] \in Trading => deal'[p] \in Symbol \X Candle
          /\ pc'[p] # "sold"
      <4>1. CASE UNCHANGED <<pc, deal>>
        BY <3>5, <4>1
      <4>2. CASE deal' = [deal EXCEPT ![p] = <<s, clock>>] /\ pc' = [pc EXCEPT ![p] = "buying"]
        BY <3>2, <4>2
      <4>3. QED
        BY <3>1, <4>1, <4>2
    <3>8. pc' \in [Worker -> {"off", "opened", "saved", "ready", "failing"} \cup Locked]
      BY <3>1
    <3>9. TypeOK'
      BY <3>4, <3>5, <3>6, <3>7, <3>8
    <3>10. \A q \in Worker \ {p} :
              store'[q] = store[q] /\ pc'[q] = pc[q] /\ deal'[q] = deal[q]
      BY <3>1
    <3>11. QED
      BY <3>5, <3>7, <3>9, <3>10
  <2>14. ASSUME NEW p \in Worker, BuyFails(p) PROVE TypeInv'
    BY <2>14 DEF BuyFails, Done
  <2>15. ASSUME NEW p \in Worker, Buy(p) PROVE TypeInv'
    BY <2>15 DEF Buy, Bought
  <2>16. ASSUME NEW p \in Worker, BuyUnpriced(p) PROVE TypeInv'
    BY <2>16 DEF BuyUnpriced, Bought, Done
  <2>17. ASSUME NEW p \in Worker, BuyUnlogged(p) PROVE TypeInv'
    BY <2>17 DEF BuyUnlogged, Done
  <2>18. ASSUME NEW p \in Worker, Enter(p) PROVE TypeInv'
    BY <2>18, PlannedState DEF Enter, Done
  <2>19. ASSUME NEW p \in Worker, NextRound(p) PROVE TypeInv'
    BY <2>19 DEF NextRound, Managed
  <2>20. ASSUME NEW p \in Worker, Finish(p) PROVE TypeInv'
    BY <2>20, <2>0 DEF Finish, Gone
  <2>21. ASSUME NEW p \in Worker, Interrupt(p) PROVE TypeInv'
    BY <2>21, <2>0 DEF Interrupt, Gone
  <2>22. ASSUME NEW p \in Worker, Fail(p) PROVE TypeInv'
    BY <2>22 DEF Fail
  <2>23. ASSUME NEW p \in Worker, RecordCrash(p) PROVE TypeInv'
    BY <2>23, <2>0 DEF RecordCrash
  <2>24. ASSUME NEW p \in Worker, Crash(p) PROVE TypeInv'
    BY <2>24, <2>0 DEF Crash, Gone
  <2>25. CASE RemoveStaleLock
    BY <2>25 DEF RemoveStaleLock
  <2>26. CASE Tick
    BY <2>26 DEF Tick
  <2>27. CASE UNCHANGED vars
    BY <2>27 DEF vars
  <2>28. QED
    BY <2>1, <2>2, <2>3, <2>4, <2>5, <2>6, <2>7, <2>8, <2>9, <2>10, <2>11, <2>12, <2>13, <2>14, <2>15, <2>16, <2>17, <2>18, <2>19, <2>20, <2>21, <2>22, <2>23, <2>24, <2>25, <2>26, <2>27
       DEF Next, WorkerStep
<1>3. QED
  BY <1>1, <1>2, PTL DEF Spec

\* Every variable keeps its type, for any universe, limits and schedule: a plan
\* never waits for a target it does not have.
THEOREM TypeCorrect == Spec => []TypeOK
<1>1. TypeInv => TypeOK
  BY DEF TypeInv
<1>2. QED
  BY <1>1, TypeInvariant, PTL

-----------------------------------------------------------------------------
(***************************************************************************)
(* The rollout.  A close is counted in memory, and saved, only after it    *)
(* has happened, so no copy of the counters is ever ahead of the closes.   *)
(* This holds with any number of processes at once.                        *)
(***************************************************************************)
NotAhead(state) == state.core <= closes.core /\ state.all <= closes.all

\* What was sold completely but is not counted yet is still owed.
SaleOwed(p) ==
    pc[p] = "sold" /\ broker[p][deal[p][1]] = 0 =>
        /\ store[p].all + 1 <= closes.all
        /\ deal[p][1] \in Core => store[p].core + 1 <= closes.core

RolloutInv ==
    /\ NotAhead(plan)
    /\ \A p \in Worker :
          /\ NotAhead(store[p]) /\ SaleOwed(p)
          /\ pc[p] = "buying" => RolloutOpen(deal[p][1], closes)
    /\ \A s \in Symbol, c \in Candle : entered[<<s, c>>] > 0 => RolloutOpen(s, closes)

\* A step that neither enters nor sells keeps it if every copy of the counters
\* that it makes is a copy of one that was there.
LEMMA RolloutStep ==
    ASSUME TypeInv, TypeInv', RolloutInv,
           UNCHANGED <<closes, entered>>,
           plan' = plan \/ \E q \in Worker : plan' = store[q],
           NEW p \in Worker,
           \A q \in Worker \ {p} : UNCHANGED <<pc[q], store[q], broker[q], deal[q]>>,
           store'[p] \in {store[p], plan, FirstState},
           pc'[p] \notin {"sold", "buying"}
    PROVE  RolloutInv'
<1>1. closes.core \in Nat /\ closes.all \in Nat
  BY DEF TypeInv, TypeOK
<1>2. NotAhead(FirstState)
  BY <1>1 DEF NotAhead, FirstState
<1>3. NotAhead(plan)'
  BY DEF RolloutInv, NotAhead
<1>4. ASSUME NEW q \in Worker
      PROVE  (NotAhead(store[q]) /\ SaleOwed(q) /\ (pc[q] = "buying" => RolloutOpen(deal[q][1], closes)))'
  <2>1. CASE q = p
    BY <1>2, <2>1 DEF RolloutInv, NotAhead, SaleOwed
  <2>2. CASE q # p
    BY <2>2 DEF RolloutInv, NotAhead, SaleOwed, RolloutOpen
  <2>3. QED
    BY <2>1, <2>2
<1>5. (\A s \in Symbol, c \in Candle : entered[<<s, c>>] > 0 => RolloutOpen(s, closes))'
  BY DEF RolloutInv, RolloutOpen
<1>6. QED
  BY <1>3, <1>4, <1>5 DEF RolloutInv

\* Growth and memes are entered only after enough complete closes, even while
\* processes overlap, are killed, or lose their lock.
THEOREM RolloutEarned == Spec => []RolloutIsEarned
<1>1. Init => RolloutInv
  BY DEF Init, RolloutInv, NotAhead, SaleOwed, FirstState
<1>2. TypeInv /\ TypeInv' /\ RolloutInv /\ [Next]_vars => RolloutInv'
  <2> SUFFICES ASSUME TypeInv, TypeInv', RolloutInv, [Next]_vars PROVE RolloutInv'
    OBVIOUS
  <2>0. /\ closes.core \in Nat /\ closes.all \in Nat /\ clock \in Candle
        /\ pc \in [Worker -> {"off", "opened", "saved", "ready", "failing"} \cup Locked]
        /\ store \in [Worker -> State] /\ broker \in [Worker -> Positions]
        /\ deal \in [Worker -> (Symbol \X Candle) \cup {NoDeal}]
        /\ todo \in [Worker -> SUBSET Symbol]
        /\ entered \in [Symbol \X Candle -> 0..2]
        /\ plan \in State
    BY DEF TypeInv, TypeOK
  <2>1. ASSUME NEW p \in Worker,
               \/ Start(p) \/ SaveScope(p) \/ LoadAccount(p) \/ LeaveUnlocked(p) \/ TakeLock(p)
               \/ CheckFails(p) \/ CheckHolds(p) \/ EndManage(p)
               \/ ProcessFails(p) \/ IgnoreDuplicate(p)
        PROVE  RolloutInv'
    BY <2>0, <2>1, RolloutStep, Zenon
       DEF Start, SaveScope, LoadAccount, LeaveUnlocked, TakeLock, CheckFails, CheckHolds, EndManage,
           ProcessFails, IgnoreDuplicate, Goto, Save, Gone, disk, memory, ghosts
  <2>2. ASSUME NEW p \in Worker, Sell(p) PROVE RolloutInv'
    <3>1. PICK s \in todo[p], all \in BOOLEAN :
             /\ broker' = [broker EXCEPT ![p][s] = IF all THEN 0 ELSE @]
             /\ deal' = [deal EXCEPT ![p] = <<s, broker[p][s]>>]
             /\ broker[p][s] # 0
             /\ closes' = [core |-> closes.core + (IF all /\ s \in Core THEN 1 ELSE 0),
                           all |-> closes.all + (IF all THEN 1 ELSE 0)]
      <4>1. PICK s \in todo[p], stopped \in BOOLEAN :
               LET all == stopped \/ IsFinal(store[p].managed[s].next)
               IN  /\ broker[p][s] # 0
                   /\ broker' = [broker EXCEPT ![p][s] = IF all THEN 0 ELSE @]
                   /\ deal' = [deal EXCEPT ![p] = <<s, broker[p][s]>>]
                   /\ closes' = [core |-> closes.core + (IF all /\ s \in Core THEN 1 ELSE 0),
                                 all |-> closes.all + (IF all THEN 1 ELSE 0)]
        BY <2>2 DEF Sell
      <4>2. (stopped \/ IsFinal(store[p].managed[s].next)) \in BOOLEAN
        OBVIOUS
      <4>3. QED
        BY <4>1, <4>2
    <3>2. UNCHANGED <<plan, store, entered>> /\ pc' = [pc EXCEPT ![p] = "sold"]
      BY <2>2 DEF Sell, Goto
    <3>3. /\ closes'.core = closes.core + (IF all /\ s \in Core THEN 1 ELSE 0)
          /\ closes'.all = closes.all + (IF all THEN 1 ELSE 0)
      BY <3>1
    <3>4. deal'[p][1] = s /\ (broker'[p][s] = 0 => all) /\ s \in Symbol
      BY <2>0, <3>1 DEF Positions
    <3>5. \A state \in State : NotAhead(state) => NotAhead(state)'
      BY <2>0, <3>3 DEF NotAhead, State
    <3>6. \A t \in Symbol : RolloutOpen(t, closes) => RolloutOpen(t, closes')
      BY <2>0, <3>3 DEF RolloutOpen
    <3>7. ASSUME NEW q \in Worker
          PROVE  (NotAhead(store[q]) /\ SaleOwed(q) /\ (pc[q] = "buying" => RolloutOpen(deal[q][1], closes)))'
      <4>1. CASE q = p
        BY <2>0, <3>2, <3>3, <3>4, <4>1 DEF RolloutInv, NotAhead, SaleOwed, State
      <4>2. CASE q # p
        <5>1. pc'[q] = pc[q] /\ deal'[q] = deal[q] /\ broker'[q] = broker[q] /\ store'[q] = store[q]
          BY <2>0, <3>1, <3>2, <4>2
        <5>2. pc[q] = "buying" => deal[q][1] \in Symbol
          BY DEF TypeInv, Trading
        <5>3. QED
          BY <2>0, <3>3, <3>6, <5>1, <5>2 DEF RolloutInv, NotAhead, SaleOwed, State
      <4>3. QED
        BY <4>1, <4>2
    <3>8. QED
      BY <2>0, <3>2, <3>5, <3>6, <3>7 DEF RolloutInv, NotAhead
  <2>3. ASSUME NEW p \in Worker, Settle(p) PROVE RolloutInv'
    <3>1. /\ pc[p] = "sold" /\ pc' = [pc EXCEPT ![p] = "manage"]
          /\ store' = [store EXCEPT ![p] = IF broker[p][deal[p][1]] = 0
                                           THEN Closed(@, deal[p][1])
                                           ELSE Advanced(@, deal[p][1])]
          /\ deal' = [deal EXCEPT ![p] = NoDeal]
          /\ UNCHANGED <<plan, broker, entered, closes>>
      BY <2>3 DEF Settle, Goto, disk, ghosts
    <3>2. deal[p][1] \in Symbol /\ store[p] \in State
      BY <2>0, <3>1 DEF TypeInv, Trading
    <3>3. NotAhead(store'[p])
      <4>1. store'[p] = IF broker[p][deal[p][1]] = 0 THEN Closed(store[p], deal[p][1])
                                                     ELSE Advanced(store[p], deal[p][1])
        BY <2>0, <3>1
      <4>2. CASE broker[p][deal[p][1]] = 0
        <5>1. /\ store'[p].all = store[p].all + 1
              /\ store'[p].core = store[p].core + (IF deal[p][1] \in Core THEN 1 ELSE 0)
          <6>1. PICK s \in Symbol : s = deal[p][1]
            BY <3>2
          <6>2. store'[p] = Closed(store[p], s)
            BY <4>1, <4>2, <6>1
          <6>3. QED
            BY <3>2, <6>1, <6>2 DEF Closed, State
        <5>2. QED
          BY <2>0, <3>1, <3>2, <4>2, <5>1 DEF RolloutInv, NotAhead, SaleOwed, State
      <4>3. CASE broker[p][deal[p][1]] # 0
        <5>1. store'[p].all = store[p].all /\ store'[p].core = store[p].core
          <6>1. PICK s \in Symbol : s = deal[p][1]
            BY <3>2
          <6>2. store'[p] = Advanced(store[p], s)
            BY <4>1, <4>3, <6>1
          <6>3. QED
            BY <3>2, <6>2 DEF Advanced, State
        <5>2. QED
          BY <5>1 DEF RolloutInv, NotAhead
      <4>4. QED
        BY <4>2, <4>3
    <3>4. ASSUME NEW q \in Worker
          PROVE  (NotAhead(store[q]) /\ SaleOwed(q) /\ (pc[q] = "buying" => RolloutOpen(deal[q][1], closes)))'
      <4>1. CASE q = p
        BY <2>0, <3>1, <3>3, <4>1 DEF NotAhead, SaleOwed
      <4>2. CASE q # p
        BY <2>0, <3>1, <4>2 DEF RolloutInv, NotAhead, SaleOwed, RolloutOpen
      <4>3. QED
        BY <4>1, <4>2
    <3>5. QED
      BY <3>1, <3>4 DEF RolloutInv, NotAhead, RolloutOpen
  <2>4. ASSUME NEW p \in Worker, Record(p) PROVE RolloutInv'
    <3>1. PICK s \in todo[p] :
             /\ store' = [store EXCEPT ![p] = Processed(@, <<s, clock>>)]
             /\ \/ pc' = pc /\ deal' = deal
                \/ /\ RolloutOpen(s, store[p])
                   /\ deal' = [deal EXCEPT ![p] = <<s, clock>>]
                   /\ pc' = [pc EXCEPT ![p] = "buying"]
      BY <2>4 DEF Record, Goto
    <3>2. pc[p] = "process" /\ plan' = store'[p] /\ UNCHANGED <<broker, entered, closes>>
      BY <2>4 DEF Record, Save, ghosts
    <3>3. s \in Symbol /\ store[p] \in State /\ <<s, clock>> \in Symbol \X Candle
      BY <2>0
    <3>4. store'[p].core = store[p].core /\ store'[p].all = store[p].all
      <4>1. store'[p] = Processed(store[p], <<s, clock>>)
        BY <2>0, <3>1
      <4>2. QED
        BY <3>3, <4>1, ProcessedState
    <3>5. RolloutOpen(s, store[p]) => RolloutOpen(s, closes)
      BY <2>0, <3>3 DEF RolloutInv, NotAhead, RolloutOpen, State
    <3>6. ASSUME NEW q \in Worker
          PROVE  (NotAhead(store[q]) /\ SaleOwed(q) /\ (pc[q] = "buying" => RolloutOpen(deal[q][1], closes)))'
      <4>1. CASE q = p
        <5>1. NotAhead(store[q])' /\ pc'[q] # "sold"
          BY <2>0, <3>1, <3>2, <3>4, <4>1 DEF RolloutInv, NotAhead
        <5>2. pc'[q] = "buying" => RolloutOpen(deal'[q][1], closes)
          BY <2>0, <3>1, <3>2, <3>5, <4>1
        <5>3. QED
          BY <3>2, <5>1, <5>2 DEF SaleOwed, RolloutOpen
      <4>2. CASE q # p
        <5>1. pc'[q] = pc[q] /\ deal'[q] = deal[q] /\ broker'[q] = broker[q] /\ store'[q] = store[q]
          BY <2>0, <3>1, <3>2, <4>2
        <5>2. QED
          BY <3>2, <5>1 DEF RolloutInv, NotAhead, SaleOwed, RolloutOpen
      <4>3. QED
        BY <4>1, <4>2
    <3>7. QED
      BY <3>2, <3>4, <3>6 DEF RolloutInv, NotAhead, RolloutOpen
  <2>5. ASSUME NEW p \in Worker, \/ Buy(p) \/ BuyUnpriced(p) PROVE RolloutInv'
    <3>1. /\ pc[p] = "buying" /\ entered' = [entered EXCEPT ![deal[p]] = IF @ < 2 THEN @ + 1 ELSE @]
          /\ UNCHANGED <<closes, store>> /\ plan' \in {plan, store[p]}
          /\ broker' = [broker EXCEPT ![p][deal[p][1]] = deal[p][2]]
      BY <2>5 DEF Buy, BuyUnpriced, Bought, Save
    <3>2. /\ pc'[p] \in {"bought", "process"}
          /\ \A q \in Worker \ {p} : UNCHANGED <<pc[q], store[q], broker[q], deal[q]>>
      BY <2>0, <2>5, <3>1 DEF Buy, BuyUnpriced, Done, Goto
    <3>3. deal[p] \in Symbol \X Candle /\ RolloutOpen(deal[p][1], closes)
      BY <3>1 DEF TypeInv, Trading, RolloutInv
    <3>4. \A s \in Symbol, c \in Candle : entered'[<<s, c>>] > 0 => RolloutOpen(s, closes)
      <4> SUFFICES ASSUME NEW s \in Symbol, NEW c \in Candle, entered'[<<s, c>>] > 0
                   PROVE  RolloutOpen(s, closes)
        OBVIOUS
      <4>1. CASE <<s, c>> = deal[p]
        BY <3>3, <4>1
      <4>2. CASE <<s, c>> # deal[p]
        BY <2>0, <3>1, <4>2 DEF RolloutInv
      <4>3. QED
        BY <4>1, <4>2
    <3>5. ASSUME NEW q \in Worker
          PROVE  (NotAhead(store[q]) /\ SaleOwed(q) /\ (pc[q] = "buying" => RolloutOpen(deal[q][1], closes)))'
      <4>1. CASE q = p
        BY <3>1, <3>2, <4>1 DEF RolloutInv, NotAhead, SaleOwed
      <4>2. CASE q # p
        BY <3>1, <3>2, <4>2 DEF RolloutInv, NotAhead, SaleOwed, RolloutOpen
      <4>3. QED
        BY <4>1, <4>2
    <3>6. QED
      BY <3>1, <3>4, <3>5 DEF RolloutInv, NotAhead, RolloutOpen
  <2>6. ASSUME NEW p \in Worker, Enter(p) PROVE RolloutInv'
    <3>1. /\ pc[p] = "bought" /\ plan' = store'[p]
          /\ store' = [store EXCEPT ![p] = Planned(@, deal[p][1], deal[p][2])]
          /\ deal' = [deal EXCEPT ![p] = NoDeal] /\ pc' = [pc EXCEPT ![p] = "process"]
          /\ UNCHANGED <<broker, entered, closes>>
      BY <2>6 DEF Enter, Done, Goto, Save
    <3>2. deal[p] \in Symbol \X Candle /\ store[p] \in State
      BY <2>0, <3>1 DEF TypeInv, Trading
    <3>3. store'[p].core = store[p].core /\ store'[p].all = store[p].all
      <4>1. PICK s \in Symbol, c \in Candle : s = deal[p][1] /\ c = deal[p][2]
        BY <3>2
      <4>2. store'[p] = Planned(store[p], s, c)
        BY <2>0, <3>1, <4>1
      <4>3. QED
        BY <3>2, <4>2 DEF Planned, State
    <3>4. ASSUME NEW q \in Worker
          PROVE  (NotAhead(store[q]) /\ SaleOwed(q) /\ (pc[q] = "buying" => RolloutOpen(deal[q][1], closes)))'
      <4>1. CASE q = p
        BY <2>0, <3>1, <3>3, <4>1 DEF RolloutInv, NotAhead, SaleOwed
      <4>2. CASE q # p
        BY <2>0, <3>1, <4>2 DEF RolloutInv, NotAhead, SaleOwed, RolloutOpen
      <4>3. QED
        BY <4>1, <4>2
    <3>5. QED
      BY <3>1, <3>3, <3>4 DEF RolloutInv, NotAhead, RolloutOpen
  <2>7. ASSUME NEW p \in Worker,
               \/ BuyFails(p) \/ BuyUnlogged(p) \/ NextRound(p) \/ Finish(p)
               \/ Interrupt(p) \/ Fail(p) \/ RecordCrash(p) \/ Crash(p)
        PROVE  RolloutInv'
    BY <2>0, <2>7, RolloutStep, Zenon
       DEF BuyFails, BuyUnlogged, NextRound, Finish, Interrupt, Fail, RecordCrash, Crash,
           Done, Goto, Save, Gone, disk, memory, ghosts
  <2>8. CASE RemoveStaleLock \/ Tick \/ UNCHANGED vars
    BY <2>8 DEF RemoveStaleLock, Tick, vars, disk, memory, ghosts, RolloutInv, NotAhead, SaleOwed, RolloutOpen
  <2>9. QED
    BY <2>1, <2>2, <2>3, <2>4, <2>5, <2>6, <2>7, <2>8 DEF Next, WorkerStep
<1>3. RolloutInv => RolloutIsEarned
  BY DEF RolloutInv, RolloutIsEarned, RolloutOpen
<1>4. QED
  BY <1>1, <1>2, <1>3, TypeInvariant, PTL DEF Spec

-----------------------------------------------------------------------------
(***************************************************************************)
(* The limits.  Every account is a copy of some process's positions, and   *)
(* those grow only by a position that found room.                          *)
(***************************************************************************)
Fits(positions) ==
    /\ Cardinality(Held(positions)) <= MaxPositions
    /\ Cardinality(Held(positions) \cap Meme) <= MaxMeme

LimitInv ==
    /\ Fits(account)
    /\ \A p \in Worker :
          /\ Fits(broker[p])
          /\ pc[p] = "buying" => HasRoom(p, deal[p][1])

\* The cardinalities of positions are numbers, and fewer positions fit as well.
LEMMA FewerFit ==
    ASSUME NEW positions \in Positions, NEW fewer \in Positions,
           Held(fewer) \subseteq Held(positions), Fits(positions)
    PROVE  Fits(fewer)
<1>1. IsFiniteSet(Held(positions)) /\ IsFiniteSet(Held(positions) \cap Meme)
  BY FS_Subset DEF Held
<1>2. /\ Cardinality(Held(fewer)) \in Nat
      /\ Cardinality(Held(fewer)) <= Cardinality(Held(positions))
      /\ Cardinality(Held(positions)) \in Nat
  BY <1>1, FS_Subset, FS_CardinalityType
<1>3. Held(fewer) \cap Meme \subseteq Held(positions) \cap Meme
  OBVIOUS
<1>4. /\ Cardinality(Held(fewer) \cap Meme) \in Nat
      /\ Cardinality(Held(fewer) \cap Meme) <= Cardinality(Held(positions) \cap Meme)
      /\ Cardinality(Held(positions) \cap Meme) \in Nat
  BY <1>1, <1>3, FS_Subset, FS_CardinalityType
<1>5. QED
  BY <1>2, <1>4 DEF Fits

\* One more position fits where there is room for it.
LEMMA OneMoreFits ==
    ASSUME NEW positions \in Positions, NEW s \in Symbol, NEW c \in Candle, Fits(positions),
           Cardinality(Held(positions)) < MaxPositions,
           s \in Meme => Cardinality(Held(positions) \cap Meme) < MaxMeme
    PROVE  Fits([positions EXCEPT ![s] = c])
<1> DEFINE more == Held([positions EXCEPT ![s] = c])
<1>1. IsFiniteSet(Held(positions)) /\ IsFiniteSet(Held(positions) \cap Meme)
  BY FS_Subset DEF Held
<1>2. /\ Cardinality(Held(positions)) \in Nat
      /\ Cardinality(Held(positions) \cap Meme) \in Nat
  BY <1>1, FS_CardinalityType
<1>3. more = Held(positions) \cup {s}
  BY DEF Held, Positions, Candle
<1> HIDE DEF more
<1>4. Cardinality(more) <= MaxPositions
  <2>1. CASE s \in Held(positions)
    BY <1>2, <1>3, <2>1 DEF Fits
  <2>2. CASE s \notin Held(positions)
    <3>1. Cardinality(Held(positions) \cup {s}) = Cardinality(Held(positions)) + 1
      BY <1>1, <2>2, FS_AddElement
    <3>2. QED
      BY <1>2, <1>3, <3>1
  <2>3. QED
    BY <2>1, <2>2
<1>5. Cardinality(more \cap Meme) <= MaxMeme
  <2>1. CASE s \in Meme /\ s \notin Held(positions)
    <3>1. more \cap Meme = (Held(positions) \cap Meme) \cup {s}
      BY <1>3, <2>1
    <3>2. Cardinality((Held(positions) \cap Meme) \cup {s})
             = Cardinality(Held(positions) \cap Meme) + 1
      BY <1>1, <2>1, FS_AddElement
    <3>3. QED
      BY <1>2, <2>1, <3>1, <3>2
  <2>2. CASE ~(s \in Meme /\ s \notin Held(positions))
    <3>1. more \cap Meme = Held(positions) \cap Meme
      BY <1>3, <2>2
    <3>2. QED
      BY <3>1 DEF Fits
  <2>3. QED
    BY <2>1, <2>2
<1>6. QED
  BY <1>4, <1>5 DEF Fits, more

\* The limits on open positions hold in the account, whatever fails or overlaps:
\* positions that lost their plan count like any other.
THEOREM LimitsKept == Spec => []LimitsHold
<1>1. Init => LimitInv
  <2> SUFFICES ASSUME Init PROVE LimitInv
    OBVIOUS
  <2>1. Held(NoPositions) = {} /\ Held(NoPositions) \cap Meme = {}
    BY DEF Held, NoPositions
  <2>2. Fits(NoPositions)
    BY <2>1, FS_EmptySet DEF Fits
  <2>3. QED
    BY <2>2 DEF Init, LimitInv
<1>2. TypeInv /\ LimitInv /\ [Next]_vars => LimitInv'
  <2> SUFFICES ASSUME TypeInv, LimitInv, [Next]_vars PROVE LimitInv'
    OBVIOUS
  <2>0. /\ pc \in [Worker -> {"off", "opened", "saved", "ready", "failing"} \cup Locked]
        /\ broker \in [Worker -> Positions] /\ account \in Positions
        /\ deal \in [Worker -> (Symbol \X Candle) \cup {NoDeal}]
        /\ todo \in [Worker -> SUBSET Symbol]
    BY DEF TypeInv, TypeOK
  <2>a. Fits(NoPositions)
    <3>1. Held(NoPositions) = {} /\ Held(NoPositions) \cap Meme = {}
      BY DEF Held, NoPositions
    <3>2. QED
      BY <3>1, FS_EmptySet DEF Fits
  <2>b. ASSUME NEW p \in Worker,
               \A q \in Worker \ {p} : UNCHANGED <<pc[q], broker[q], deal[q]>>,
               account' = account \/ account' = broker'[p], Fits(broker'[p]),
               pc'[p] # "buying"
        PROVE  LimitInv'
    <3>1. Fits(account)'
      BY <2>b DEF LimitInv, Fits, Held
    <3>2. ASSUME NEW q \in Worker
          PROVE  (Fits(broker[q]) /\ (pc[q] = "buying" => HasRoom(q, deal[q][1])))'
      <4>1. CASE q = p
        BY <2>b, <4>1 DEF Fits, Held
      <4>2. CASE q # p
        BY <2>b, <4>2, SMTT(30) DEF LimitInv, Fits, Held, HasRoom
      <4>3. QED
        BY <4>1, <4>2
    <3>3. QED
      BY <3>1, <3>2 DEF LimitInv
  <2>1. ASSUME NEW p \in Worker,
               \/ Start(p) \/ SaveScope(p) \/ LeaveUnlocked(p) \/ TakeLock(p)
               \/ CheckFails(p) \/ CheckHolds(p) \/ Settle(p) \/ EndManage(p)
               \/ ProcessFails(p) \/ IgnoreDuplicate(p) \/ BuyFails(p) \/ BuyUnlogged(p)
               \/ Enter(p) \/ NextRound(p) \/ Finish(p) \/ Interrupt(p) \/ Fail(p)
               \/ RecordCrash(p) \/ Crash(p)
        PROVE  LimitInv'
    <3>1. broker' \in {broker, [broker EXCEPT ![p] = NoPositions]} /\ account' = account
      BY <2>1 DEF Start, SaveScope, LeaveUnlocked, TakeLock, CheckFails, CheckHolds, Settle,
           EndManage, ProcessFails, IgnoreDuplicate, BuyFails, BuyUnlogged, Enter, NextRound, Finish,
           Interrupt, Fail, RecordCrash, Crash, Gone, Done, disk, memory, ghosts
    <3>2. /\ pc' # pc => \E place \in {"off", "opened", "saved", "manage", "process", "failing"} :
                            pc' = [pc EXCEPT ![p] = place]
          /\ pc' = pc => pc[p] # "buying"
      BY <2>0, <2>1 DEF Start, SaveScope, LeaveUnlocked, TakeLock, CheckFails, CheckHolds, Settle,
           EndManage, ProcessFails, IgnoreDuplicate, BuyFails, BuyUnlogged, Enter, NextRound, Finish,
           Interrupt, Fail, RecordCrash, Crash, Gone, Done, Goto, Locked, disk, memory, ghosts
    <3>3. deal' \in {deal, [deal EXCEPT ![p] = NoDeal]}
      BY <2>1 DEF Start, SaveScope, LeaveUnlocked, TakeLock, CheckFails, CheckHolds, Settle,
           EndManage, ProcessFails, IgnoreDuplicate, BuyFails, BuyUnlogged, Enter, NextRound, Finish,
           Interrupt, Fail, RecordCrash, Crash, Gone, Done, disk, memory, ghosts
    <3>4. Fits(broker'[p])
      BY <2>0, <2>a, <3>1 DEF LimitInv
    <3>5. \A q \in Worker \ {p} : UNCHANGED <<pc[q], broker[q], deal[q]>>
      BY <2>0, <3>1, <3>2, <3>3
    <3>6. pc'[p] # "buying"
      BY <2>0, <3>2
    <3>7. QED
      BY <2>b, <3>1, <3>4, <3>5, <3>6
  <2>2. ASSUME NEW p \in Worker, LoadAccount(p) PROVE LimitInv'
    <3>1. /\ broker' = [broker EXCEPT ![p] = account] /\ pc' = [pc EXCEPT ![p] = "ready"]
          /\ UNCHANGED <<account, deal>>
      BY <2>2 DEF LoadAccount, Goto, disk
    <3>2. Fits(broker'[p])
      BY <2>0, <3>1 DEF LimitInv
    <3>3. QED
      BY <2>0, <2>b, <3>1, <3>2
  <2>3. ASSUME NEW p \in Worker, Sell(p) PROVE LimitInv'
    <3>1. PICK s \in todo[p], left \in Nat :
             /\ broker' = [broker EXCEPT ![p][s] = left] /\ left \in {0, broker[p][s]}
             /\ deal' = [deal EXCEPT ![p] = <<s, broker[p][s]>>]
      <4>1. PICK s \in todo[p], stopped \in BOOLEAN :
               LET all == stopped \/ IsFinal(store[p].managed[s].next)
               IN  /\ broker' = [broker EXCEPT ![p][s] = IF all THEN 0 ELSE @]
                   /\ deal' = [deal EXCEPT ![p] = <<s, broker[p][s]>>]
        BY <2>3 DEF Sell
      <4> DEFINE left == IF stopped \/ IsFinal(store[p].managed[s].next) THEN 0 ELSE broker[p][s]
      <4>2. broker' = [broker EXCEPT ![p][s] = left]
        BY <4>1
      <4>3. left \in Nat /\ left \in {0, broker[p][s]}
        BY <2>0, <4>1 DEF Positions
      <4>4. QED
        BY <4>1, <4>2, <4>3
    <3>2. account' = broker'[p] /\ pc' = [pc EXCEPT ![p] = "sold"]
      BY <2>3 DEF Sell, Goto
    <3>3. broker'[p] \in Positions /\ Held(broker'[p]) \subseteq Held(broker[p])
      BY <2>0, <3>1 DEF Held, Positions
    <3>4. Fits(broker'[p])
      BY <2>0, <3>3, FewerFit DEF LimitInv
    <3>5. QED
      BY <2>0, <2>b, <3>1, <3>2, <3>4
  <2>4. ASSUME NEW p \in Worker, Record(p) PROVE LimitInv'
    <3>1. PICK s \in todo[p] :
             \/ pc' = pc /\ deal' = deal
             \/ /\ HasRoom(p, s)
                /\ deal' = [deal EXCEPT ![p] = <<s, clock>>]
                /\ pc' = [pc EXCEPT ![p] = "buying"]
      BY <2>4 DEF Record, Goto
    <3>2. pc[p] = "process" /\ UNCHANGED <<account, broker>>
      BY <2>4 DEF Record
    <3>3. ASSUME NEW q \in Worker
          PROVE  (Fits(broker[q]) /\ (pc[q] = "buying" => HasRoom(q, deal[q][1])))'
      <4>1. CASE q = p
        <5>1. pc'[q] = "buying" => HasRoom(q, deal'[q][1])
          BY <2>0, <3>1, <3>2, <4>1
        <5>2. QED
          BY <3>2, <5>1 DEF LimitInv, Fits, Held, HasRoom
      <4>2. CASE q # p
        <5>1. pc'[q] = pc[q] /\ deal'[q] = deal[q]
          BY <2>0, <3>1, <4>2
        <5>2. QED
          BY <3>2, <5>1 DEF LimitInv, Fits, Held, HasRoom
      <4>3. QED
        BY <4>1, <4>2
    <3>4. QED
      BY <3>2, <3>3 DEF LimitInv, Fits, Held
  <2>5. ASSUME NEW p \in Worker, Buy(p) \/ BuyUnpriced(p) PROVE LimitInv'
    <3>1. /\ pc[p] = "buying" /\ account' \in {account, broker'[p]}
          /\ broker' = [broker EXCEPT ![p][deal[p][1]] = deal[p][2]]
          /\ deal' \in {deal, [deal EXCEPT ![p] = NoDeal]}
          /\ pc' \in {[pc EXCEPT ![p] = "bought"], [pc EXCEPT ![p] = "process"]}
      BY <2>5 DEF Buy, BuyUnpriced, Bought, Done, Goto
    <3>2. PICK s \in Symbol, c \in Candle : deal[p] = <<s, c>>
      BY <3>1 DEF TypeInv, Trading
    <3>3. broker'[p] = [broker[p] EXCEPT ![s] = c]
      BY <2>0, <3>1, <3>2
    <3>4. HasRoom(p, s) /\ Fits(broker[p])
      BY <3>1, <3>2 DEF LimitInv
    <3>5. Fits(broker'[p])
      <4>1. /\ broker[p] \in Positions
            /\ Cardinality(Held(broker[p])) < MaxPositions
            /\ s \in Meme => Cardinality(Held(broker[p]) \cap Meme) < MaxMeme
        BY <2>0, <3>4 DEF HasRoom
      <4>2. Fits([broker[p] EXCEPT ![s] = c])
        BY <3>4, <4>1, OneMoreFits
      <4>3. QED
        BY <3>3, <4>2
    <3>6. QED
      BY <2>0, <2>b, <3>1, <3>5
  <2>6. CASE RemoveStaleLock \/ Tick \/ UNCHANGED vars
    BY <2>6 DEF RemoveStaleLock, Tick, vars, disk, memory, ghosts, LimitInv, Fits, Held, HasRoom
  <2>7. QED
    BY <2>1, <2>2, <2>3, <2>4, <2>5, <2>6 DEF Next, WorkerStep
<1>3. LimitInv => LimitsHold
  BY DEF LimitInv, LimitsHold, Fits
<1>4. QED
  BY <1>1, <1>2, <1>3, TypeInvariant, PTL DEF Spec

-----------------------------------------------------------------------------
(***************************************************************************)
(* One process at a time.  What its memory and the store's file have in    *)
(* common, step by step, keeps a decision from being entered twice and a   *)
(* plan from being lost before its position.                               *)
(***************************************************************************)
Alone == \A p, q \in Worker : p # q => pc[p] = "off" \/ pc[q] = "off"

\* Where memory and file hold the same state.
Agreed == {"opened", "saved", "ready", "process", "buying", "bought"}

\* A plan that memory has given up and the file still has.
Dropped(p, s) == plan.managed[s] # NoPlan /\ store[p].managed[s] = NoPlan

WorkerInv(p) ==
    /\ pc[p] \in Agreed => store[p] = plan
    /\ pc[p] # "off" => store[p].processed = plan.processed
    /\ pc[p] = "buying" => deal[p] \in plan.processed /\ entered[deal[p]] = 0
    /\ pc[p] = "sold" => account = broker[p]
    /\ pc[p] \in {"manage", "sold"} =>
          \A s \in Symbol : Dropped(p, s) => account[s] = 0 /\ broker[p][s] = 0
    /\ pc[p] = "failing" => \A s \in Symbol : Dropped(p, s) => account[s] = 0

EnteredOnce ==
    \A d \in Symbol \X Candle : entered[d] <= 1 /\ (entered[d] > 0 => d \in plan.processed)

SerialInv ==
    /\ Alone
    /\ EnteredOnce
    /\ \A p \in Worker : WorkerInv(p)

\* Only the process that takes a step is running, before and after it.
LEMMA OthersOff ==
    ASSUME ~Overlap, TypeInv, Alone, NEW p \in Worker, WorkerStep(p)
    PROVE  /\ Alone'
           /\ \A q \in Worker \ {p} : pc[q] = "off" /\ pc'[q] = "off"
<1>1. pc \in [Worker -> {"off", "opened", "saved", "ready", "failing"} \cup Locked]
  BY DEF TypeInv, TypeOK
<1>2. \A q \in Worker \ {p} : pc'[q] = pc[q]
  BY <1>1 DEF WorkerStep, Start, SaveScope, LoadAccount, LeaveUnlocked, TakeLock, CheckFails,
         CheckHolds, Sell, Settle, EndManage, ProcessFails, IgnoreDuplicate, Record, BuyFails, Buy,
         BuyUnpriced, BuyUnlogged, Enter, NextRound, Finish, Interrupt, Fail, RecordCrash, Crash,
         Gone, Done, Goto, disk, memory, ghosts
<1>3. pc[p] # "off" \/ \A q \in Worker : pc[q] = "off"
  BY <1>1 DEF WorkerStep, Start, SaveScope, LoadAccount, LeaveUnlocked, TakeLock, CheckFails,
         CheckHolds, Sell, Settle, EndManage, ProcessFails, IgnoreDuplicate, Record, BuyFails, Buy,
         BuyUnpriced, BuyUnlogged, Enter, NextRound, Finish, Interrupt, Fail, RecordCrash, Crash,
         Locked
<1>4. QED
  BY <1>1, <1>2, <1>3 DEF Alone

LEMMA SerialStep ==
    ASSUME ~Overlap, TypeInv, TypeInv', SerialInv, NEW p \in Worker, WorkerStep(p)
    PROVE  SerialInv'
<1>1. Alone' /\ \A q \in Worker \ {p} : pc'[q] = "off"
  BY OthersOff DEF SerialInv
<1>2. WorkerInv(p) /\ EnteredOnce
  BY DEF SerialInv
<1>3. ASSUME WorkerInv(p)', EnteredOnce' PROVE SerialInv'
  <2>1. \A q \in Worker \ {p} : WorkerInv(q)'
    BY <1>1 DEF WorkerInv, Agreed
  <2>2. QED
    BY <1>1, <1>3, <2>1 DEF SerialInv
<1>4. /\ pc \in [Worker -> {"off", "opened", "saved", "ready", "failing"} \cup Locked]
      /\ broker \in [Worker -> Positions] /\ account \in Positions
      /\ store \in [Worker -> State] /\ plan \in State
      /\ deal \in [Worker -> (Symbol \X Candle) \cup {NoDeal}]
      /\ todo \in [Worker -> SUBSET Symbol]
      /\ entered \in [Symbol \X Candle -> 0..2]
  BY DEF TypeInv, TypeOK
<1>5. CASE Start(p) \/ SaveScope(p) \/ LoadAccount(p) \/ TakeLock(p) \/ CheckHolds(p)
           \/ IgnoreDuplicate(p) \/ NextRound(p)
  <2>1. UNCHANGED <<account, entered>> /\ plan' = plan
    BY <1>2, <1>4, <1>5 DEF Start, SaveScope, LoadAccount, TakeLock, CheckHolds, IgnoreDuplicate, NextRound,
           Save, disk, memory, ghosts, WorkerInv, Agreed
  <2>2. EnteredOnce'
    BY <1>2, <2>1 DEF EnteredOnce
  <2>3. WorkerInv(p)'
    BY <1>2, <1>4, <1>5, <2>1 DEF Start, SaveScope, LoadAccount, TakeLock, CheckHolds, IgnoreDuplicate, NextRound,
           Save, Goto, disk, memory, ghosts, WorkerInv, Agreed, Dropped, Locked
  <2>4. QED
    BY <1>3, <2>2, <2>3
<1>6. CASE CheckFails(p) \/ EndManage(p) \/ ProcessFails(p) \/ BuyFails(p) \/ BuyUnlogged(p)
  <2>1. UNCHANGED <<account, entered, store, broker>> /\ plan' = store[p] /\ pc[p] # "off"
    BY <1>4, <1>6 DEF CheckFails, EndManage, ProcessFails, BuyFails, BuyUnlogged, Save, memory, ghosts
  <2>2. EnteredOnce'
    BY <1>2, <2>1 DEF EnteredOnce, WorkerInv
  <2>3. pc'[p] \in {"manage", "process"}
    BY <1>4, <1>6 DEF CheckFails, EndManage, ProcessFails, BuyFails, BuyUnlogged, Done, Goto
  <2>4. WorkerInv(p)'
    BY <2>1, <2>3 DEF WorkerInv, Agreed, Dropped
  <2>5. QED
    BY <1>3, <2>2, <2>4
<1>7. CASE LeaveUnlocked(p) \/ Finish(p) \/ Interrupt(p) \/ Crash(p) \/ RecordCrash(p)
  <2>1. UNCHANGED <<account, entered>> /\ plan' \in {plan, store[p]} /\ pc'[p] = "off"
        /\ (plan' = store[p] => pc[p] # "off" \/ plan' = plan)
    BY <1>4, <1>7 DEF LeaveUnlocked, Finish, Interrupt, Crash, RecordCrash, Gone, Goto, disk
  <2>2. EnteredOnce'
    BY <1>2, <2>1 DEF EnteredOnce, WorkerInv
  <2>3. WorkerInv(p)'
    BY <2>1 DEF WorkerInv, Agreed
  <2>4. QED
    BY <1>3, <2>2, <2>3
<1>8. CASE Sell(p)
  <2>1. PICK s \in todo[p], stopped \in BOOLEAN :
           LET all == stopped \/ IsFinal(store[p].managed[s].next)
           IN  /\ broker[p][s] # 0
               /\ broker' = [broker EXCEPT ![p][s] = IF all THEN 0 ELSE @]
    BY <1>8 DEF Sell
  <2>2. /\ pc[p] = "manage" /\ pc'[p] = "sold" /\ account' = broker'[p]
        /\ UNCHANGED <<plan, store, entered>>
    BY <1>4, <1>8 DEF Sell, Goto
  <2>3. \A t \in Symbol : broker[p][t] = 0 => broker'[p][t] = 0
    BY <1>4, <2>1 DEF Positions
  <2>4. WorkerInv(p)'
    BY <1>2, <2>2, <2>3 DEF WorkerInv, Agreed, Dropped
  <2>5. EnteredOnce'
    BY <1>2, <2>2 DEF EnteredOnce
  <2>6. QED
    BY <1>3, <2>4, <2>5
<1>9. CASE Settle(p)
  <2>1. /\ pc[p] = "sold" /\ pc'[p] = "manage" /\ UNCHANGED <<account, plan, broker, entered>>
        /\ store'[p] = IF broker[p][deal[p][1]] = 0 THEN Closed(store[p], deal[p][1])
                                                    ELSE Advanced(store[p], deal[p][1])
    BY <1>4, <1>9 DEF Settle, Goto, disk, ghosts
  <2>2. PICK s \in Symbol : s = deal[p][1]
    BY <2>1 DEF TypeInv, Trading
  <2>3. store'[p].processed = store[p].processed
    BY <1>4, <2>1, <2>2 DEF Closed, Advanced, State
  <2>4. \A t \in Symbol : store'[p].managed[t] = NoPlan /\ store[p].managed[t] # NoPlan =>
                             t = s /\ broker[p][s] = 0
    BY <1>4, <2>1, <2>2 DEF Closed, Advanced, State, Plan, NoPlan
  <2>5. WorkerInv(p)'
    BY <1>2, <2>1, <2>2, <2>3, <2>4 DEF WorkerInv, Agreed, Dropped
  <2>6. EnteredOnce'
    BY <1>2, <2>1 DEF EnteredOnce
  <2>7. QED
    BY <1>3, <2>5, <2>6
<1>10. CASE Record(p)
  <2>1. PICK s \in todo[p] :
           /\ <<s, clock>> \notin store[p].processed
           /\ store' = [store EXCEPT ![p] = Processed(@, <<s, clock>>)]
           /\ \/ UNCHANGED <<pc, deal>>
              \/ /\ deal' = [deal EXCEPT ![p] = <<s, clock>>]
                 /\ pc' = [pc EXCEPT ![p] = "buying"]
    BY <1>10 DEF Record, Goto
  <2>2. pc[p] = "process" /\ plan' = store'[p] /\ UNCHANGED <<account, broker, entered>>
    BY <1>10 DEF Record, Save, ghosts
  <2>3. <<s, clock>> \in Symbol \X Candle
    BY <1>4 DEF TypeInv, TypeOK
  <2>4. store'[p].processed = store[p].processed \cup {<<s, clock>>}
    BY <1>4, <2>1, <2>3 DEF Processed, State
  <2>5. store[p] = plan /\ entered[<<s, clock>>] = 0
    <3>1. store[p] = plan /\ <<s, clock>> \notin plan.processed
      BY <1>2, <2>1, <2>2 DEF WorkerInv, Agreed
    <3>2. QED
      BY <1>2, <1>4, <2>3, <3>1 DEF EnteredOnce
  <2>6. \/ pc'[p] = "process"
        \/ pc'[p] = "buying" /\ deal'[p] = <<s, clock>>
    BY <1>4, <2>1, <2>2
  <2>7. WorkerInv(p)'
    BY <2>2, <2>4, <2>5, <2>6 DEF WorkerInv, Agreed, Dropped
  <2>8. EnteredOnce'
    BY <1>2, <2>2, <2>4, <2>5 DEF EnteredOnce
  <2>9. QED
    BY <1>3, <2>7, <2>8
<1>11. CASE Buy(p) \/ BuyUnpriced(p)
  <2>1. /\ pc[p] = "buying" /\ pc'[p] \in {"bought", "process"} /\ UNCHANGED store
        /\ plan' \in {plan, store[p]}
        /\ entered' = [entered EXCEPT ![deal[p]] = IF @ < 2 THEN @ + 1 ELSE @]
    BY <1>4, <1>11 DEF Buy, BuyUnpriced, Bought, Done, Goto, Save
  <2>2. store[p] = plan /\ plan' = plan
    BY <1>2, <2>1 DEF WorkerInv, Agreed
  <2>3. deal[p] \in Symbol \X Candle /\ deal[p] \in plan.processed /\ entered[deal[p]] = 0
    BY <1>2, <2>1 DEF WorkerInv, TypeInv, Trading
  <2>4. EnteredOnce'
    <3> SUFFICES ASSUME NEW d \in Symbol \X Candle
                 PROVE  entered'[d] <= 1 /\ (entered'[d] > 0 => d \in plan'.processed)
      BY DEF EnteredOnce
    <3>1. CASE d = deal[p]
      BY <1>4, <2>1, <2>2, <2>3, <3>1
    <3>2. CASE d # deal[p]
      BY <1>2, <1>4, <2>1, <2>2, <3>2 DEF EnteredOnce
    <3>3. QED
      BY <3>1, <3>2
  <2>5. WorkerInv(p)'
    BY <2>1, <2>2 DEF WorkerInv, Agreed
  <2>6. QED
    BY <1>3, <2>4, <2>5
<1>12. CASE Enter(p)
  <2>1. /\ pc[p] = "bought" /\ pc'[p] = "process" /\ plan' = store'[p]
        /\ store'[p] = Planned(store[p], deal[p][1], deal[p][2]) /\ UNCHANGED entered
    BY <1>4, <1>12 DEF Enter, Done, Goto, Save
  <2>2. store'[p].processed = store[p].processed /\ store[p] = plan
    BY <1>2, <1>4, <2>1 DEF Planned, State, WorkerInv, Agreed
  <2>3. WorkerInv(p)'
    BY <2>1 DEF WorkerInv, Agreed
  <2>4. EnteredOnce'
    BY <1>2, <2>1, <2>2 DEF EnteredOnce
  <2>5. QED
    BY <1>3, <2>3, <2>4
<1>13. CASE Fail(p)
  <2>1. /\ pc[p] \in {"manage", "sold", "process"} /\ pc'[p] = "failing"
        /\ UNCHANGED <<account, plan, store, entered>>
    BY <1>4, <1>13 DEF Fail, Goto, memory
  <2>2. WorkerInv(p)'
    BY <1>2, <2>1 DEF WorkerInv, Agreed, Dropped
  <2>3. EnteredOnce'
    BY <1>2, <2>1 DEF EnteredOnce
  <2>4. QED
    BY <1>3, <2>2, <2>3
<1>14. QED
  BY <1>5, <1>6, <1>7, <1>8, <1>9, <1>10, <1>11, <1>12, <1>13 DEF WorkerStep

LEMMA SerialCorrect == ASSUME ~Overlap PROVE Spec => []SerialInv
<1>1. Init => SerialInv
  BY DEF Init, SerialInv, Alone, EnteredOnce, WorkerInv, Agreed
<1>2. TypeInv /\ TypeInv' /\ SerialInv /\ [Next]_vars => SerialInv'
  <2> SUFFICES ASSUME TypeInv, TypeInv', SerialInv, [Next]_vars PROVE SerialInv'
    OBVIOUS
  <2>1. ASSUME NEW p \in Worker, WorkerStep(p) PROVE SerialInv'
    BY <2>1, SerialStep
  <2>2. CASE RemoveStaleLock \/ Tick \/ UNCHANGED vars
    BY <2>2 DEF RemoveStaleLock, Tick, vars, disk, memory, ghosts, SerialInv, Alone, EnteredOnce, WorkerInv, Dropped
  <2>3. QED
    BY <2>1, <2>2 DEF Next
<1>3. QED
  BY <1>1, <1>2, TypeInvariant, PTL DEF Spec

\* With one process at a time a decision is entered at most once, however often
\* the worker is killed and restarted within the candle.
THEOREM EnteredAtMostOnce == ASSUME ~Overlap PROVE Spec => []EntryOncePerDecision
<1>1. SerialInv => EntryOncePerDecision
  BY DEF SerialInv, EnteredOnce, EntryOncePerDecision
<1>2. QED
  BY <1>1, SerialCorrect, PTL

\* With one process at a time the file gives up an exit plan only once the
\* position is sold completely.
THEOREM PlansKept == ASSUME ~Overlap PROVE Spec => PlanOutlivesPosition
<1> DEFINE Kept == \A s \in Symbol :
                      plan.managed[s] # NoPlan /\ plan'.managed[s] = NoPlan => account'[s] = 0
<1>1. TypeInv /\ SerialInv /\ [Next]_vars => [Kept]_vars
  <2> SUFFICES ASSUME TypeInv, SerialInv, Next, NEW s \in Symbol,
                      plan.managed[s] # NoPlan, plan'.managed[s] = NoPlan
               PROVE  account'[s] = 0
    OBVIOUS
  <2>0. store \in [Worker -> State] /\ deal \in [Worker -> (Symbol \X Candle) \cup {NoDeal}]
    BY DEF TypeInv, TypeOK
  <2>1. PICK p \in Worker : WorkerStep(p)
    BY DEF Next, RemoveStaleLock, Tick, disk
  <2>2. WorkerInv(p)
    BY DEF SerialInv
  <2>3. CASE /\ SaveScope(p) \/ CheckFails(p) \/ EndManage(p) \/ ProcessFails(p)
                \/ BuyFails(p) \/ BuyUnpriced(p) \/ BuyUnlogged(p) \/ RecordCrash(p)
    <3>1. plan' = store[p] /\ account' = account /\ pc[p] # "off" /\ pc[p] # "sold"
      BY <2>3 DEF SaveScope, CheckFails, EndManage, ProcessFails, BuyFails, BuyUnpriced, BuyUnlogged,
             RecordCrash, Save
    <3>2. pc[p] \in Agreed \cup {"manage", "failing"}
      BY <2>3 DEF SaveScope, CheckFails, EndManage, ProcessFails, BuyFails, BuyUnpriced, BuyUnlogged,
             RecordCrash, Agreed
    <3>3. QED
      BY <2>2, <3>1, <3>2 DEF WorkerInv, Dropped
  <2>4. CASE Record(p) \/ Enter(p)
    <3>1. plan' = store'[p] /\ pc[p] \in {"process", "bought"}
      BY <2>4 DEF Record, Enter, Save
    <3>2. store[p] = plan
      BY <2>2, <3>1 DEF WorkerInv, Agreed
    <3>3. store'[p].managed[s] = NoPlan => store[p].managed[s] = NoPlan
      <4>1. CASE Record(p)
        <5>1. PICK d : store' = [store EXCEPT ![p] = Processed(@, d)]
          BY <4>1 DEF Record
        <5>2. QED
          BY <2>0, <5>1 DEF Processed, State
      <4>2. CASE Enter(p)
        <5>1. PICK t \in Symbol, c \in Candle : deal[p] = <<t, c>>
          BY <4>2 DEF Enter, TypeInv, Trading
        <5>2. store'[p] = Planned(store[p], t, c)
          BY <2>0, <4>2, <5>1 DEF Enter
        <5>3. QED
          BY <2>0, <5>2 DEF Planned, State, NoPlan, Candle
      <4>3. QED
        BY <2>4, <4>1, <4>2
    <3>4. QED
      BY <3>1, <3>2, <3>3
  <2>5. CASE plan' = plan
    BY <2>5
  <2>6. QED
    BY <2>1, <2>3, <2>4, <2>5
       DEF WorkerStep, Start, LoadAccount, LeaveUnlocked, TakeLock, CheckHolds, Sell, Settle,
           IgnoreDuplicate, Buy, NextRound, Finish, Interrupt, Fail, Crash, disk
<1>2. QED
  BY <1>1, TypeInvariant, SerialCorrect, PTL DEF Spec, PlanOutlivesPosition

-----------------------------------------------------------------------------
(***************************************************************************)
(* Damage.  A fill reaches the account at once and the plan later; what    *)
(* was filled in between is under way, and torn if the plan never follows. *)
(***************************************************************************)
\* Memory's positions are the account's, but for torn fills.
BrokerInv(p) ==
    pc[p] \in {"ready"} \cup Locked => \A s \in Symbol \ torn : broker[p][s] = account[s]

\* Memory's plans are the account's positions, but for torn fills and a sale
\* about to be settled.
PlansInv(p) ==
    /\ pc[p] \in {"manage", "failing"} =>
          \A s \in Symbol \ torn : store[p].managed[s].entry = account[s]
    /\ pc[p] = "sold" =>
          \A s \in Symbol \ torn :
              store[p].managed[s].entry = account[s] \/ (s = deal[p][1] /\ account[s] = 0)

UnderwayInv(p) ==
    /\ pc[p] \notin {"manage", "sold", "bought", "failing"} => underway[p] = {}
    /\ pc[p] = "bought" =>
          /\ underway[p] = {deal[p][1]}
          /\ account[deal[p][1]] = deal[p][2] /\ broker[p][deal[p][1]] = deal[p][2]

DamageInv ==
    /\ DamageIsLocal
    /\ \A p \in Worker : BrokerInv(p) /\ PlansInv(p) /\ UnderwayInv(p)

LEMMA DamageStep ==
    ASSUME ~Overlap, TypeInv, TypeInv', SerialInv, DamageInv, NEW p \in Worker, WorkerStep(p)
    PROVE  DamageInv'
<1>1. /\ pc \in [Worker -> {"off", "opened", "saved", "ready", "failing"} \cup Locked]
      /\ broker \in [Worker -> Positions] /\ account \in Positions
      /\ store \in [Worker -> State] /\ plan \in State
      /\ deal \in [Worker -> (Symbol \X Candle) \cup {NoDeal}]
      /\ todo \in [Worker -> SUBSET Symbol]
      /\ underway \in [Worker -> SUBSET Symbol] /\ torn \subseteq Symbol
      /\ underway' \in [Worker -> SUBSET Symbol]
  BY DEF TypeInv, TypeOK
<1>2. \A q \in Worker \ {p} : pc[q] = "off" /\ pc'[q] = "off" /\ underway[q] = {}
  BY OthersOff DEF SerialInv, DamageInv, UnderwayInv
<1>3. \A q \in Worker \ {p} : underway'[q] = underway[q]
  BY <1>1 DEF WorkerStep, Start, SaveScope, LoadAccount, LeaveUnlocked, TakeLock, CheckFails,
         CheckHolds, Sell, Settle, EndManage, ProcessFails, IgnoreDuplicate, Record, BuyFails, Buy,
         BuyUnpriced, BuyUnlogged, Enter, NextRound, Finish, Interrupt, Fail, RecordCrash, Crash,
         Gone, disk, memory, ghosts
<1>4. /\ UNION {underway[q] : q \in Worker} = underway[p]
      /\ UNION {underway'[q] : q \in Worker} = underway'[p]
  BY <1>2, <1>3
<1> DEFINE Local == \A s \in Symbol \ (torn \cup underway[p]) : account[s] = plan.managed[s].entry
<1>5. Local /\ BrokerInv(p) /\ PlansInv(p) /\ UnderwayInv(p) /\ WorkerInv(p)
  BY <1>4 DEF DamageInv, DamageIsLocal, SerialInv
<1>6. ASSUME Local', BrokerInv(p)', PlansInv(p)', UnderwayInv(p)' PROVE DamageInv'
  <2>1. DamageIsLocal'
    BY <1>4, <1>6 DEF DamageIsLocal
  <2>2. \A q \in Worker \ {p} : BrokerInv(q)' /\ PlansInv(q)' /\ UnderwayInv(q)'
    BY <1>2, <1>3 DEF BrokerInv, PlansInv, UnderwayInv, Locked
  <2>3. QED
    BY <1>6, <2>1, <2>2 DEF DamageInv
<1> HIDE DEF Local
<1>7. CASE Start(p) \/ SaveScope(p) \/ LoadAccount(p) \/ TakeLock(p) \/ CheckHolds(p)
           \/ IgnoreDuplicate(p) \/ NextRound(p)
  <2>1. UNCHANGED <<account, torn, underway>> /\ plan' = plan
    BY <1>1, <1>5, <1>7 DEF Start, SaveScope, LoadAccount, TakeLock, CheckHolds, IgnoreDuplicate, NextRound,
           Save, disk, memory, ghosts, WorkerInv, Agreed
  <2>2. Local'
    BY <1>5, <2>1 DEF Local
  <2>3. BrokerInv(p)' /\ UnderwayInv(p)'
    BY <1>1, <1>5, <1>7, <2>1 DEF Start, SaveScope, LoadAccount, TakeLock, CheckHolds, IgnoreDuplicate, NextRound,
           Goto, disk, memory, ghosts, BrokerInv, UnderwayInv, Locked
  <2>4. PlansInv(p)'
    BY <1>1, <1>5, <1>7, <2>1 DEF Start, SaveScope, LoadAccount, TakeLock, CheckHolds, IgnoreDuplicate, NextRound,
           Goto, disk, memory, ghosts, PlansInv, UnderwayInv, Local, WorkerInv, Agreed
  <2>5. QED
    BY <1>6, <2>2, <2>3, <2>4
<1>8. CASE CheckFails(p) \/ ProcessFails(p) \/ BuyFails(p)
  <2>1. /\ UNCHANGED <<account, torn, underway, store, broker>> /\ plan' = store[p]
        /\ \/ pc[p] = "manage" /\ pc'[p] = "manage"
           \/ pc[p] \in {"process", "buying"} /\ pc'[p] = "process"
    BY <1>1, <1>8 DEF CheckFails, ProcessFails, BuyFails, Done, Goto, Save, memory, ghosts
  <2>2. Local'
    BY <1>5, <1>8, <2>1 DEF Local, PlansInv, WorkerInv, Agreed
  <2>3. BrokerInv(p)' /\ UnderwayInv(p)' /\ PlansInv(p)'
    BY <1>5, <2>1 DEF BrokerInv, UnderwayInv, PlansInv, Locked
  <2>4. QED
    BY <1>6, <2>2, <2>3
<1>9. CASE Settle(p)
  <2>1. /\ pc[p] = "sold" /\ pc'[p] = "manage" /\ UNCHANGED <<account, plan, broker, underway, torn>>
        /\ store'[p] = IF broker[p][deal[p][1]] = 0 THEN Closed(store[p], deal[p][1])
                                                    ELSE Advanced(store[p], deal[p][1])
    BY <1>1, <1>9 DEF Settle, Goto, disk, ghosts
  <2>2. PICK s \in Symbol : s = deal[p][1]
    BY <2>1 DEF TypeInv, Trading
  <2>3. broker[p] = account
    BY <1>5, <2>1 DEF WorkerInv
  <2>4. \A t \in Symbol : store'[p].managed[t].entry = IF t = s /\ broker[p][s] = 0
                                                       THEN 0 ELSE store[p].managed[t].entry
    BY <1>1, <2>1, <2>2 DEF Closed, Advanced, State, Plan, NoPlan
  <2>5. PlansInv(p)'
    BY <1>5, <2>1, <2>2, <2>3, <2>4 DEF PlansInv
  <2>6. Local' /\ BrokerInv(p)' /\ UnderwayInv(p)'
    BY <1>5, <2>1 DEF Local, BrokerInv, UnderwayInv, Locked
  <2>7. QED
    BY <1>6, <2>5, <2>6
<1>10. CASE Sell(p)
  <2>1. PICK s \in todo[p], left \in Nat :
           /\ left \in {0, broker[p][s]}
           /\ broker' = [broker EXCEPT ![p][s] = left]
           /\ deal' = [deal EXCEPT ![p] = <<s, broker[p][s]>>]
           /\ underway' = [underway EXCEPT ![p] = @ \cup {s}]
    <3>1. PICK s \in todo[p], stopped \in BOOLEAN :
             LET all == stopped \/ IsFinal(store[p].managed[s].next)
             IN  /\ broker' = [broker EXCEPT ![p][s] = IF all THEN 0 ELSE @]
                 /\ deal' = [deal EXCEPT ![p] = <<s, broker[p][s]>>]
                 /\ underway' = [underway EXCEPT ![p] = @ \cup {s}]
      BY <1>10 DEF Sell
    <3> DEFINE left == IF stopped \/ IsFinal(store[p].managed[s].next) THEN 0 ELSE broker[p][s]
    <3>2. broker' = [broker EXCEPT ![p][s] = left]
      BY <3>1
    <3>3. left \in Nat /\ left \in {0, broker[p][s]}
      BY <1>1, <3>1 DEF Positions
    <3>4. QED
      BY <3>1, <3>2, <3>3
  <2>2. /\ pc[p] = "manage" /\ pc'[p] = "sold" /\ account' = broker'[p]
        /\ UNCHANGED <<plan, store, torn>>
    BY <1>1, <1>10 DEF Sell, Goto
  <2>3. s \in Symbol /\ deal'[p][1] = s /\ underway'[p] = underway[p] \cup {s}
    BY <1>1, <2>1
  <2>4. /\ \A t \in Symbol \ {s} : account'[t] = broker[p][t]
        /\ account'[s] \in {0, broker[p][s]}
    BY <1>1, <2>1, <2>2, <2>3 DEF Positions
  <2>5. \A t \in Symbol \ torn : broker[p][t] = account[t] /\ store[p].managed[t].entry = account[t]
    BY <1>5, <2>2 DEF BrokerInv, PlansInv, Locked
  <2>6. Local'
    BY <1>5, <2>2, <2>3, <2>4, <2>5 DEF Local
  <2>7. PlansInv(p)'
    BY <2>2, <2>3, <2>4, <2>5 DEF PlansInv
  <2>8. BrokerInv(p)' /\ UnderwayInv(p)'
    BY <2>2 DEF BrokerInv, UnderwayInv
  <2>9. QED
    BY <1>6, <2>6, <2>7, <2>8
<1>11. CASE EndManage(p)
  <2>1. /\ pc[p] = "manage" /\ pc'[p] = "process" /\ plan' = store[p] /\ underway'[p] = {}
        /\ UNCHANGED <<account, store, broker, torn>>
    BY <1>1, <1>11 DEF EndManage, Goto, Save
  <2>2. Local' /\ BrokerInv(p)' /\ PlansInv(p)' /\ UnderwayInv(p)'
    BY <1>5, <2>1 DEF Local, BrokerInv, PlansInv, UnderwayInv, Locked
  <2>3. QED
    BY <1>6, <2>2
<1>12. CASE Record(p)
  <2>1. /\ pc[p] = "process" /\ pc'[p] \in {"process", "buying"} /\ plan' = store'[p]
        /\ UNCHANGED <<account, broker, underway, torn>>
    BY <1>1, <1>12 DEF Record, Goto, Save, ghosts
  <2>2. plan'.managed = plan.managed
    <3>1. PICK d : store'[p] = Processed(store[p], d)
      BY <1>1, <1>12 DEF Record
    <3>2. QED
      BY <1>1, <1>5, <2>1, <3>1 DEF Processed, State, WorkerInv, Agreed
  <2>3. Local' /\ BrokerInv(p)' /\ PlansInv(p)' /\ UnderwayInv(p)'
    BY <1>5, <2>1, <2>2 DEF Local, BrokerInv, PlansInv, UnderwayInv, Locked
  <2>4. QED
    BY <1>6, <2>3
<1>13. CASE Buy(p)
  <2>1. /\ pc[p] = "buying" /\ pc'[p] = "bought" /\ account' = broker'[p]
        /\ broker' = [broker EXCEPT ![p][deal[p][1]] = deal[p][2]]
        /\ underway'[p] = underway[p] \cup {deal[p][1]} /\ UNCHANGED <<plan, store, deal, torn>>
    BY <1>1, <1>13 DEF Buy, Bought, Goto
  <2>2. PICK s \in Symbol, c \in Candle : s = deal[p][1] /\ c = deal[p][2]
    BY <2>1 DEF TypeInv, Trading
  <2>3. account'[s] = c /\ \A t \in Symbol \ {s} : account'[t] = broker[p][t]
    BY <1>1, <2>1, <2>2 DEF Positions
  <2>4. underway[p] = {} /\ \A t \in Symbol \ torn : broker[p][t] = account[t]
    BY <1>5, <2>1 DEF UnderwayInv, BrokerInv, Locked
  <2>5. Local'
    BY <1>5, <2>1, <2>2, <2>3, <2>4 DEF Local
  <2>6. BrokerInv(p)' /\ PlansInv(p)' /\ UnderwayInv(p)'
    BY <2>1, <2>2, <2>3, <2>4 DEF BrokerInv, PlansInv, UnderwayInv
  <2>7. QED
    BY <1>6, <2>5, <2>6
<1>14. CASE BuyUnpriced(p)
  <2>1. /\ pc[p] = "buying" /\ pc'[p] = "process" /\ plan' = store[p]
        /\ broker' = [broker EXCEPT ![p][deal[p][1]] = deal[p][2]]
        /\ torn' = torn \cup {deal[p][1]} /\ UNCHANGED <<account, store, underway>>
    BY <1>1, <1>14 DEF BuyUnpriced, Bought, Done, Goto, Save
  <2>2. store[p] = plan
    BY <1>5, <2>1 DEF WorkerInv, Agreed
  <2>3. PICK s \in Symbol, c \in Candle : s = deal[p][1] /\ c = deal[p][2]
    BY <2>1 DEF TypeInv, Trading
  <2>4. \A t \in Symbol \ {s} : broker'[p][t] = broker[p][t]
    BY <1>1, <2>1, <2>3 DEF Positions
  <2>5. Local' /\ BrokerInv(p)' /\ PlansInv(p)' /\ UnderwayInv(p)'
    BY <1>5, <2>1, <2>2, <2>3, <2>4 DEF Local, BrokerInv, PlansInv, UnderwayInv, Locked
  <2>6. QED
    BY <1>6, <2>5
<1>15. CASE BuyUnlogged(p)
  <2>1. /\ pc[p] = "bought" /\ pc'[p] = "process" /\ plan' = store[p] /\ underway'[p] = {}
        /\ torn' = torn \cup {deal[p][1]} /\ UNCHANGED <<account, store, broker>>
    BY <1>1, <1>15 DEF BuyUnlogged, Done, Goto, Save
  <2>2. store[p] = plan /\ underway[p] = {deal[p][1]}
    BY <1>5, <2>1 DEF WorkerInv, Agreed, UnderwayInv
  <2>3. Local' /\ BrokerInv(p)' /\ PlansInv(p)' /\ UnderwayInv(p)'
    BY <1>5, <2>1, <2>2 DEF Local, BrokerInv, PlansInv, UnderwayInv, Locked
  <2>4. QED
    BY <1>6, <2>3
<1>16. CASE Enter(p)
  <2>1. /\ pc[p] = "bought" /\ pc'[p] = "process" /\ plan' = store'[p] /\ underway'[p] = {}
        /\ store'[p] = Planned(store[p], deal[p][1], deal[p][2])
        /\ torn' = torn \ {deal[p][1]} /\ UNCHANGED <<account, broker>>
    BY <1>1, <1>16 DEF Enter, Done, Goto, Save
  <2>2. PICK s \in Symbol, c \in Candle : s = deal[p][1] /\ c = deal[p][2]
    BY <2>1 DEF TypeInv, Trading
  <2>3. store[p] = plan /\ underway[p] = {s} /\ account[s] = c /\ broker[p][s] = c
    BY <1>5, <2>1, <2>2 DEF WorkerInv, Agreed, UnderwayInv
  <2>4. \A t \in Symbol : plan'.managed[t].entry = IF t = s THEN c ELSE plan.managed[t].entry
    BY <1>1, <2>1, <2>2, <2>3 DEF Planned, State, Plan
  <2>5. Local'
    BY <1>5, <2>1, <2>2, <2>3, <2>4 DEF Local
  <2>6. BrokerInv(p)' /\ PlansInv(p)' /\ UnderwayInv(p)'
    BY <1>5, <2>1, <2>2, <2>3 DEF BrokerInv, PlansInv, UnderwayInv, Locked
  <2>7. QED
    BY <1>6, <2>5, <2>6
<1>17. CASE LeaveUnlocked(p) \/ Finish(p) \/ Interrupt(p) \/ Crash(p)
  <2>1. /\ pc'[p] = "off" /\ UNCHANGED <<account, plan>>
        /\ torn' = torn \cup underway[p] /\ underway'[p] = {}
    BY <1>1, <1>17 DEF LeaveUnlocked, Finish, Interrupt, Crash, Gone, Goto, disk
  <2>2. Local' /\ BrokerInv(p)' /\ PlansInv(p)' /\ UnderwayInv(p)'
    BY <1>5, <2>1 DEF Local, BrokerInv, PlansInv, UnderwayInv, Locked
  <2>3. QED
    BY <1>6, <2>2
<1>18. CASE Fail(p)
  <2>1. /\ pc[p] \in {"manage", "sold", "process"} /\ pc'[p] = "failing"
        /\ torn' = IF pc[p] = "sold" THEN torn \cup {deal[p][1]} ELSE torn
        /\ UNCHANGED <<account, plan, store, underway>>
    BY <1>1, <1>18 DEF Fail, Goto, memory
  <2>2. pc[p] = "process" => underway[p] = {} /\ store[p] = plan
    BY <1>5 DEF UnderwayInv, WorkerInv, Agreed
  <2>3. Local' /\ BrokerInv(p)' /\ PlansInv(p)' /\ UnderwayInv(p)'
    BY <1>5, <2>1, <2>2 DEF Local, BrokerInv, PlansInv, UnderwayInv, Locked
  <2>4. QED
    BY <1>6, <2>3
<1>19. CASE RecordCrash(p)
  <2>1. /\ pc[p] = "failing" /\ pc'[p] = "off" /\ plan' = store[p] /\ underway'[p] = {}
        /\ UNCHANGED <<account, torn>>
    BY <1>1, <1>19 DEF RecordCrash, Goto
  <2>2. Local' /\ BrokerInv(p)' /\ PlansInv(p)' /\ UnderwayInv(p)'
    BY <1>5, <2>1 DEF Local, BrokerInv, PlansInv, UnderwayInv, Locked
  <2>3. QED
    BY <1>6, <2>2
<1>20. QED
  BY <1>7, <1>8, <1>9, <1>10, <1>11, <1>12, <1>13, <1>14, <1>15, <1>16, <1>17, <1>18, <1>19
     DEF WorkerStep

\* With one process at a time account and plan disagree only about symbols whose
\* fill was cut off from its plan, wherever the worker was stopped.
THEOREM DamageStaysLocal == ASSUME ~Overlap PROVE Spec => []DamageIsLocal
<1>1. Init => DamageInv
  BY DEF Init, DamageInv, DamageIsLocal, BrokerInv, PlansInv, UnderwayInv, NoPositions, FirstState,
         NoPlan, Locked
<1>2. TypeInv /\ TypeInv' /\ SerialInv /\ DamageInv /\ [Next]_vars => DamageInv'
  <2> SUFFICES ASSUME TypeInv, TypeInv', SerialInv, DamageInv, [Next]_vars PROVE DamageInv'
    OBVIOUS
  <2>1. ASSUME NEW p \in Worker, WorkerStep(p) PROVE DamageInv'
    BY <2>1, DamageStep
  <2>2. CASE RemoveStaleLock \/ Tick \/ UNCHANGED vars
    BY <2>2 DEF RemoveStaleLock, Tick, vars, disk, memory, ghosts, DamageInv, DamageIsLocal,
           BrokerInv, PlansInv, UnderwayInv
  <2>3. QED
    BY <2>1, <2>2 DEF Next
<1>3. DamageInv => DamageIsLocal
  BY DEF DamageInv
<1>4. QED
  BY <1>1, <1>2, <1>3, TypeInvariant, SerialCorrect, PTL DEF Spec
=============================================================================
