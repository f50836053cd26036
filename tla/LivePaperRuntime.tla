--------------------------- MODULE LivePaperRuntime ---------------------------
(***************************************************************************)
(* The live paper runtime (engine/live_paper_runtime.py), its mock broker  *)
(* (engine/live_demo.py) and the main loop around them (live_paper.py).    *)
(*                                                                         *)
(* A worker keeps two files under its state root.  account_state.json is   *)
(* the broker's: cash and positions, saved at every fill.                  *)
(* runtime_state.json is the store's: the decisions processed, the exit    *)
(* plan of each position (managed_positions) and the closed trades.  The   *)
(* two are saved at different moments, and the constructor reads both, and *)
(* writes one, before runtime.lock is taken.  The controller stops a       *)
(* worker with a signal it does not handle: between any two steps.         *)
(*                                                                         *)
(* A decision is a symbol and a candle.  Of a position only the candle it  *)
(* was bought on is kept, as its entry price; of prices, which of the      *)
(* plan's levels a check finds touched.                                    *)
(***************************************************************************)
EXTENDS Naturals, FiniteSets

CONSTANTS
    Worker,         \* processes of live_paper.py on one state root
    Overlap,        \* may a process start while another one runs
    Core, Growth, Meme,     \* symbols of the universe, by group
    MaxPositions,   \* maximum_concurrent_positions
    MaxMeme,        \* maximum_concurrent_meme_positions
    CoreNeeded,     \* closed core trades that unlock growth
    TotalNeeded,    \* closed trades that unlock memes
    Targets,        \* targets of a plan
    MaxCandle       \* bound on the candles decided on

Symbol == Core \cup Growth \cup Meme
Candle == 1..MaxCandle

ASSUME LiveAssumption ==
    /\ Overlap \in BOOLEAN
    /\ Core \cap Growth = {} /\ Core \cap Meme = {} /\ Growth \cap Meme = {}
    /\ IsFiniteSet(Symbol)
    /\ MaxPositions \in Nat /\ MaxMeme \in Nat
    /\ CoreNeeded \in Nat /\ TotalNeeded \in Nat
    /\ Targets \in Nat \ {0} /\ MaxCandle \in Nat \ {0}

VARIABLES
    lock,       \* runtime.lock: "free", "held", or "stale" once its process died
    account,    \* account_state.json: candle each position was bought on, 0 if none
    plan,       \* runtime_state.json
    pc,         \* next step of each process
    store,      \* its runtime state in memory
    broker,     \* its positions in memory
    todo,       \* symbols left in the loop it is in
    deal,       \* symbol and candle it trades
    clock,      \* last closed candle
    entered,    \* history variable: entries made per decision
    closes,     \* history variable: positions sold completely
    underway,   \* history variable: symbols filled in the loop or entry under way
    torn        \* history variable: symbols whose fill never reached the plan

disk == <<lock, account, plan>>
memory == <<store, broker, todo, deal>>
ghosts == <<entered, closes, underway, torn>>
vars == <<disk, pc, memory, clock, ghosts>>

-----------------------------------------------------------------------------
\* An exit plan: the candle of its decision and the target it waits for.
Plan == [entry : 0..MaxCandle, next : 1..Targets]
NoPlan == [entry |-> 0, next |-> 1]
State == [processed : SUBSET (Symbol \X Candle), managed : [Symbol -> Plan],
          core : Nat, all : Nat]
Positions == [Symbol -> 0..MaxCandle]

NoPositions == [s \in Symbol |-> 0]
FirstState == [processed |-> {}, managed |-> [s \in Symbol |-> NoPlan], core |-> 0, all |-> 0]
NoDeal == <<>>

Held(positions) == {s \in Symbol : positions[s] # 0}
Managed(state) == {s \in Symbol : state.managed[s] # NoPlan}

\* What a step makes of the store's state.
Processed(state, decision) == [state EXCEPT !.processed = @ \cup {decision}]
Planned(state, s, candle) == [state EXCEPT !.managed[s] = [entry |-> candle, next |-> 1]]
Advanced(state, s) == [state EXCEPT !.managed[s].next = @ + 1]
Closed(state, s) ==
    [state EXCEPT !.managed[s] = NoPlan, !.all = @ + 1,
                  !.core = @ + (IF s \in Core THEN 1 ELSE 0)]

\* Where a process holds runtime.lock.
Locked == {"manage", "sold", "process", "buying", "bought"}

TypeOK ==
    /\ lock \in {"free", "held", "stale"}
    /\ account \in Positions /\ plan \in State
    /\ pc \in [Worker -> {"off", "opened", "saved", "ready", "failing"} \cup Locked]
    /\ store \in [Worker -> State] /\ broker \in [Worker -> Positions]
    /\ todo \in [Worker -> SUBSET Symbol]
    /\ deal \in [Worker -> (Symbol \X Candle) \cup {NoDeal}]
    /\ clock \in Candle
    /\ entered \in [Symbol \X Candle -> 0..2]
    /\ closes \in [core : Nat, all : Nat]
    /\ underway \in [Worker -> SUBSET Symbol] /\ torn \subseteq Symbol

Init ==
    /\ lock = "free" /\ account = NoPositions /\ plan = FirstState
    /\ pc = [p \in Worker |-> "off"]
    /\ store = [p \in Worker |-> FirstState] /\ broker = [p \in Worker |-> NoPositions]
    /\ todo = [p \in Worker |-> {}] /\ deal = [p \in Worker |-> NoDeal]
    /\ clock = 1
    /\ entered = [d \in Symbol \X Candle |-> 0]
    /\ closes = [core |-> 0, all |-> 0]
    /\ underway = [p \in Worker |-> {}] /\ torn = {}

Goto(p, place) == pc' = [pc EXCEPT ![p] = place]

\* store.save(): the file becomes the copy in memory.
Save(p) == plan' = store'[p]

\* The process is gone, and its memory with it; the fills it was busy with are torn.
Gone(p) ==
    /\ Goto(p, "off")
    /\ store' = [store EXCEPT ![p] = FirstState]
    /\ broker' = [broker EXCEPT ![p] = NoPositions]
    /\ todo' = [todo EXCEPT ![p] = {}] /\ deal' = [deal EXCEPT ![p] = NoDeal]
    /\ torn' = torn \cup underway[p]
    /\ underway' = [underway EXCEPT ![p] = {}]

-----------------------------------------------------------------------------
(***************************************************************************)
(* Plausible bugs, used only to show that the properties can fail.         *)
(***************************************************************************)
\* A half exit counts as a closed trade.
SettleCounting(p) ==
    /\ pc[p] = "sold"
    /\ LET s == deal[p][1]
       IN  /\ store' = [store EXCEPT ![p] =
                          IF broker[p][s] = 0 THEN Closed(@, s)
                                              ELSE [Advanced(@, s) EXCEPT !.all = @ + 1]]
           /\ todo' = [todo EXCEPT ![p] = @ \ {s}]
    /\ deal' = [deal EXCEPT ![p] = NoDeal]
    /\ Goto(p, "manage")
    /\ UNCHANGED <<disk, broker, clock, ghosts>>

\* The plan goes with the first exit, whatever is left of the position.
SettleDropping(p) ==
    /\ pc[p] = "sold"
    /\ LET s == deal[p][1]
       IN  /\ store' = [store EXCEPT ![p] = Closed(@, s)]
           /\ todo' = [todo EXCEPT ![p] = @ \ {s}]
    /\ deal' = [deal EXCEPT ![p] = NoDeal]
    /\ Goto(p, "manage")
    /\ UNCHANGED <<disk, broker, clock, ghosts>>

\* The exits are saved with the next decision.
EndManageUnsaved(p) ==
    /\ pc[p] = "manage" /\ todo[p] = {}
    /\ todo' = [todo EXCEPT ![p] = Symbol]
    /\ underway' = [underway EXCEPT ![p] = {}]
    /\ Goto(p, "process")
    /\ UNCHANGED <<disk, store, broker, deal, clock, entered, closes, torn>>

\* The limits count the plans instead of the broker's positions.
HasRoomForPlan(p, s) ==
    LET open == {t \in Symbol : store[p].managed[t] # NoPlan}
    IN  /\ s \notin open
        /\ Cardinality(open) < MaxPositions
        /\ s \in Meme => Cardinality(open \cap Meme) < MaxMeme

-----------------------------------------------------------------------------
(***************************************************************************)
(* The process starts: LivePaperRuntime.__init__, then the lock.           *)
(***************************************************************************)

\* RuntimeStore reads runtime_state.json.
Start(p) ==
    /\ pc[p] = "off"
    /\ Overlap \/ \A q \in Worker : pc[q] = "off"
    /\ store' = [store EXCEPT ![p] = plan]
    /\ Goto(p, "opened")
    /\ UNCHANGED <<disk, broker, todo, deal, clock, ghosts>>

\* The constructor writes it back with its mode and scope.
SaveScope(p) ==
    /\ pc[p] = "opened"
    /\ UNCHANGED store
    /\ Save(p)
    /\ Goto(p, "saved")
    /\ UNCHANGED <<lock, account, broker, todo, deal, clock, ghosts>>

\* MockBroker reads account_state.json.
LoadAccount(p) ==
    /\ pc[p] = "saved"
    /\ broker' = [broker EXCEPT ![p] = account]
    /\ Goto(p, "ready")
    /\ UNCHANGED <<disk, store, todo, deal, clock, ghosts>>

\* --gate-status prints and returns; a worker that finds the lock returns 2.
LeaveUnlocked(p) ==
    /\ pc[p] = "ready"
    /\ Gone(p)
    /\ UNCHANGED <<disk, clock, entered, closes>>

TakeLock(p) ==
    /\ pc[p] = "ready" /\ lock = "free"
    /\ lock' = "held"
    /\ todo' = [todo EXCEPT ![p] = Managed(store[p])]
    /\ Goto(p, "manage")
    /\ UNCHANGED <<account, plan, store, broker, deal, clock, ghosts>>

-----------------------------------------------------------------------------
(***************************************************************************)
(* manage_exits: every planned position, then one save.                    *)
(***************************************************************************)

\* The price cannot be fetched: record_handled_symbol_failure saves the store.
CheckFails(p) ==
    /\ pc[p] = "manage"
    /\ \E s \in todo[p] : todo' = [todo EXCEPT ![p] = @ \ {s}]
    /\ UNCHANGED store
    /\ Save(p)
    /\ UNCHANGED <<lock, account, pc, broker, deal, clock, ghosts>>

\* No level is touched, or there is no position to sell.
CheckHolds(p) ==
    /\ pc[p] = "manage"
    /\ \E s \in todo[p] : todo' = [todo EXCEPT ![p] = @ \ {s}]
    /\ UNCHANGED <<disk, pc, store, broker, deal, clock, ghosts>>

IsFinal(target) == target >= Targets

\* The stop or the awaited target is touched: the broker sells all or half and
\* saves its account.
Sell(p) ==
    /\ pc[p] = "manage"
    /\ \E s \in todo[p], stopped \in BOOLEAN :
          LET all == stopped \/ IsFinal(store[p].managed[s].next)
          IN  /\ broker[p][s] # 0
              /\ broker' = [broker EXCEPT ![p][s] = IF all THEN 0 ELSE @]
              /\ deal' = [deal EXCEPT ![p] = <<s, broker[p][s]>>]
              /\ closes' = [core |-> closes.core + (IF all /\ s \in Core THEN 1 ELSE 0),
                            all |-> closes.all + (IF all THEN 1 ELSE 0)]
              /\ underway' = [underway EXCEPT ![p] = @ \cup {s}]
    /\ account' = broker'[p]
    /\ Goto(p, "sold")
    /\ UNCHANGED <<lock, plan, store, todo, clock, entered, torn>>

\* The plan in memory follows: dropped and counted, or moved to the next target.
Settle(p) ==
    /\ pc[p] = "sold"
    /\ LET s == deal[p][1]
       IN  /\ store' = [store EXCEPT ![p] = IF broker[p][s] = 0 THEN Closed(@, s)
                                                               ELSE Advanced(@, s)]
           /\ todo' = [todo EXCEPT ![p] = @ \ {s}]
    /\ deal' = [deal EXCEPT ![p] = NoDeal]
    /\ Goto(p, "manage")
    /\ UNCHANGED <<disk, broker, clock, ghosts>>

EndManage(p) ==
    /\ pc[p] = "manage" /\ todo[p] = {}
    /\ UNCHANGED store
    /\ Save(p)
    /\ todo' = [todo EXCEPT ![p] = Symbol]
    /\ underway' = [underway EXCEPT ![p] = {}]
    /\ Goto(p, "process")
    /\ UNCHANGED <<lock, account, broker, deal, clock, entered, closes, torn>>

-----------------------------------------------------------------------------
(***************************************************************************)
(* process_symbol, for each symbol of the universe.                        *)
(***************************************************************************)

\* The price or the analysis fails: main() catches it and saves the store.
ProcessFails(p) ==
    /\ pc[p] = "process"
    /\ \E s \in todo[p] : todo' = [todo EXCEPT ![p] = @ \ {s}]
    /\ UNCHANGED store
    /\ Save(p)
    /\ UNCHANGED <<lock, account, pc, broker, deal, clock, ghosts>>

\* The decision of this candle was processed before.
IgnoreDuplicate(p) ==
    /\ pc[p] = "process"
    /\ \E s \in todo[p] :
          /\ <<s, clock>> \in store[p].processed
          /\ todo' = [todo EXCEPT ![p] = @ \ {s}]
    /\ UNCHANGED <<disk, pc, store, broker, deal, clock, ghosts>>

\* Growth and memes are locked until enough trades were closed.
RolloutOpen(s, state) ==
    /\ s \in Growth => state.core >= CoreNeeded
    /\ s \in Meme => state.all >= TotalNeeded

\* No position yet, and room for one more.
HasRoom(p, s) ==
    /\ broker[p][s] = 0
    /\ Cardinality(Held(broker[p])) < MaxPositions
    /\ s \in Meme => Cardinality(Held(broker[p]) \cap Meme) < MaxMeme

\* A plausible bug: the decision is saved with the plan, once the position is
\* bought.
RecordUnsaved(p) ==
    /\ pc[p] = "process"
    /\ \E s \in todo[p] :
          /\ <<s, clock>> \notin store[p].processed
          /\ store' = [store EXCEPT ![p] = Processed(@, <<s, clock>>)]
          /\ \/ /\ todo' = [todo EXCEPT ![p] = @ \ {s}]
                /\ UNCHANGED <<pc, deal>>
             \/ /\ RolloutOpen(s, store[p]) /\ HasRoom(p, s)
                /\ deal' = [deal EXCEPT ![p] = <<s, clock>>]
                /\ Goto(p, "buying")
                /\ UNCHANGED todo
    /\ UNCHANGED <<disk, broker, clock, ghosts>>

\* record_intent: the decision counts as processed, on disk, before anything is
\* bought.  The rest may refuse it: the intent's own checks, the two loss
\* limits, the open risk.
Record(p) ==
    /\ pc[p] = "process"
    /\ \E s \in todo[p] :
          /\ <<s, clock>> \notin store[p].processed
          /\ store' = [store EXCEPT ![p] = Processed(@, <<s, clock>>)]
          /\ \/ /\ todo' = [todo EXCEPT ![p] = @ \ {s}]
                /\ UNCHANGED <<pc, deal>>
             \/ /\ RolloutOpen(s, store[p]) /\ HasRoom(p, s)
                /\ deal' = [deal EXCEPT ![p] = <<s, clock>>]
                /\ Goto(p, "buying")
                /\ UNCHANGED todo
    /\ Save(p)
    /\ UNCHANGED <<lock, account, broker, clock, ghosts>>

\* The symbol is done with: main() goes on to the next one.
Done(p) ==
    /\ todo' = [todo EXCEPT ![p] = @ \ {deal[p][1]}]
    /\ deal' = [deal EXCEPT ![p] = NoDeal]
    /\ Goto(p, "process")

\* buy_market raises before it changes anything.
BuyFails(p) ==
    /\ pc[p] = "buying"
    /\ Done(p)
    /\ UNCHANGED store
    /\ Save(p)
    /\ UNCHANGED <<lock, account, broker, clock, ghosts>>

Bought(p) ==
    /\ broker' = [broker EXCEPT ![p][deal[p][1]] = deal[p][2]]
    /\ entered' = [entered EXCEPT ![deal[p]] = IF @ < 2 THEN @ + 1 ELSE @]

\* The broker takes the position and saves its account.
Buy(p) ==
    /\ pc[p] = "buying"
    /\ Bought(p)
    /\ account' = broker'[p]
    /\ underway' = [underway EXCEPT ![p] = @ \cup {deal[p][1]}]
    /\ Goto(p, "bought")
    /\ UNCHANGED <<lock, plan, store, todo, deal, clock, closes, torn>>

\* The broker takes the position, then cannot price another one for the fill's
\* equity: the account is not saved, and main() goes on with the position in
\* memory.
BuyUnpriced(p) ==
    /\ pc[p] = "buying"
    /\ Held(broker[p]) # {}
    /\ Bought(p)
    /\ Done(p)
    /\ UNCHANGED store
    /\ Save(p)
    /\ torn' = torn \cup {deal[p][1]}
    /\ UNCHANGED <<lock, account, clock, closes, underway>>

\* fills.csv cannot be appended to: main() goes on, the position has no plan.
BuyUnlogged(p) ==
    /\ pc[p] = "bought"
    /\ Done(p)
    /\ UNCHANGED store
    /\ Save(p)
    /\ underway' = [underway EXCEPT ![p] = {}]
    /\ torn' = torn \cup {deal[p][1]}
    /\ UNCHANGED <<lock, account, broker, clock, entered, closes>>

\* The position's plan is recorded and saved: stop, targets, entry.
Enter(p) ==
    /\ pc[p] = "bought"
    /\ store' = [store EXCEPT ![p] = Planned(@, deal[p][1], deal[p][2])]
    /\ Save(p)
    /\ Done(p)
    /\ underway' = [underway EXCEPT ![p] = {}]
    /\ torn' = torn \ {deal[p][1]}
    /\ UNCHANGED <<lock, account, broker, clock, entered, closes>>

\* --loop: the next round, after a while.
NextRound(p) ==
    /\ pc[p] = "process" /\ todo[p] = {}
    /\ todo' = [todo EXCEPT ![p] = Managed(store[p])]
    /\ Goto(p, "manage")
    /\ UNCHANGED <<disk, store, broker, deal, clock, ghosts>>

-----------------------------------------------------------------------------
(***************************************************************************)
(* How a process ends.                                                     *)
(***************************************************************************)

\* One round was asked for.
Finish(p) ==
    /\ pc[p] = "process" /\ todo[p] = {}
    /\ Gone(p)
    /\ lock' = "free"
    /\ UNCHANGED <<account, plan, clock, entered, closes>>

\* Ctrl+C: the lock is released, nothing is saved.
Interrupt(p) ==
    /\ pc[p] \in Locked
    /\ Gone(p)
    /\ lock' = "free"
    /\ UNCHANGED <<account, plan, clock, entered, closes>>

\* An exception outside the loop over the symbols: an exit whose fill cannot be
\* priced (nothing is saved of it) or logged, a plan that cannot be saved.  The
\* lock is released first.
Fail(p) ==
    /\ pc[p] \in {"manage", "sold"} \/ (pc[p] = "process" /\ todo[p] = {})
    /\ lock' = "free"
    /\ torn' = IF pc[p] = "sold" THEN torn \cup {deal[p][1]} ELSE torn
    /\ Goto(p, "failing")
    /\ UNCHANGED <<account, plan, memory, clock, entered, closes, underway>>

\* record_unhandled_crash saves the store.
RecordCrash(p) ==
    /\ pc[p] = "failing"
    /\ plan' = store[p]
    /\ Goto(p, "off")
    /\ store' = [store EXCEPT ![p] = FirstState]
    /\ broker' = [broker EXCEPT ![p] = NoPositions]
    /\ todo' = [todo EXCEPT ![p] = {}] /\ deal' = [deal EXCEPT ![p] = NoDeal]
    /\ underway' = [underway EXCEPT ![p] = {}]
    /\ UNCHANGED <<lock, account, clock, entered, closes, torn>>

\* Killed, or stopped by the controller, whose signal nothing handles.
Crash(p) ==
    /\ pc[p] # "off"
    /\ Gone(p)
    /\ lock' = IF pc[p] \in Locked THEN "stale" ELSE lock
    /\ UNCHANGED <<account, plan, clock, entered, closes>>

\* The controller removes a lock whose process is gone.
RemoveStaleLock ==
    /\ lock = "stale"
    /\ lock' = "free"
    /\ UNCHANGED <<account, plan, pc, memory, clock, ghosts>>

\* A candle closes.
Tick ==
    /\ clock < MaxCandle
    /\ clock' = clock + 1
    /\ UNCHANGED <<disk, pc, memory, ghosts>>

WorkerStep(p) ==
    \/ Start(p) \/ SaveScope(p) \/ LoadAccount(p) \/ LeaveUnlocked(p) \/ TakeLock(p)
    \/ CheckFails(p) \/ CheckHolds(p) \/ Sell(p) \/ Settle(p) \/ EndManage(p)
    \/ ProcessFails(p) \/ IgnoreDuplicate(p) \/ Record(p)
    \/ BuyFails(p) \/ Buy(p) \/ BuyUnpriced(p) \/ BuyUnlogged(p) \/ Enter(p)
    \/ NextRound(p) \/ Finish(p) \/ Interrupt(p) \/ Fail(p) \/ RecordCrash(p) \/ Crash(p)

Next == (\E p \in Worker : WorkerStep(p)) \/ RemoveStaleLock \/ Tick

Spec == Init /\ [][Next]_vars

-----------------------------------------------------------------------------
\* A decision is entered at most once, however often the worker is killed and
\* restarted within its candle.
EntryOncePerDecision == \A d \in Symbol \X Candle : entered[d] <= 1

\* Positions without a plan, which only a restart or a later fill brings to
\* light, count against the limits like any other.
LimitsHold ==
    /\ Cardinality(Held(account)) <= MaxPositions
    /\ Cardinality(Held(account) \cap Meme) <= MaxMeme

\* Growth and memes are entered only after enough positions were sold
\* completely: half exits do not count, nor does a close count twice because its
\* sale and its count are saved at different moments.
RolloutIsEarned ==
    \A s \in Symbol, c \in Candle :
        entered[<<s, c>>] > 0 =>
            /\ s \in Growth => closes.core >= CoreNeeded
            /\ s \in Meme => closes.all >= TotalNeeded

\* A position that has an exit plan keeps it until it is sold completely.
PlanOutlivesPosition ==
    [][\A s \in Symbol :
          plan.managed[s] # NoPlan /\ plan'.managed[s] = NoPlan => account'[s] = 0]_vars

\* Account and plan disagree only about symbols whose last fill was cut off from
\* the plan, or is about to reach it: an interruption never damages another one.
DamageIsLocal ==
    \A s \in Symbol \ (torn \cup UNION {underway[p] : p \in Worker}) :
        account[s] = plan.managed[s].entry

\* The runtime stopped safely: every position has its exit plan.
StoppedSafely ==
    (\A p \in Worker : pc[p] = "off") =>
        \A s \in Held(account) : plan.managed[s].entry = account[s]
=============================================================================
