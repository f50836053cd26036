----------------------------- MODULE MarketReplay -----------------------------
(***************************************************************************)
(* A replay of stored candles with checkpoints (engine/market_replay.py).  *)
(*                                                                         *)
(* The replay walks through the candles of each symbol and keeps a row for *)
(* every decision.  Now and then, and after each symbol, it saves a        *)
(* checkpoint: first where it is (a JSON file), then the rows (a CSV file),*)
(* each replaced as a whole.  A launch with --resume reads both and goes   *)
(* on.  The process may be killed at any step, and each save may fail.     *)
(***************************************************************************)
EXTENDS Naturals, FiniteSets

CONSTANTS
    Symbol,       \* config.symbols
    Last,         \* candles to replay of each symbol: 1..Last
    Decision,     \* the candles that give a row: all, or with --directional-only some
    Cap,          \* max_decisions_per_symbol, 0 for no limit
    Every,        \* checkpoint_every, 0 for none but after each symbol
    MaxLaunch,    \* bound: launches of the replay
    NoSymbol

Row == Symbol \X (1 .. Last)

ASSUME ReplayAssumption ==
    /\ Last \in Nat
    /\ Decision \subseteq Row
    /\ Cap \in Nat
    /\ Every \in Nat
    /\ MaxLaunch \in Nat
    /\ NoSymbol \notin Symbol

VARIABLES
    saved,        \* checkpoint file: next candle of each symbol, symbols completed, symbols without error
    savedRows,    \* rows file of the checkpoint
    published,    \* this run's rows in the cumulative file
    registry,     \* status of the run in the experiment registry
    launches,     \* launches so far
    pc,           \* what the process is doing
    then,         \* where it goes on after a save
    mem,          \* its copy of the checkpoint
    rows,         \* its rows
    symbol,       \* the symbol it is at
    todo,         \* symbols its loop has not come to
    count,        \* rows of this symbol in this launch
    errors,       \* error_count of this launch
    halfSaved,    \* only remembers: the checkpoint file is newer than the rows file
    torn          \* only remembers: rows in memory when a crash met a checkpoint half saved

files == <<saved, savedRows, published, registry>>
memory == <<mem, rows, symbol, todo, count, errors>>
remembered == <<launches, halfSaved, torn>>
replayVars == <<saved, savedRows, published, registry, launches, pc, then, mem, rows,
                symbol, todo, count, errors, halfSaved, torn>>

Progress == [next : [Symbol -> 1 .. Last + 1], done : SUBSET Symbol, ok : SUBSET Symbol]
Start == [next |-> [s \in Symbol |-> 1], done |-> {}, ok |-> {}]

ReplayTypeOK ==
    /\ saved \in Progress
    /\ mem \in Progress
    /\ savedRows \subseteq Row
    /\ published \subseteq Row
    /\ rows \subseteq Row
    /\ torn \subseteq Row
    /\ registry \in {"NONE", "RUNNING", "COMPLETED", "FAILED"}
    /\ launches \in 0 .. MaxLaunch
    /\ pc \in {"off", "symbols", "candles", "saveState", "saveRows", "publish", "finish"}
    /\ then \in {"symbols", "candles", "finish"}
    /\ symbol \in Symbol \cup {NoSymbol}
    /\ pc = "candles" => symbol \in Symbol
    /\ pc \in {"saveState", "saveRows"} /\ then = "candles" => symbol \in Symbol
    /\ todo \subseteq Symbol
    /\ count \in Nat
    /\ errors \in Nat
    /\ halfSaved \in BOOLEAN

\* No checkpoint file and no rows file: _load_checkpoint returns nothing.
ReplayInit ==
    /\ saved = Start
    /\ savedRows = {}
    /\ published = {}
    /\ registry = "NONE"
    /\ launches = 0
    /\ pc = "off"
    /\ then = "symbols"
    /\ mem = Start
    /\ rows = {}
    /\ symbol = NoSymbol
    /\ todo = {}
    /\ count = 0
    /\ errors = 0
    /\ halfSaved = FALSE
    /\ torn = {}

Candle == mem.next[symbol]
CapReached == Cap # 0 /\ count >= Cap

-----------------------------------------------------------------------------
\* Plausible bugs: each replaces one of the definitions below in a run that
\* must then fail.

\* The rows are restored, the position is not.
RestoredRowsOnly == Start

\* The position is restored, the rows are not.
RestoredNoRows == {}

-----------------------------------------------------------------------------
\* What a launch starts from.
Restored == saved
RestoredRows == savedRows

\* run_market_replay begins: the registry row is replaced, the checkpoint read.
Launch ==
    /\ pc = "off"
    /\ launches < MaxLaunch
    /\ launches' = launches + 1
    /\ registry' = "RUNNING"
    /\ mem' = Restored
    /\ rows' = RestoredRows
    /\ todo' = Symbol
    /\ errors' = 0
    /\ pc' = "symbols"
    /\ UNCHANGED <<saved, savedRows, published, then, symbol, count, halfSaved, torn>>

\* The loop over the symbols skips those the checkpoint has as completed.
NextSymbol(s) ==
    /\ pc = "symbols"
    /\ s \in todo \ mem.done
    /\ symbol' = s
    /\ todo' = todo \ {s}
    /\ count' = 0
    /\ pc' = "candles"
    /\ UNCHANGED <<files, then, mem, rows, errors, remembered>>

NoSymbolLeft ==
    /\ pc = "symbols"
    /\ todo \subseteq mem.done
    /\ pc' = "publish"
    /\ UNCHANGED <<files, then, memory, remembered>>

Advance == mem' = [mem EXCEPT !.next[symbol] = Candle + 1]

SkipNeutral ==
    /\ pc = "candles"
    /\ Candle <= Last
    /\ ~CapReached
    /\ <<symbol, Candle>> \notin Decision
    /\ Advance
    /\ UNCHANGED <<files, pc, then, rows, symbol, todo, count, errors, remembered>>

\* A checkpoint is due whenever the number of rows is a multiple of Every.
SaveDue(n) == Every # 0 /\ n % Every = 0

Decide ==
    /\ pc = "candles"
    /\ Candle <= Last
    /\ ~CapReached
    /\ <<symbol, Candle>> \in Decision
    /\ Advance
    /\ rows' = rows \cup {<<symbol, Candle>>}
    /\ count' = count + 1
    /\ then' = "candles"
    /\ pc' = IF SaveDue(Cardinality(rows')) THEN "saveState" ELSE "candles"
    /\ UNCHANGED <<files, symbol, todo, errors, remembered>>

Exhausted == Candle > Last \/ CapReached

CompleteSymbol ==
    /\ pc = "candles"
    /\ Exhausted
    /\ mem' = [mem EXCEPT !.done = @ \cup {symbol}, !.ok = @ \cup {symbol}]
    /\ then' = "symbols"
    /\ pc' = "saveState"
    /\ UNCHANGED <<files, rows, symbol, todo, count, errors, remembered>>

\* Loading, the leakage audit or an analysis raises: the symbol is given up.
FailSymbol ==
    /\ pc = "candles"
    /\ errors' = errors + 1
    /\ mem' = [mem EXCEPT !.ok = @ \ {symbol}]
    /\ pc' = "symbols"
    /\ UNCHANGED <<files, then, rows, symbol, todo, count, remembered>>

-----------------------------------------------------------------------------
(* _save_checkpoint: two files, one after the other. *)

SaveState ==
    /\ pc = "saveState"
    /\ saved' = mem
    /\ halfSaved' = TRUE
    /\ pc' = "saveRows"
    /\ UNCHANGED <<savedRows, published, registry, launches, then, memory, torn>>

SaveRows ==
    /\ pc = "saveRows"
    /\ savedRows' = IF rows = {} THEN savedRows ELSE rows
    /\ halfSaved' = FALSE
    /\ pc' = then
    /\ UNCHANGED <<saved, published, registry, launches, then, memory, torn>>

\* Either write fails.  Within the loop the exception ends the symbol, which
\* keeps its good result if it was complete; after the loop it ends the process.
SaveFails ==
    /\ pc \in {"saveState", "saveRows"}
    /\ then # "finish"
    /\ errors' = errors + 1
    /\ mem' = IF then = "candles" THEN [mem EXCEPT !.ok = @ \ {symbol}] ELSE mem
    /\ pc' = "symbols"
    /\ UNCHANGED <<files, then, rows, symbol, todo, count, remembered>>

-----------------------------------------------------------------------------
\* The rows are merged into the cumulative file by decision_id.
Publish ==
    /\ pc = "publish"
    /\ published' = published \cup rows
    /\ then' = "finish"
    /\ pc' = "saveState"
    /\ UNCHANGED <<saved, savedRows, registry, memory, remembered>>

RunOk == rows # {} /\ mem.ok = Symbol /\ errors = 0

Finish ==
    /\ pc = "finish"
    /\ registry' = IF RunOk THEN "COMPLETED" ELSE "FAILED"
    /\ pc' = "off"
    /\ UNCHANGED <<saved, savedRows, published, then, memory, remembered>>

\* Killed, or an exception nobody catches.
Crash ==
    /\ pc # "off"
    /\ pc' = "off"
    /\ torn' = IF halfSaved THEN torn \cup (rows \ savedRows) ELSE torn
    /\ halfSaved' = FALSE
    /\ UNCHANGED <<files, then, memory, launches>>

Save == SaveState \/ SaveRows
Candles == SkipNeutral \/ Decide \/ CompleteSymbol \/ FailSymbol
Loop == (\E s \in Symbol : NextSymbol(s)) \/ NoSymbolLeft

ReplayNext ==
    \/ Launch \/ Loop \/ Candles \/ Save \/ SaveFails
    \/ Publish \/ Finish \/ Crash

ReplaySpec == ReplayInit /\ [][ReplayNext]_replayVars

-----------------------------------------------------------------------------
(* Properties *)

\* The rows an uninterrupted replay finds: the first Cap decisions of a symbol.
Expected ==
    {r \in Decision :
        Cap = 0 \/ Cardinality({d \in Decision : d[1] = r[1] /\ d[2] <= r[2]}) <= Cap}

\* However often the replay was killed and resumed, a run that is registered as
\* COMPLETED has published every decision, but for those that were in memory
\* when a crash came between the two files of a checkpoint.
OnlyTornRowsAreLost ==
    registry = "COMPLETED" => Expected \subseteq published \cup torn

\* The checkpoints are atomic: a COMPLETED run has every decision.
CompletedRunIsWhole ==
    registry = "COMPLETED" => Expected \subseteq published

\* No candle is analysed again whose row the run already has: a resumed run
\* counts each decision once, so its checkpoints fall where they should.
NoDecisionIsRepeated ==
    [][count' = count + 1 => <<symbol, Candle>> \notin rows]_replayVars
=============================================================================
