------------------------------ MODULE PaperLedger ------------------------------
(***************************************************************************)
(* The ledger of paper trades, logs/paper_trades.csv, and its evaluations, *)
(* logs/paper_trade_evaluations.csv.                                       *)
(*                                                                         *)
(* Two programs append to the ledger: the scan (record_paper_observations, *)
(* with risk limits) and the portfolio scanner (record_paper_trades_from_  *)
(* portfolio, without).  Each reads the file, chooses, reads it again,     *)
(* writes paper_trades.csv.tmp and renames it; no lock is held.  The       *)
(* evaluator reads the ledger, fetches candles and writes one evaluation   *)
(* per row; it never writes to the ledger, so a row's status stays OPEN    *)
(* and a row of the ledger is modelled by its paper_trade_id alone.        *)
(***************************************************************************)
EXTENDS Naturals, Sequences, FiniteSets, SequencesExt

CONSTANTS
    Signals,            \* paper_trade_ids of the scan, numbered in order of __timestamp
    Portfolio,          \* paper_trade_ids of the portfolio scanner
    SymbolOf,           \* symbol of each trade
    Born,               \* its entry candle
    Scanners, Recorders,\* processes of the two programs
    MaxOpen,            \* max_open_trades
    MaxPerSymbol,       \* max_open_per_symbol
    MaxRisk,            \* max_total_open_risk_pct, in units of risk_per_trade_pct
    MaxAge,             \* closed candles a signal stays fresh (max_signal_age_hours)
    Window,             \* candles the evaluator fetches (limit)
    Touches,            \* what a candle may do to a trade
    Answers,            \* what a provider may answer the evaluator
    Overlap,            \* processes run at the same time
    NoFile,             \* no temporary file
    Horizon             \* bound on candles

Trades == Signals \cup Portfolio
Processes == Scanners \cup Recorders

ASSUME LedgerAssumption ==
    /\ Signals \subseteq Nat
    /\ Portfolio \subseteq Nat /\ Signals \cap Portfolio = {}
    /\ Born \in [Trades -> 1..Horizon] /\ DOMAIN SymbolOf = Trades
    /\ Scanners \cap Recorders = {}
    /\ {MaxOpen, MaxPerSymbol, MaxRisk, MaxAge, Window, Horizon} \subseteq Nat \ {0}
    /\ Touches \subseteq {"quiet", "stop", "target"} /\ "quiet" \in Touches
    /\ Answers \subseteq {"fails", "empty", "late", "current"}
    /\ Overlap \in BOOLEAN
    /\ NoFile \notin Seq(Trades)

VARIABLES
    now,        \* the last closed candle
    touch,      \* what each candle so far did to each portfolio trade
    ledger,     \* rows of paper_trades.csv
    temp,       \* paper_trades.csv.tmp
    proc,       \* the writers: where they are and what they hold
    evals,      \* status of the rows of paper_trade_evaluations.csv
    evaluator,  \* rows the evaluator has read, NoFile when it does not run
    refused     \* history variable: signals the last scan refused for a limit

vars == <<now, touch, ledger, temp, proc, evals, evaluator, refused>>

-----------------------------------------------------------------------------
Rows(s) == {s[i] : i \in DOMAIN s}

Evaluation == {"ERROR", "PENDING", "OPEN", "stop", "target"}

Closed == {"stop", "target"}

\* A writer: where it is, the rows it read, the signals it has still to look at,
\* the rows it chose, and the rows it read again before it writes.
Writer == [at : {"idle", "choose", "reread", "write", "replace"},
           seen : Seq(Trades), queue : SUBSET Signals, batch : Seq(Trades), base : Seq(Trades)]

Idle == [at |-> "idle", seen |-> <<>>, queue |-> {}, batch |-> <<>>, base |-> <<>>]

TypeOK ==
    /\ now \in 0..Horizon
    /\ touch \in [Portfolio -> [1..Horizon -> Touches]]
    /\ ledger \in Seq(Trades)
    /\ temp \in Seq(Trades) \/ temp = NoFile
    /\ proc \in [Processes -> Writer]
    /\ DOMAIN evals \subseteq Trades /\ \A t \in DOMAIN evals : evals[t] \in Evaluation
    /\ evaluator \in Seq(Trades) \/ evaluator = NoFile
    /\ refused \subseteq Signals

Init ==
    /\ now = 0
    /\ touch = [t \in Portfolio |-> [c \in 1..Horizon |-> "quiet"]]
    /\ ledger = <<>> /\ temp = NoFile
    /\ proc = [p \in Processes |-> Idle]
    /\ evals = <<>> /\ evaluator = NoFile
    /\ refused = {}

\* A process may start: always, or when no other one is at work.
MayStart(p) ==
    /\ proc[p].at = "idle"
    /\ Overlap \/ \A q \in Processes : proc[q].at = "idle"

Step(p, r) == proc' = [proc EXCEPT ![p] = r]

-----------------------------------------------------------------------------
(***************************************************************************)
(* Plausible bugs, used only to show that the properties can fail.         *)
(***************************************************************************)
\* The limits count the ledger only, not the rows chosen in this scan.
OpenRowsOfTheFile(p) == proc[p].seen

\* The file is not read again before it is replaced: only the new rows are written.
RereadSkipped(p) ==
    /\ proc[p].at = "reread"
    /\ Step(p, [proc[p] EXCEPT !.at = "write", !.base = <<>>])
    /\ UNCHANGED <<now, touch, ledger, temp, evals, evaluator, refused>>

\* The ids of the ledger are not looked at, only those chosen in this scan.
ConsiderAnew(p) ==
    /\ p \in Scanners /\ proc[p].at = "choose"
    /\ \E s \in proc[p].queue :
          IF s \in Rows(proc[p].batch) \/ now - Born[s] >= MaxAge
            THEN Step(p, [proc[p] EXCEPT !.queue = @ \ {s}])
            ELSE Step(p, [proc[p] EXCEPT !.queue = @ \ {s}, !.batch = Append(@, s)])
    /\ UNCHANGED <<now, touch, ledger, temp, evals, evaluator, refused>>

\* The entry candle is walked too: iloc[entry_idx:].
FutureWithEntry(t, newest) == {c \in 1..newest : c + Window > newest /\ c >= Born[t]}

\* The walk does not stop at the first touch.
WalkToTheEnd(t, newest) ==
    LET touched == {c \in 1..newest : c + Window > newest /\ c > Born[t] /\ touch[t][c] # "quiet"}
    IN  IF touched = {} THEN "OPEN"
        ELSE touch[t][CHOOSE c \in touched : \A d \in touched : c >= d]

\* A failed row keeps the text of its exception as its status.
JudgeRaw(t, newest) == IF t \in Signals THEN "TypeError" ELSE "OPEN"

-----------------------------------------------------------------------------
\* A candle closes; the monitor adds its decisions to decisions.csv.
Tick ==
    /\ now < Horizon
    /\ now' = now + 1
    /\ \E move \in [Portfolio -> Touches] :
          touch' = [t \in Portfolio |-> [touch[t] EXCEPT ![now + 1] = move[t]]]
    /\ UNCHANGED <<ledger, temp, proc, evals, evaluator, refused>>

\* Signals of the decisions written so far.
Decided == {s \in Signals : Born[s] <= now}

\* The scan reads the ledger.  A ledger with rows of the portfolio scanner only
\* has no virtual_risk_pct column, and summing it raises AttributeError.
ScanRead(p) ==
    /\ MayStart(p)
    /\ ledger # <<>> => Rows(ledger) \cap Signals # {}
    /\ Step(p, [Idle EXCEPT !.at = "choose", !.seen = ledger, !.queue = Decided])
    /\ refused' = {}
    /\ UNCHANGED <<now, touch, ledger, temp, evals, evaluator>>

Stale(s) == now - Born[s] >= MaxAge

\* Every row of the ledger counts as open: OPEN is the only status ever written.
OpenRows(p) == proc[p].seen \o proc[p].batch

OfSymbol(x) == {t \in Trades : SymbolOf[t] = x}

\* Number of rows that are in S. Rows of the portfolio scanner, which are not
\* in Signals, carry no virtual risk.
Count(rows, S) == Cardinality({i \in DOMAIN rows : rows[i] \in S})

AtLimit(rows, s) ==
    \/ Len(rows) >= MaxOpen
    \/ Count(rows, OfSymbol(SymbolOf[s])) >= MaxPerSymbol
    \/ Count(rows, Signals) + 1 > MaxRisk

\* One turn of the scan's loop over the selected signals, in the order of
\* __timestamp.
Consider(p) ==
    /\ p \in Scanners /\ proc[p].at = "choose"
    /\ \E s \in proc[p].queue :
          LET rest == proc[p].queue \ {s}
              known == s \in Rows(OpenRows(p))
          IN  /\ \A other \in rest : s < other
              /\ IF known \/ Stale(s) \/ AtLimit(OpenRows(p), s)
                   THEN /\ Step(p, [proc[p] EXCEPT !.queue = rest])
                        /\ refused' = IF known \/ Stale(s) THEN refused ELSE refused \cup {s}
                   ELSE /\ Step(p, [proc[p] EXCEPT !.queue = rest, !.batch = Append(@, s)])
                        /\ UNCHANGED refused
    /\ UNCHANGED <<now, touch, ledger, temp, evals, evaluator>>

\* The scan has chosen; without a new row it writes nothing.
Chosen(p) ==
    /\ p \in Scanners /\ proc[p].at = "choose" /\ proc[p].queue = {}
    /\ Step(p, IF proc[p].batch = <<>> THEN Idle ELSE [proc[p] EXCEPT !.at = "reread"])
    /\ UNCHANGED <<now, touch, ledger, temp, evals, evaluator, refused>>

\* The portfolio scanner records a candidate it does not find in the ledger.
RecordPortfolio(p) ==
    /\ MayStart(p)
    /\ \E t \in Portfolio \ Rows(ledger) :
          /\ Born[t] = now
          /\ Step(p, [Idle EXCEPT !.at = "reread", !.seen = ledger, !.batch = <<t>>])
    /\ UNCHANGED <<now, touch, ledger, temp, evals, evaluator, refused>>

-----------------------------------------------------------------------------
\* _atomic_append and _append_rows: read again, write the temporary file, rename.
Reread(p) ==
    /\ proc[p].at = "reread"
    /\ Step(p, [proc[p] EXCEPT !.at = "write", !.base = ledger])
    /\ UNCHANGED <<now, touch, ledger, temp, evals, evaluator, refused>>

WriteTemp(p) ==
    /\ proc[p].at = "write"
    /\ temp' = proc[p].base \o proc[p].batch
    /\ Step(p, [proc[p] EXCEPT !.at = "replace"])
    /\ UNCHANGED <<now, touch, ledger, evals, evaluator, refused>>

\* The name is shared: another writer may have renamed it away.
Replace(p) ==
    /\ proc[p].at = "replace"
    /\ IF temp = NoFile
         THEN UNCHANGED <<ledger, temp>>
         ELSE ledger' = temp /\ temp' = NoFile
    /\ Step(p, Idle)
    /\ UNCHANGED <<now, touch, evals, evaluator, refused>>

\* A writer dies, or its step times out; the orchestrator runs it again.
Crash(p) ==
    /\ proc[p].at # "idle"
    /\ Step(p, Idle)
    /\ UNCHANGED <<now, touch, ledger, temp, evals, evaluator, refused>>

-----------------------------------------------------------------------------
EvalRead ==
    /\ evaluator = NoFile
    /\ ledger # <<>>
    /\ evaluator' = ledger
    /\ UNCHANGED <<now, touch, ledger, temp, proc, evals, refused>>

\* The candles a provider returns: the last Window ones, up to the newest it has.
Fetched(newest) == {c \in 1..newest : c + Window > newest}

\* The candle taken for the entry: the trade's own, or the first one fetched.
EntryCandle(t, newest) == CHOOSE c \in Fetched(newest) :
    /\ c >= Born[t]
    /\ \A d \in Fetched(newest) : d >= Born[t] => c <= d

Future(t, newest) == {c \in Fetched(newest) : c > EntryCandle(t, newest)}

\* The first later candle that touches the stop or the target decides.
Walk(t, newest) ==
    IF \A c \in Future(t, newest) : touch[t][c] = "quiet" THEN "OPEN"
    ELSE LET first == CHOOSE c \in Future(t, newest) :
                         /\ touch[t][c] # "quiet"
                         /\ \A d \in Future(t, newest) : touch[t][d] # "quiet" => c <= d
         IN  touch[t][first]

\* _evaluate_one_trade.  entry_time of the scan carries +00:00; the fetched index
\* is naive, and comparing the two raises TypeError.
Judge(t, newest) ==
    IF t \in Signals THEN "ERROR"
    ELSE IF Born[t] > newest THEN "PENDING"
    ELSE Walk(t, newest)

\* Per trade the provider fails, returns nothing, or has candles up to now or to
\* the one before.  All rows are replaced.
EvalWrite ==
    /\ evaluator # NoFile
    /\ \E answer \in [Rows(evaluator) -> Answers] :
          evals' = [t \in Rows(evaluator) |->
                      CASE answer[t] = "fails" -> "ERROR"
                        [] answer[t] = "empty" \/ (answer[t] = "late" /\ now = 1) -> "PENDING"
                        [] answer[t] = "late" /\ now # 1 -> Judge(t, now - 1)
                        [] answer[t] = "current" -> Judge(t, now)]
    /\ evaluator' = NoFile
    /\ UNCHANGED <<now, touch, ledger, temp, proc, refused>>

EvalCrash ==
    /\ evaluator # NoFile
    /\ evaluator' = NoFile
    /\ UNCHANGED <<now, touch, ledger, temp, proc, evals, refused>>

Next ==
    \/ Tick
    \/ \E p \in Scanners : ScanRead(p) \/ Consider(p) \/ Chosen(p)
    \/ \E p \in Recorders : RecordPortfolio(p)
    \/ \E p \in Processes : Reread(p) \/ WriteTemp(p) \/ Replace(p) \/ Crash(p)
    \/ EvalRead \/ EvalWrite \/ EvalCrash

Spec == Init /\ [][Next]_vars

-----------------------------------------------------------------------------
\* The scan never fills the ledger beyond its limits, however often it crashes,
\* is retried or runs after the portfolio scanner.
LimitsHold ==
    /\ Count(ledger, Signals) <= MaxOpen
    /\ Count(ledger, Signals) <= MaxRisk
    /\ \A s \in Signals : Count(ledger, Signals \cap OfSymbol(SymbolOf[s])) <= MaxPerSymbol

\* A scan that died after its rename is run again and finds its rows: no signal
\* is recorded twice.
NoDuplicateRows == IsInjective(ledger)

\* A row once in the ledger stays, in its place.
RowsStay == [][IsPrefix(ledger, ledger')]_vars

\* A trade is closed only by a candle after its entry candle, even when the
\* fetched window no longer reaches the entry.
NoEarlyClose ==
    \A t \in DOMAIN evals : evals[t] \in Closed =>
        \E c \in 1..now : c > Born[t] /\ touch[t][c] = evals[t]

\* While the fetched window still reaches the entry, later evaluations never
\* turn a loss into a win or a win into a loss.
ResultIsFinal ==
    [][\A t \in DOMAIN evals \cap DOMAIN evals' :
          /\ evals[t] \in Closed /\ evals'[t] \in Closed
          /\ Born[t] + Window > now
          => evals'[t] = evals[t]]_vars

\* The runbook: the scan applies a maximum of open trades, in total and per
\* symbol.  A signal is refused only while that many trades are not yet closed.
RefusedOnlyForOpenTrades ==
    [][\A s \in refused' \ refused : \A p \in Scanners :
          LET stillOpen == SelectSeq(OpenRows(p), LAMBDA t : t \notin DOMAIN evals \/ evals[t] \notin Closed)
          IN  s \in proc[p].queue \ proc'[p].queue => AtLimit(stillOpen, s)]_vars

\* The observation's own note asks for its evaluation on the next bar: with the
\* candles at hand the evaluator does not end in an error.
ObservationsAreEvaluated == "fails" \notin Answers => \A t \in DOMAIN evals : evals[t] # "ERROR"
=============================================================================
