--------------------------- MODULE PaperLedger_proofs ---------------------------
(***************************************************************************)
(* Theorems about PaperLedger, for any signals, trades, limits, writers    *)
(* and window: its type, the limits of the scan, the rows of the ledger    *)
(* when writers do not overlap, and what the evaluator may say of a trade. *)
(***************************************************************************)
EXTENDS PaperLedger, FiniteSetTheorems, SequenceTheorems, TLAPS

USE LedgerAssumption DEF Trades, Processes, Evaluation

LEMMA TradeFacts ==
    /\ \A t \in Trades : Born[t] \in 1..Horizon /\ Born[t] \in Int
    /\ \A t \in Portfolio : t \in Trades /\ t \notin Signals
  OBVIOUS

LEMMA StatusFacts == Touches \subseteq Evaluation \cup {"quiet"} /\ "quiet" \notin Closed
  BY DEF Closed

-----------------------------------------------------------------------------
(* Rows of a ledger and how many of them are in a set.                     *)

LEMMA DomainFacts ==
    ASSUME NEW rows \in Seq(Trades)
    PROVE  /\ Len(rows) \in Nat /\ DOMAIN rows = 1..Len(rows)
           /\ IsFiniteSet(DOMAIN rows) /\ Cardinality(DOMAIN rows) = Len(rows)
<1>1. Len(rows) \in Nat /\ DOMAIN rows = 1..Len(rows)
  OBVIOUS
<1>2. 1 \in Int /\ Len(rows) \in Int
  BY <1>1
<1>3. IsFiniteSet(1..Len(rows))
      /\ Cardinality(1..Len(rows)) = IF 1 > Len(rows) THEN 0 ELSE Len(rows) - 1 + 1
  BY <1>2, FS_Interval
<1> QED
  BY <1>1, <1>3

LEMMA CountType ==
    ASSUME NEW rows \in Seq(Trades), NEW S
    PROVE  Count(rows, S) \in Nat /\ Count(rows, S) <= Len(rows)
<1> DEFINE at == {i \in DOMAIN rows : rows[i] \in S}
<1>1. at \in SUBSET (DOMAIN rows)
  OBVIOUS
<1>2. IsFiniteSet(at) /\ Cardinality(at) <= Cardinality(DOMAIN rows)
  BY <1>1, DomainFacts, FS_Subset
<1>3. Cardinality(at) \in Nat
  BY <1>2, FS_CardinalityType
<1> QED
  BY <1>2, <1>3, DomainFacts DEF Count

\* More rows are in a larger set.
LEMMA CountMonotone ==
    ASSUME NEW rows \in Seq(Trades), NEW S, NEW T, S \subseteq T
    PROVE  Count(rows, S) <= Count(rows, T)
<1> DEFINE inS == {i \in DOMAIN rows : rows[i] \in S}
           inT == {i \in DOMAIN rows : rows[i] \in T}
<1>1. inT \in SUBSET (DOMAIN rows) /\ inS \in SUBSET inT
  OBVIOUS
<1>2. IsFiniteSet(inT)
  BY <1>1, DomainFacts, FS_Subset
<1>3. Cardinality(inS) <= Cardinality(inT)
  BY <1>1, <1>2, FS_Subset
<1> QED
  BY <1>3 DEF Count

\* A row more counts for one if it is in the set, and for nothing if not.
LEMMA CountAppend ==
    ASSUME NEW rows \in Seq(Trades), NEW t \in Trades, NEW S
    PROVE  Count(Append(rows, t), S) = Count(rows, S) + (IF t \in S THEN 1 ELSE 0)
<1> DEFINE longer == Append(rows, t)
           before == {i \in DOMAIN rows : rows[i] \in S}
           after == {i \in DOMAIN longer : longer[i] \in S}
           last == Len(rows) + 1
<1>1. /\ DOMAIN longer = DOMAIN rows \cup {last} /\ last \notin DOMAIN rows
      /\ longer[last] = t /\ \A i \in DOMAIN rows : longer[i] = rows[i]
  OBVIOUS
<1>2. after = IF t \in S THEN before \cup {last} ELSE before
  BY <1>1
<1>3. IsFiniteSet(before)
  <2>1. before \in SUBSET (DOMAIN rows)
    OBVIOUS
  <2> QED
    BY <2>1, DomainFacts, FS_Subset
<1>4. last \notin before
  BY <1>1
<1>5. Cardinality(before \cup {last}) = Cardinality(before) + 1
  BY <1>3, <1>4, FS_AddElement
<1>6. Cardinality(before) \in Nat
  BY <1>3, FS_CardinalityType
<1>7. Cardinality(after) = Cardinality(before) + (IF t \in S THEN 1 ELSE 0)
  <2> HIDE DEF before, after
  <2> QED
    BY <1>2, <1>5, <1>6
<1> QED
  BY <1>7 DEF Count

LEMMA EmptyCount == ASSUME NEW S PROVE Count(<<>>, S) = 0
<1>1. {i \in DOMAIN <<>> : <<>>[i] \in S} = {}
  OBVIOUS
<1> QED
  BY <1>1, FS_EmptySet DEF Count

\* Appending to a batch appends to the rows it will be written behind.
LEMMA ConcatAppend ==
    ASSUME NEW rows \in Seq(Trades), NEW batch \in Seq(Trades), NEW t \in Trades
    PROVE  rows \o Append(batch, t) = Append(rows \o batch, t)
<1> DEFINE left == rows \o Append(batch, t)
           right == Append(rows \o batch, t)
<1>1. left \in Seq(Trades) /\ right \in Seq(Trades)
  OBVIOUS
<1>2. Len(left) = Len(rows) + Len(batch) + 1 /\ Len(right) = Len(rows) + Len(batch) + 1
  OBVIOUS
<1>3. ASSUME NEW i \in 1..Len(left) PROVE left[i] = right[i]
  <2>1. CASE i \in 1..Len(rows)
    BY <2>1
  <2>2. CASE i \in Len(rows) + 1..Len(rows) + Len(batch)
    <3>1. i - Len(rows) \in 1..Len(batch)
      BY <2>2
    <3>2. left[i] = Append(batch, t)[i - Len(rows)] /\ right[i] = (rows \o batch)[i]
      BY <2>2, <3>1
    <3> QED
      BY <2>2, <3>1, <3>2
  <2>3. CASE i = Len(rows) + Len(batch) + 1
    <3>1. left[i] = Append(batch, t)[Len(batch) + 1]
      BY <2>3
    <3> QED
      BY <2>3, <3>1
  <2> QED
    BY <1>2, <2>1, <2>2, <2>3
<1> QED
  BY <1>1, <1>2, <1>3, SeqEqual

LEMMA ConcatEmpty == ASSUME NEW rows \in Seq(Trades) PROVE rows \o <<>> = rows
  OBVIOUS

LEMMA AppendInjects ==
    ASSUME NEW rows \in Seq(Trades), NEW t \in Trades \ Rows(rows), IsInjective(rows)
    PROVE  IsInjective(Append(rows, t))
  BY DEF IsInjective, Rows

LEMMA PrefixOfConcat ==
    ASSUME NEW rows \in Seq(Trades), NEW batch \in Seq(Trades)
    PROVE  IsPrefix(rows, rows \o batch)
  BY DEF IsPrefix

-----------------------------------------------------------------------------
LEMMA WriterFacts ==
    /\ Idle \in Writer
    /\ \A w \in Writer : /\ w.at \in {"idle", "choose", "reread", "write", "replace"}
                         /\ w.seen \in Seq(Trades) /\ w.batch \in Seq(Trades)
                         /\ w.base \in Seq(Trades) /\ w.queue \in SUBSET Signals
  BY DEF Writer, Idle

-----------------------------------------------------------------------------
(* What the evaluator finds.                                               *)

\* The candles in a set have an earliest one.
LEMMA Earliest ==
    ASSUME NEW S \in SUBSET Nat, S # {}
    PROVE  \E first \in S : \A c \in S : first <= c
<1>1. PICK first \in S : \A c \in S : ~ (<<c, first>> \in OpToRel(<, Nat))
  BY NatLessThanWellFounded, WFMin
<1>2. ASSUME NEW c \in S PROVE first <= c
  <2>1. c \in Nat /\ first \in Nat
    OBVIOUS
  <2>2. ASSUME c < first PROVE FALSE
    <3>1. <<c, first>> \in OpToRel(<, Nat)
      BY <2>1, <2>2 DEF OpToRel
    <3> QED
      BY <1>1, <3>1
  <2> QED
    BY <2>1, <2>2
<1> QED
  BY <1>2

LEMMA EntryFacts ==
    ASSUME NEW t \in Portfolio, NEW newest \in Int, Born[t] <= newest
    PROVE  LET entry == EntryCandle(t, newest)
           IN  /\ entry \in Fetched(newest) /\ Born[t] <= entry
               /\ \A c \in Fetched(newest) : Born[t] <= c => entry <= c
<1> DEFINE reached == {c \in Fetched(newest) : Born[t] <= c}
<1>1. Born[t] \in 1..Horizon /\ Horizon \in Nat /\ Window \in Nat /\ Window # 0
  OBVIOUS
<1>2. newest \in reached
  BY <1>1 DEF Fetched
<1>3. reached \in SUBSET Nat
  BY DEF Fetched
<1>4. PICK entry \in reached : \A c \in reached : entry <= c
  BY <1>2, <1>3, Earliest
<1>5. entry \in Fetched(newest) /\ entry >= Born[t]
      /\ \A c \in Fetched(newest) : c >= Born[t] => entry <= c
  BY <1>1, <1>3, <1>4 DEF Fetched
<1>6. \A c \in Fetched(newest) : c >= Born[t] <=> Born[t] <= c
  BY <1>1 DEF Fetched
<1> QED
  BY <1>5, <1>6 DEF EntryCandle

\* c is a candle after the entry that touches the stop or the target.
Touched(t, c) == c > Born[t] /\ touch[t][c] # "quiet"

\* The trade's first touch, among the candles up to newest.
IsFirstTouch(t, newest, c) ==
    /\ c \in 1..newest /\ Touched(t, c)
    /\ \A d \in 1..newest : Touched(t, d) => c <= d

\* A walk ends at a touch after the entry candle: at the first one, if the
\* fetched window still reaches the entry.
LEMMA WalkFacts ==
    ASSUME TypeOK, NEW t \in Portfolio, NEW newest \in Int, Born[t] <= newest, newest <= now
    PROVE  \/ Walk(t, newest) = "OPEN"
           \/ \E c \in 1..newest :
                 /\ Touched(t, c) /\ Walk(t, newest) = touch[t][c]
                 /\ Born[t] + Window > newest => IsFirstTouch(t, newest, c)
<1> DEFINE entry == EntryCandle(t, newest)
           touches == {c \in Future(t, newest) : touch[t][c] # "quiet"}
<1>1. Born[t] \in 1..Horizon /\ Horizon \in Nat /\ Window \in Nat \ {0} /\ now \in 0..Horizon
  BY DEF TypeOK
<1>2. entry \in Fetched(newest) /\ Born[t] <= entry
      /\ \A c \in Fetched(newest) : Born[t] <= c => entry <= c
  BY EntryFacts
<1>3. Future(t, newest) = {c \in Fetched(newest) : c > entry}
  BY DEF Future
<1>4. CASE touches = {}
  BY <1>4 DEF Walk
<1>5. CASE touches # {}
  <2>1. touches \in SUBSET Nat
    BY <1>3 DEF Fetched
  <2>2. \E first \in Future(t, newest) :
           /\ touch[t][first] # "quiet"
           /\ \A d \in Future(t, newest) : touch[t][d] # "quiet" => first <= d
    BY <1>5, <2>1, Earliest
  <2>3. PICK first \in Future(t, newest) :
           /\ touch[t][first] # "quiet"
           /\ \A d \in Future(t, newest) : touch[t][d] # "quiet" => first <= d
           /\ Walk(t, newest) = touch[t][first]
    BY <2>2 DEF Walk
  <2>4. first \in 1..newest /\ Touched(t, first)
    BY <1>1, <1>2, <1>3, <2>3 DEF Fetched, Touched
  <2>5. ASSUME Born[t] + Window > newest PROVE IsFirstTouch(t, newest, first)
    <3>1. Born[t] \in Fetched(newest)
      BY <1>1, <2>5 DEF Fetched
    <3>2. entry = Born[t]
      <4>1. entry \in Nat
        BY <1>2 DEF Fetched
      <4>2. entry <= Born[t] /\ Born[t] <= entry
        BY <1>1, <1>2, <3>1
      <4> QED
        BY <1>1, <4>1, <4>2
    <3>3. ASSUME NEW d \in 1..newest, Touched(t, d) PROVE first <= d
      <4>1. d \in Future(t, newest)
        BY <1>1, <1>3, <2>5, <3>2, <3>3 DEF Fetched, Touched
      <4> QED
        BY <2>3, <3>3, <4>1 DEF Touched
    <3> QED
      BY <2>4, <3>3 DEF IsFirstTouch
  <2> QED
    BY <2>3, <2>4, <2>5
<1> QED
  BY <1>4, <1>5

LEMMA JudgeFacts ==
    ASSUME TypeOK, NEW t \in Trades, NEW newest \in Int, newest <= now
    PROVE  /\ Judge(t, newest) \in Evaluation
           /\ Judge(t, newest) \in Closed =>
                 /\ t \in Portfolio
                 /\ \E c \in 1..newest :
                       /\ Touched(t, c) /\ Judge(t, newest) = touch[t][c]
                       /\ Born[t] + Window > newest => IsFirstTouch(t, newest, c)
<1>1. CASE t \in Signals \/ Born[t] > newest
  BY <1>1 DEF Judge, Closed
<1>2. CASE t \in Portfolio /\ Born[t] <= newest
  <2>1. Judge(t, newest) = Walk(t, newest)
    <3>1. Born[t] \in Int /\ t \notin Signals
      BY <1>2, TradeFacts
    <3> QED
      BY <1>2, <3>1 DEF Judge
  <2>2. \A c \in 1..newest : touch[t][c] \in Touches
    <3>1. touch[t] \in [1..Horizon -> Touches] /\ now \in 0..Horizon
      BY <1>2 DEF TypeOK
    <3>2. \A c \in 1..newest : c \in 1..Horizon
      BY <3>1
    <3> QED
      BY <3>1, <3>2
  <2>3. \A c \in 1..newest : Touched(t, c) => touch[t][c] \in Closed
    BY <2>2 DEF Touched, Closed
  <2> HIDE DEF Evaluation
  <2>4. "OPEN" \in Evaluation /\ "OPEN" \notin Closed /\ Closed \subseteq Evaluation
    BY DEF Evaluation, Closed
  <2> QED
    BY <1>2, <2>1, <2>3, <2>4, WalkFacts
<1>3. t \in Signals \/ t \in Portfolio
  OBVIOUS
<1>4. Born[t] \in Int
  OBVIOUS
<1> QED
  BY <1>1, <1>2, <1>3, <1>4

\* The evaluations the evaluator writes: of the rows it has read, each judged
\* by the candles up to now or to the one before, or not at all.
LEMMA EvalFacts ==
    ASSUME TypeOK, EvalWrite
    PROVE  /\ DOMAIN evals' \subseteq Trades
           /\ \A t \in DOMAIN evals' :
                 \/ evals'[t] \in {"ERROR", "PENDING"}
                 \/ \E newest \in {now - 1, now} : evals'[t] = Judge(t, newest)
<1>1. PICK answer \in [Rows(evaluator) -> Answers] :
          evals' = [t \in Rows(evaluator) |->
                      CASE answer[t] = "fails" -> "ERROR"
                        [] answer[t] = "empty" \/ (answer[t] = "late" /\ now = 1) -> "PENDING"
                        [] answer[t] = "late" /\ now # 1 -> Judge(t, now - 1)
                        [] answer[t] = "current" -> Judge(t, now)]
  BY DEF EvalWrite
<1>2. DOMAIN evals' = Rows(evaluator)
  BY <1>1
<1>3. Rows(evaluator) \subseteq Trades
  BY DEF TypeOK, Rows, EvalWrite
<1>4. ASSUME NEW t \in Rows(evaluator)
      PROVE  \/ evals'[t] \in {"ERROR", "PENDING"}
             \/ \E newest \in {now - 1, now} : evals'[t] = Judge(t, newest)
  <2>1. answer[t] \in {"fails", "empty", "late", "current"}
    OBVIOUS
  <2> QED
    BY <1>1, <2>1
<1> QED
  BY <1>2, <1>3, <1>4

\* Every variable keeps its type, for any signals, limits, writers and window:
\* a writer holds rows of the ledger, and the evaluator, which may meet candles
\* that no longer reach a trade's entry, writes one of its five statuses.
THEOREM TypeCorrect == Spec => []TypeOK
<1>1. Init => TypeOK
  <2> SUFFICES ASSUME Init PROVE TypeOK
    OBVIOUS
  <2>1. DOMAIN evals = {}
    BY DEF Init
  <2>2. ledger \in Seq(Trades)
    BY DEF Init
  <2> QED
    BY <2>1, <2>2, WriterFacts DEF Init, TypeOK
<1>2. TypeOK /\ [Next]_vars => TypeOK'
  <2> SUFFICES ASSUME TypeOK, [Next]_vars PROVE TypeOK'
    OBVIOUS
  <2>1. CASE Tick
    BY <2>1, SMTT(30) DEF Tick, TypeOK
  <2>2. ASSUME NEW p \in Processes, ScanRead(p) PROVE TypeOK'
    <3> DEFINE reading == [Idle EXCEPT !.at = "choose", !.seen = ledger, !.queue = Decided]
    <3>1. ledger \in Seq(Trades) /\ Decided \in SUBSET Signals
      BY DEF TypeOK, Decided
    <3>2. reading \in Writer
      BY <3>1, WriterFacts DEF Writer
    <3> QED
      BY <2>2, <3>2 DEF ScanRead, Step, TypeOK
  <2>3. ASSUME NEW p \in Processes, Consider(p) PROVE TypeOK'
    <3>1. proc[p] \in Writer
      BY DEF TypeOK
    <3>a. PICK s \in proc[p].queue :
             /\ \/ Step(p, [proc[p] EXCEPT !.queue = proc[p].queue \ {s}])
                \/ Step(p, [proc[p] EXCEPT !.queue = proc[p].queue \ {s},
                                           !.batch = Append(proc[p].batch, s)])
             /\ refused' \in {refused, refused \cup {s}}
      BY <2>3 DEF Consider
    <3>b. /\ proc' = [proc EXCEPT ![p] = proc'[p]]
          /\ \/ proc'[p] = [proc[p] EXCEPT !.queue = proc[p].queue \ {s}]
             \/ proc'[p] = [proc[p] EXCEPT !.queue = proc[p].queue \ {s},
                                           !.batch = Append(proc[p].batch, s)]
      BY <3>a DEF Step, TypeOK
    <3>2. /\ proc' = [proc EXCEPT ![p] = proc'[p]]
          /\ \/ proc'[p] = [proc[p] EXCEPT !.queue = proc[p].queue \ {s}]
             \/ proc'[p] = [proc[p] EXCEPT !.queue = proc[p].queue \ {s},
                                           !.batch = Append(proc[p].batch, s)]
          /\ refused' \in {refused, refused \cup {s}} /\ s \in proc[p].queue
      BY <3>a, <3>b
    <3>3. s \in Signals /\ Append(proc[p].batch, s) \in Seq(Trades)
      BY <3>1, WriterFacts
    <3>4. /\ [proc[p] EXCEPT !.queue = proc[p].queue \ {s}] \in Writer
          /\ [proc[p] EXCEPT !.queue = proc[p].queue \ {s},
                              !.batch = Append(proc[p].batch, s)] \in Writer
      BY <3>1, <3>3 DEF Writer
    <3>5. proc'[p] \in Writer
      BY <3>2, <3>4
    <3>6. proc' \in [Processes -> Writer]
      BY <3>2, <3>5 DEF TypeOK
    <3>7. refused' \subseteq Signals
      BY <3>2, <3>3 DEF TypeOK
    <3> QED
      BY <2>3, <3>6, <3>7 DEF Consider, TypeOK
  <2>4. ASSUME NEW p \in Processes, Chosen(p) PROVE TypeOK'
    <3>1. proc[p] \in Writer
      BY DEF TypeOK
    <3>2. [proc[p] EXCEPT !.at = "reread"] \in Writer
      BY <3>1 DEF Writer
    <3> QED
      BY <2>4, <3>2, WriterFacts DEF Chosen, Step, TypeOK
  <2>5. ASSUME NEW p \in Processes, RecordPortfolio(p) PROVE TypeOK'
    <3>1. PICK t \in Portfolio :
             Step(p, [Idle EXCEPT !.at = "reread", !.seen = ledger, !.batch = <<t>>])
      BY <2>5 DEF RecordPortfolio
    <3>2. ledger \in Seq(Trades) /\ <<t>> \in Seq(Trades)
      BY DEF TypeOK
    <3>3. [Idle EXCEPT !.at = "reread", !.seen = ledger, !.batch = <<t>>] \in Writer
      BY <3>2, WriterFacts DEF Writer
    <3> QED
      BY <2>5, <3>1, <3>3 DEF RecordPortfolio, Step, TypeOK
  <2>6. ASSUME NEW p \in Processes, Reread(p) PROVE TypeOK'
    <3>1. proc[p] \in Writer /\ ledger \in Seq(Trades)
      BY DEF TypeOK
    <3>2. [proc[p] EXCEPT !.at = "write", !.base = ledger] \in Writer
      BY <3>1 DEF Writer
    <3> QED
      BY <2>6, <3>2 DEF Reread, Step, TypeOK
  <2>7. ASSUME NEW p \in Processes, WriteTemp(p) PROVE TypeOK'
    <3>1. proc[p] \in Writer
      BY DEF TypeOK
    <3>2. [proc[p] EXCEPT !.at = "replace"] \in Writer
      BY <3>1 DEF Writer
    <3>3. proc[p].base \o proc[p].batch \in Seq(Trades)
      BY <3>1, WriterFacts
    <3> QED
      BY <2>7, <3>2, <3>3 DEF WriteTemp, Step, TypeOK
  <2>8. ASSUME NEW p \in Processes, Replace(p) PROVE TypeOK'
    BY <2>8, WriterFacts DEF Replace, Step, TypeOK
  <2>9. ASSUME NEW p \in Processes, Crash(p) PROVE TypeOK'
    BY <2>9, WriterFacts DEF Crash, Step, TypeOK
  <2>10. CASE EvalRead
    BY <2>10 DEF EvalRead, TypeOK
  <2>11. CASE EvalWrite
    <3>1. \A newest \in {now - 1, now} : newest \in Int /\ newest <= now
      BY DEF TypeOK
    <3>2. ASSUME NEW t \in DOMAIN evals' PROVE evals'[t] \in Evaluation
      BY <2>11, <3>1, EvalFacts, JudgeFacts, SMTT(30)
    <3> QED
      BY <2>11, <3>2, EvalFacts DEF EvalWrite, TypeOK
  <2>12. CASE EvalCrash
    BY <2>12 DEF EvalCrash, TypeOK
  <2>13. CASE UNCHANGED vars
    BY <2>13 DEF vars, TypeOK
  <2> QED
    BY <2>1, <2>2, <2>3, <2>4, <2>5, <2>6, <2>7, <2>8, <2>9, <2>10, <2>11, <2>12, <2>13 DEF Next
<1> QED
  BY <1>1, <1>2, PTL DEF Spec

-----------------------------------------------------------------------------
(* One writer at a time.                                                   *)

\* The limits of the scan, on any rows.
WithinLimits(rows) ==
    /\ Count(rows, Signals) <= MaxOpen
    /\ Count(rows, Signals) <= MaxRisk
    /\ \A s \in Signals : Count(rows, Signals \cap OfSymbol(SymbolOf[s])) <= MaxPerSymbol

Alone == \A p, q \in Processes : proc[p].at # "idle" /\ proc[q].at # "idle" => p = q

\* What makes a writer's rename right: the rows it has read are still the
\* ledger, the rows it has chosen fit behind them, and the temporary file, which
\* a dead writer may have left, is its own by the time it renames it.
WriterInv ==
    \A p \in Processes : proc[p].at # "idle" =>
        /\ proc[p].seen = ledger
        /\ IsInjective(ledger \o proc[p].batch)
        /\ WithinLimits(ledger \o proc[p].batch)
        /\ proc[p].at \in {"write", "replace"} => proc[p].base = ledger
        /\ proc[p].at = "replace" => temp = ledger \o proc[p].batch

SerialInv == Alone /\ WriterInv /\ IsInjective(ledger) /\ WithinLimits(ledger)

\* A row that passed the three tests of the scan keeps the limits.
LEMMA RowFits ==
    ASSUME NEW rows \in Seq(Trades), WithinLimits(rows), NEW s \in Signals, ~AtLimit(rows, s)
    PROVE  WithinLimits(Append(rows, s))
<1>1. Count(rows, Signals) \in Nat /\ Count(rows, Signals) <= Len(rows) /\ Len(rows) \in Nat
  BY CountType
<1>2. Count(Append(rows, s), Signals) = Count(rows, Signals) + 1
  BY CountAppend
<1>3. Len(rows) < MaxOpen /\ Count(rows, Signals) + 1 <= MaxRisk
  BY <1>1 DEF AtLimit
<1>4. ASSUME NEW o \in Signals
      PROVE  Count(Append(rows, s), Signals \cap OfSymbol(SymbolOf[o])) <= MaxPerSymbol
  <2> DEFINE like == Signals \cap OfSymbol(SymbolOf[o])
  <2>1. Count(rows, like) \in Nat /\ Count(rows, like) <= MaxPerSymbol
    BY CountType DEF WithinLimits
  <2>2. Count(Append(rows, s), like) = Count(rows, like) + IF s \in like THEN 1 ELSE 0
    BY CountAppend
  <2>3. CASE s \in like
    <3>1. SymbolOf[o] = SymbolOf[s]
      BY <2>3 DEF OfSymbol
    <3>2. Count(rows, like) <= Count(rows, OfSymbol(SymbolOf[s]))
      <4>1. like \subseteq OfSymbol(SymbolOf[s])
        BY <3>1
      <4> QED
        BY <4>1, CountMonotone
    <3>3. Count(rows, OfSymbol(SymbolOf[s])) \in Nat
      BY CountType
    <3>4. Count(rows, OfSymbol(SymbolOf[s])) < MaxPerSymbol
      BY <3>3 DEF AtLimit
    <3> QED
      BY <2>1, <2>2, <2>3, <3>2, <3>3, <3>4
  <2> QED
    BY <2>1, <2>2, <2>3
<1> QED
  BY <1>1, <1>2, <1>3, <1>4 DEF WithinLimits

\* A row of the portfolio scanner does not count for the scan's limits.
LEMMA PortfolioFits ==
    ASSUME NEW rows \in Seq(Trades), WithinLimits(rows), NEW t \in Portfolio
    PROVE  WithinLimits(Append(rows, t))
<1>1. t \notin Signals /\ t \in Trades
  OBVIOUS
<1>2. \A S : t \notin S => Count(Append(rows, t), S) = Count(rows, S)
  <2> TAKE S
  <2>1. Count(rows, S) \in Nat
    BY CountType
  <2>2. Count(Append(rows, t), S) = Count(rows, S) + IF t \in S THEN 1 ELSE 0
    BY <1>1, CountAppend
  <2> QED
    BY <2>1, <2>2
<1> QED
  BY <1>1, <1>2 DEF WithinLimits

LEMMA EmptyFits == IsInjective(<<>>) /\ WithinLimits(<<>>)
<1>1. IsInjective(<<>>)
  BY DEF IsInjective
<1>2. \A S : Count(<<>>, S) = 0
  BY EmptyCount
<1> QED
  BY <1>1, <1>2 DEF WithinLimits

\* A step that leaves the files alone and one writer p as it was or idle.
LEMMA QuietWriter ==
    ASSUME TypeOK, SerialInv, UNCHANGED <<ledger, temp>>,
           \A q \in Processes : proc'[q] = proc[q] \/ proc'[q].at = "idle"
    PROVE  SerialInv'
<1>1. Alone'
  BY DEF SerialInv, Alone
<1>2. WriterInv'
  BY DEF SerialInv, WriterInv
<1> QED
  BY <1>1, <1>2 DEF SerialInv

\* A step of writer p, who goes on with what it holds.
LEMMA BusyWriter ==
    ASSUME TypeOK, SerialInv, UNCHANGED ledger, NEW p \in Processes,
           \A q \in Processes \ {p} : proc'[q] = proc[q] /\ proc[q].at = "idle",
           proc'[p].seen = ledger,
           IsInjective(ledger \o proc'[p].batch),
           WithinLimits(ledger \o proc'[p].batch),
           proc'[p].at \in {"write", "replace"} => proc'[p].base = ledger,
           proc'[p].at = "replace" => temp' = ledger \o proc'[p].batch
    PROVE  SerialInv'
<1>1. Alone'
  BY DEF SerialInv, Alone
<1>2. WriterInv'
  BY DEF WriterInv
<1> QED
  BY <1>1, <1>2 DEF SerialInv

\* One step of a writer, the evaluator, the exchange or a crash.
LEMMA SerialStep ==
    ASSUME ~Overlap, TypeOK, SerialInv, [Next]_vars
    PROVE  SerialInv' /\ IsPrefix(ledger, ledger')
<1>1. ledger \in Seq(Trades) /\ proc \in [Processes -> Writer]
  BY DEF TypeOK
<1>2. ledger \o <<>> = ledger /\ IsPrefix(ledger, ledger)
  BY <1>1, ConcatEmpty DEF IsPrefix
<1>3. IsInjective(ledger) /\ WithinLimits(ledger)
  BY DEF SerialInv
<1>4. ASSUME NEW p \in Processes, ScanRead(p) PROVE SerialInv' /\ UNCHANGED ledger
  <2>1. /\ UNCHANGED ledger
        /\ \A q \in Processes \ {p} : proc'[q] = proc[q] /\ proc[q].at = "idle"
        /\ proc'[p].seen = ledger /\ proc'[p].batch = <<>> /\ proc'[p].at = "choose"
    BY <1>1, <1>4 DEF ScanRead, MayStart, Step, Idle
  <2> QED
    BY <1>2, <1>3, <2>1, BusyWriter
<1>5. ASSUME NEW p \in Processes, RecordPortfolio(p) PROVE SerialInv' /\ UNCHANGED ledger
  <2>1. PICK t \in Portfolio \ Rows(ledger) :
           Step(p, [Idle EXCEPT !.at = "reread", !.seen = ledger, !.batch = <<t>>])
    BY <1>5 DEF RecordPortfolio
  <2>2. /\ UNCHANGED ledger
        /\ \A q \in Processes \ {p} : proc'[q] = proc[q] /\ proc[q].at = "idle"
        /\ proc'[p].seen = ledger /\ proc'[p].batch = <<t>> /\ proc'[p].at = "reread"
    BY <1>1, <1>5, <2>1 DEF RecordPortfolio, MayStart, Step, Idle
  <2>3. ledger \o <<t>> = Append(ledger, t)
    BY <1>1
  <2>4. IsInjective(Append(ledger, t)) /\ WithinLimits(Append(ledger, t))
    BY <1>1, <1>3, AppendInjects, PortfolioFits
  <2> QED
    BY <2>2, <2>3, <2>4, BusyWriter
<1>6. ASSUME NEW p \in Processes, Consider(p) PROVE SerialInv' /\ UNCHANGED ledger
  <2> DEFINE held == proc[p]
  <2>1. /\ held \in Writer /\ held.at = "choose" /\ held.seen = ledger
        /\ IsInjective(ledger \o held.batch) /\ WithinLimits(ledger \o held.batch)
        /\ \A q \in Processes \ {p} : proc[q].at = "idle"
    BY <1>1, <1>6 DEF Consider, SerialInv, WriterInv, Alone
  <2>2. PICK s \in held.queue :
           \/ proc' = [proc EXCEPT ![p] = [held EXCEPT !.queue = held.queue \ {s}]]
           \/ /\ proc' = [proc EXCEPT ![p] = [held EXCEPT !.queue = held.queue \ {s},
                                                        !.batch = Append(held.batch, s)]]
              /\ s \notin Rows(OpenRows(p)) /\ ~AtLimit(OpenRows(p), s)
    BY <1>6 DEF Consider, Step
  <2>3. s \in Signals /\ s \in Trades /\ held.batch \in Seq(Trades)
    BY <2>1, WriterFacts
  <2>4. /\ UNCHANGED ledger
        /\ \A q \in Processes \ {p} : proc'[q] = proc[q]
        /\ proc'[p].seen = held.seen /\ proc'[p].at = "choose"
        /\ \/ proc'[p].batch = held.batch
           \/ /\ proc'[p].batch = Append(held.batch, s)
              /\ s \notin Rows(OpenRows(p)) /\ ~AtLimit(OpenRows(p), s)
    <3>1. UNCHANGED ledger
      BY <1>6 DEF Consider
    <3>2. proc'[p] \in {[held EXCEPT !.queue = held.queue \ {s}],
                       [held EXCEPT !.queue = held.queue \ {s}, !.batch = Append(held.batch, s)]}
          /\ \A q \in Processes \ {p} : proc'[q] = proc[q]
      BY <1>1, <2>2
    <3>3. CASE proc' = [proc EXCEPT ![p] = [held EXCEPT !.queue = held.queue \ {s}]]
      BY <1>1, <2>1, <3>1, <3>2, <3>3 DEF Writer
    <3>4. CASE /\ proc' = [proc EXCEPT ![p] = [held EXCEPT !.queue = held.queue \ {s},
                                                        !.batch = Append(held.batch, s)]]
               /\ s \notin Rows(OpenRows(p)) /\ ~AtLimit(OpenRows(p), s)
      <4>1. proc'[p] = [held EXCEPT !.queue = held.queue \ {s}, !.batch = Append(held.batch, s)]
        BY <1>1, <3>4
      <4>2. proc'[p].batch = Append(held.batch, s) /\ proc'[p].seen = held.seen
            /\ proc'[p].at = held.at
        BY <2>1, <4>1 DEF Writer
      <4> QED
        BY <2>1, <3>1, <3>2, <3>4, <4>2
    <3> QED
      BY <2>2, <3>3, <3>4
  <2>5. OpenRows(p) = ledger \o held.batch /\ OpenRows(p) \in Seq(Trades)
    BY <1>1, <2>1, <2>3 DEF OpenRows
  <2>6. IsInjective(ledger \o proc'[p].batch) /\ WithinLimits(ledger \o proc'[p].batch)
    <3>1. CASE proc'[p].batch = held.batch
      BY <2>1, <3>1
    <3>2. CASE /\ proc'[p].batch = Append(held.batch, s)
               /\ s \notin Rows(OpenRows(p)) /\ ~AtLimit(OpenRows(p), s)
      <4> DEFINE rows == ledger \o held.batch
      <4>1. ledger \o Append(held.batch, s) = Append(rows, s)
        BY <1>1, <2>3, ConcatAppend, SMTT(30)
      <4>2. rows \in Seq(Trades) /\ s \notin Rows(rows) /\ ~AtLimit(rows, s)
        BY <2>5, <3>2
      <4>3. IsInjective(rows) /\ WithinLimits(rows)
        BY <2>1
      <4> HIDE DEF rows
      <4>4. IsInjective(Append(rows, s)) /\ WithinLimits(Append(rows, s))
        BY <2>3, <4>2, <4>3, AppendInjects, RowFits
      <4> QED
        BY <3>2, <4>1, <4>4
    <3> QED
      BY <2>4, <3>1, <3>2
  <2> QED
    BY <2>1, <2>4, <2>6, BusyWriter
<1>7. ASSUME NEW p \in Processes, Chosen(p) PROVE SerialInv' /\ UNCHANGED ledger
  <2>1. UNCHANGED <<ledger, temp>> /\ \A q \in Processes \ {p} : proc'[q] = proc[q]
    BY <1>1, <1>7 DEF Chosen, Step
  <2>2. proc'[p] = Idle \/ proc'[p] = [proc[p] EXCEPT !.at = "reread"]
    BY <1>1, <1>7 DEF Chosen, Step
  <2>3. CASE proc'[p] = Idle
    BY <2>1, <2>3, QuietWriter DEF Idle
  <2>4. CASE proc'[p] = [proc[p] EXCEPT !.at = "reread"]
    <3>1. /\ proc[p] \in Writer /\ proc[p].at = "choose" /\ proc[p].seen = ledger
          /\ IsInjective(ledger \o proc[p].batch) /\ WithinLimits(ledger \o proc[p].batch)
          /\ \A q \in Processes \ {p} : proc[q].at = "idle"
      BY <1>1, <1>7 DEF Chosen, SerialInv, WriterInv, Alone
    <3>2. proc'[p].at = "reread" /\ proc'[p].seen = proc[p].seen /\ proc'[p].batch = proc[p].batch
      BY <2>4, <3>1 DEF Writer
    <3> QED
      BY <2>1, <3>1, <3>2, BusyWriter
  <2> QED
    BY <2>1, <2>2, <2>3, <2>4
<1>8. ASSUME NEW p \in Processes, Reread(p) \/ WriteTemp(p)
      PROVE  SerialInv' /\ UNCHANGED ledger
  <2>1. /\ proc[p] \in Writer /\ proc[p].at # "idle" /\ proc[p].seen = ledger
        /\ IsInjective(ledger \o proc[p].batch) /\ WithinLimits(ledger \o proc[p].batch)
        /\ proc[p].at = "write" => proc[p].base = ledger
        /\ \A q \in Processes \ {p} : proc[q].at = "idle"
    BY <1>1, <1>8 DEF Reread, WriteTemp, SerialInv, WriterInv, Alone
  <2>2. CASE Reread(p)
    <3>1. proc'[p] = [proc[p] EXCEPT !.at = "write", !.base = ledger]
      BY <1>1, <2>2 DEF Reread, Step
    <3>2. /\ proc'[p].at = "write" /\ proc'[p].seen = ledger /\ proc'[p].base = ledger
          /\ proc'[p].batch = proc[p].batch
      BY <2>1, <3>1 DEF Writer
    <3>3. UNCHANGED ledger /\ \A q \in Processes \ {p} : proc'[q] = proc[q]
      BY <1>1, <2>2 DEF Reread, Step
    <3> QED
      BY <2>1, <3>2, <3>3, BusyWriter
  <2>3. CASE WriteTemp(p)
    <3>1. proc'[p] = [proc[p] EXCEPT !.at = "replace"]
      BY <1>1, <2>3 DEF WriteTemp, Step
    <3>2. /\ proc'[p].at = "replace" /\ proc'[p].seen = ledger /\ proc'[p].base = ledger
          /\ proc'[p].batch = proc[p].batch /\ temp' = ledger \o proc[p].batch
      BY <2>1, <2>3, <3>1 DEF Writer, WriteTemp
    <3>3. UNCHANGED ledger /\ \A q \in Processes \ {p} : proc'[q] = proc[q]
      BY <1>1, <2>3 DEF WriteTemp, Step
    <3> QED
      BY <2>1, <3>2, <3>3, BusyWriter
  <2> QED
    BY <1>8, <2>2, <2>3
<1>9. ASSUME NEW p \in Processes, Replace(p) PROVE SerialInv' /\ IsPrefix(ledger, ledger')
  <2>1. /\ proc[p] \in Writer /\ temp = ledger \o proc[p].batch
        /\ IsInjective(ledger \o proc[p].batch) /\ WithinLimits(ledger \o proc[p].batch)
        /\ \A q \in Processes \ {p} : proc[q].at = "idle"
    BY <1>1, <1>9 DEF Replace, SerialInv, WriterInv, Alone
  <2>2. proc[p].batch \in Seq(Trades) /\ temp \in Seq(Trades)
    BY <1>1, <2>1, WriterFacts
  <2>3. ledger' = ledger \o proc[p].batch
    BY <1>9, <2>1, <2>2 DEF Replace
  <2>4. \A q \in Processes : proc'[q].at = "idle"
    BY <1>1, <1>9, <2>1 DEF Replace, Step, Idle
  <2>5. Alone' /\ WriterInv'
    BY <2>4 DEF Alone, WriterInv
  <2>6. IsInjective(ledger)' /\ WithinLimits(ledger)'
    BY <2>1, <2>3 DEF WithinLimits, IsInjective, Count, OfSymbol
  <2> QED
    BY <1>1, <2>2, <2>3, <2>5, <2>6, PrefixOfConcat DEF SerialInv
<1>10. ASSUME NEW p \in Processes, Crash(p) PROVE SerialInv' /\ UNCHANGED ledger
  <2>1. UNCHANGED <<ledger, temp>> /\ \A q \in Processes : proc'[q] = proc[q] \/ proc'[q].at = "idle"
    BY <1>1, <1>10 DEF Crash, Step, Idle
  <2> QED
    BY <2>1, QuietWriter
<1>11. CASE Tick \/ EvalRead \/ EvalWrite \/ EvalCrash \/ UNCHANGED vars
  <2>1. UNCHANGED <<ledger, temp, proc>>
    BY <1>11 DEF Tick, EvalRead, EvalWrite, EvalCrash, vars
  <2> QED
    BY <1>2, <2>1, QuietWriter
<1> QED
  BY <1>2, <1>4, <1>5, <1>6, <1>7, <1>8, <1>9, <1>10, <1>11 DEF Next

LEMMA SerialIsKept == ASSUME ~Overlap PROVE Spec => []SerialInv
<1>1. Init => SerialInv
  <2> SUFFICES ASSUME Init PROVE SerialInv
    OBVIOUS
  <2>1. ledger = <<>> /\ \A p \in Processes : proc[p].at = "idle"
    BY DEF Init, Idle
  <2>2. Alone /\ WriterInv
    BY <2>1 DEF Alone, WriterInv
  <2> QED
    BY <2>1, <2>2, EmptyFits DEF SerialInv
<1>2. TypeOK /\ SerialInv /\ [Next]_vars => SerialInv'
  BY SerialStep
<1> QED
  BY <1>1, <1>2, TypeCorrect, PTL DEF Spec

\* The scan never fills the ledger beyond its three limits, whatever the limits,
\* the symbols and the number of scans, though rows of another program stand in
\* between, writers die and a dead writer's temporary file is left behind.
THEOREM LimitsAreKept == ~Overlap => (Spec => []LimitsHold)
<1> SUFFICES ASSUME ~Overlap PROVE Spec => []LimitsHold
  OBVIOUS
<1>1. SerialInv => LimitsHold
  BY DEF SerialInv, WithinLimits, LimitsHold
<1> QED
  BY <1>1, SerialIsKept, PTL

\* No trade is recorded twice: a scan or a portfolio scanner that is run again
\* after it died finds the rows it had renamed into place.
THEOREM NoRowTwice == ~Overlap => (Spec => []NoDuplicateRows)
<1> SUFFICES ASSUME ~Overlap PROVE Spec => []NoDuplicateRows
  OBVIOUS
<1>1. SerialInv => NoDuplicateRows
  BY DEF SerialInv, NoDuplicateRows
<1> QED
  BY <1>1, SerialIsKept, PTL

\* A rename keeps every row of the ledger in its place and adds rows behind.
THEOREM RowsAreKept == ~Overlap => (Spec => RowsStay)
<1> SUFFICES ASSUME ~Overlap PROVE Spec => RowsStay
  OBVIOUS
<1>1. TypeOK /\ SerialInv /\ [Next]_vars => [IsPrefix(ledger, ledger')]_vars
  BY SerialStep
<1> QED
  BY <1>1, TypeCorrect, SerialIsKept, PTL DEF Spec, RowsStay

-----------------------------------------------------------------------------
(* What an evaluation says, with writers overlapping or not.               *)

\* A closed trade has been closed by a touch after its entry candle, and by the
\* first one as long as the window reaches the entry.
ResultInv ==
    \A t \in DOMAIN evals : evals[t] \in Closed =>
        /\ t \in Portfolio
        /\ \E c \in 1..now :
              /\ Touched(t, c) /\ evals[t] = touch[t][c]
              /\ Born[t] + Window > now => IsFirstTouch(t, now, c)

\* A candle more changes nothing about the earlier ones.
LEMMA TickKeepsResults == ASSUME TypeOK, ResultInv, Tick PROVE ResultInv'
<1>1. now \in 0..Horizon /\ now' = now + 1 /\ evals' = evals
  BY DEF TypeOK, Tick
<1>2. \A t \in Portfolio, c \in 1..now : touch'[t][c] = touch[t][c]
  <2>1. PICK move \in [Portfolio -> Touches] :
           touch' = [t \in Portfolio |-> [touch[t] EXCEPT ![now + 1] = move[t]]]
    BY DEF Tick
  <2>2. \A t \in Portfolio : touch[t] \in [1..Horizon -> Touches]
    BY DEF TypeOK
  <2> QED
    BY <1>1, <2>1, <2>2
<1>3. ASSUME NEW t \in DOMAIN evals', evals'[t] \in Closed
      PROVE  /\ t \in Portfolio
             /\ \E c \in 1..now' :
                   /\ Touched(t, c)' /\ evals'[t] = touch'[t][c]
                   /\ Born[t] + Window > now' => IsFirstTouch(t, now, c)'
  <2>1. t \in Portfolio
    BY <1>1, <1>3 DEF ResultInv
  <2>2. PICK c \in 1..now :
           /\ Touched(t, c) /\ evals[t] = touch[t][c]
           /\ Born[t] + Window > now => IsFirstTouch(t, now, c)
    BY <1>1, <1>3 DEF ResultInv
  <2>3. c \in 1..now' /\ Touched(t, c)' /\ evals'[t] = touch'[t][c]
    BY <1>1, <1>2, <2>1, <2>2, SMTT(30) DEF Touched
  <2>4. ASSUME Born[t] + Window > now' PROVE IsFirstTouch(t, now, c)'
    <3>1. Born[t] \in Nat /\ Window \in Nat
      BY <2>1
    <3>2. IsFirstTouch(t, now, c)
      BY <1>1, <2>2, <2>4, <3>1
    <3>3. \A d \in 1..now' : Touched(t, d)' => c <= d
      BY <1>1, <1>2, <2>1, <3>2, SMTT(30) DEF IsFirstTouch, Touched
    <3> QED
      BY <2>3, <3>3 DEF IsFirstTouch
  <2> QED
    BY <2>1, <2>3, <2>4
<1> QED
  BY <1>3 DEF ResultInv

LEMMA EvalKeepsResults == ASSUME TypeOK, EvalWrite PROVE ResultInv'
<1>1. now \in 0..Horizon /\ UNCHANGED <<now, touch>>
  BY DEF TypeOK, EvalWrite
<1>2. ASSUME NEW t \in DOMAIN evals', evals'[t] \in Closed
      PROVE  /\ t \in Portfolio
             /\ \E c \in 1..now :
                   /\ Touched(t, c) /\ evals'[t] = touch[t][c]
                   /\ Born[t] + Window > now => IsFirstTouch(t, now, c)
  <2>1. t \in Trades
    BY EvalFacts
  <2>2. PICK newest \in {now - 1, now} : evals'[t] = Judge(t, newest)
    BY <1>2, EvalFacts DEF Closed
  <2>3. newest \in Int /\ newest <= now /\ now <= newest + 1
    BY <1>1
  <2>4. /\ t \in Portfolio
        /\ \E c \in 1..newest :
              /\ Touched(t, c) /\ Judge(t, newest) = touch[t][c]
              /\ Born[t] + Window > newest => IsFirstTouch(t, newest, c)
    BY <1>2, <2>1, <2>2, <2>3, JudgeFacts
  <2>5. PICK c \in 1..newest :
           /\ Touched(t, c) /\ Judge(t, newest) = touch[t][c]
           /\ Born[t] + Window > newest => IsFirstTouch(t, newest, c)
    BY <2>4
  <2>6. c \in 1..now
    BY <1>1, <2>3
  <2>7. ASSUME Born[t] + Window > now PROVE IsFirstTouch(t, now, c)
    <3>1. Born[t] \in 1..Horizon /\ Horizon \in Nat /\ Window \in Nat
      BY <2>4
    <3>2. IsFirstTouch(t, newest, c)
      BY <1>1, <2>3, <2>5, <2>7, <3>1
    <3>3. ASSUME NEW d \in 1..now, Touched(t, d) PROVE c <= d
      BY <1>1, <2>3, <3>2, <3>3 DEF IsFirstTouch
    <3> QED
      BY <2>5, <2>6, <3>3 DEF IsFirstTouch
  <2> QED
    BY <2>2, <2>4, <2>5, <2>6, <2>7
<1> QED
  BY <1>1, <1>2 DEF ResultInv, Touched, IsFirstTouch

LEMMA ResultsKept == Spec => []ResultInv
<1>1. Init => ResultInv
  <2>1. Init => DOMAIN evals = {}
    BY DEF Init
  <2> QED
    BY <2>1 DEF ResultInv
<1>2. TypeOK /\ ResultInv /\ [Next]_vars => ResultInv'
  <2> SUFFICES ASSUME TypeOK, ResultInv, [Next]_vars PROVE ResultInv'
    OBVIOUS
  <2>1. CASE UNCHANGED <<now, touch, evals>>
    <3>1. \A t, c : Touched(t, c)' <=> Touched(t, c)
      BY <2>1 DEF Touched
    <3>2. \A t, c : IsFirstTouch(t, now, c)' <=> IsFirstTouch(t, now, c)
      BY <2>1 DEF Touched, IsFirstTouch
    <3> QED
      BY <2>1, <3>1, <3>2 DEF ResultInv
  <2>2. Tick \/ EvalWrite \/ UNCHANGED <<now, touch, evals>>
    BY DEF Next, vars, ScanRead, Consider, Chosen, RecordPortfolio, Reread, WriteTemp, Replace,
           Crash, EvalRead, EvalCrash
  <2> QED
    BY <2>1, <2>2, TickKeepsResults, EvalKeepsResults
<1> QED
  BY <1>1, <1>2, TypeCorrect, PTL DEF Spec

\* No trade is closed by its own entry candle or an earlier one, for any window,
\* any lag of the provider and any price path.
THEOREM NeverClosedEarly == Spec => []NoEarlyClose
<1>1. ResultInv => NoEarlyClose
  BY DEF ResultInv, NoEarlyClose, Touched
<1> QED
  BY <1>1, ResultsKept, PTL

\* While the window reaches a trade's entry, no later evaluation turns its loss
\* into a win or its win into a loss.
THEOREM ResultsAreFinal == Spec => ResultIsFinal
<1>1. ASSUME TypeOK, ResultInv, ResultInv', [Next]_vars,
             NEW t \in DOMAIN evals \cap DOMAIN evals',
             evals[t] \in Closed, evals'[t] \in Closed, Born[t] + Window > now
      PROVE  evals'[t] = evals[t]
  <2>1. CASE UNCHANGED evals
    BY <2>1
  <2>2. CASE EvalWrite
    <3>1. UNCHANGED <<now, touch>> /\ now \in 0..Horizon
      BY <1>1, <2>2 DEF EvalWrite, TypeOK
    <3>2. PICK c \in 1..now : evals[t] = touch[t][c] /\ IsFirstTouch(t, now, c)
      BY <1>1 DEF ResultInv
    <3>3. PICK d \in 1..now : evals'[t] = touch[t][d] /\ IsFirstTouch(t, now, d)
      BY <1>1, <3>1 DEF ResultInv, IsFirstTouch, Touched
    <3>4. c = d
      BY <3>1, <3>2, <3>3 DEF IsFirstTouch
    <3> QED
      BY <3>2, <3>3, <3>4
  <2>3. EvalWrite \/ UNCHANGED evals
    BY <1>1 DEF Next, vars, Tick, ScanRead, Consider, Chosen, RecordPortfolio, Reread, WriteTemp,
           Replace, Crash, EvalRead, EvalCrash
  <2> QED
    BY <2>1, <2>2, <2>3
<1>2. TypeOK /\ ResultInv /\ ResultInv' /\ [Next]_vars =>
         [\A t \in DOMAIN evals \cap DOMAIN evals' :
             /\ evals[t] \in Closed /\ evals'[t] \in Closed
             /\ Born[t] + Window > now
             => evals'[t] = evals[t]]_vars
  BY <1>1
<1> QED
  BY <1>2, TypeCorrect, ResultsKept, PTL DEF Spec, ResultIsFinal
=============================================================================
