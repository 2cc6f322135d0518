------------------------------ MODULE Scanner ------------------------------
(***************************************************************************)
(* Deterministic scans of stored candles (backend/app/scanners/auto_loop.py*)
(* and service.py with its repository, strategies, vetoes and the feature  *)
(* scopes of analysis/feature_builder.py).                                 *)
(*                                                                         *)
(* A scan is run by the auto loop or by run-now, which share a lock, or by *)
(* the run-batch and run-once routes (and the market-ops job), which take  *)
(* none.  It is at one of its awaits; what it does between two awaits is   *)
(* one step.  Minutes are numbered from some midnight, DayLength to a day. *)
(* Of a candle only its presence matters: whether the indicators of a      *)
(* strategy meet its condition is a choice made at each evaluation.        *)
(***************************************************************************)
EXTENDS CandleSessions, Sequences, FiniteSets

CONSTANTS
    Loops,             \* tasks of the auto loop: the current one, cancelled ones
    Operators,         \* callers of run-now, run-batch and run-once
    Symbols, Benchmark,        \* Benchmark is a symbol or "none"
    Strategies,        \* sequence of strategies, "orb" and "vwap"
    Selections,        \* what the configured or selected symbols may be, <<>> when missing
    InitialCandles,    \* candles stored before the first step
    Minutes,           \* minutes of candles
    Feed,              \* candles that may still be stored
    FirstNow, MaxNow,  \* bounds: the first and the last minute of the clock
    EntryEnd, StartAfter, StopAfter,   \* times of a day, in minutes
    OpeningRange, StaleAfter, HistoryBars, HistoryLimit, MaxSymbols,
    AutoStore, MinCandles, RequireStart, RequireContinuity, \* SCANNER_AUTO_LOOP_ settings
    MaxRuns            \* bound: scans begun

ASSUME ScannerAssumption ==
    /\ Loops \cap Operators = {} /\ "free" \notin Loops \cup Operators
    /\ "none" \notin Symbols /\ Benchmark \in Symbols \cup {"none"}
    /\ Strategies \in Seq({"orb", "vwap"}) /\ Selections \subseteq Seq(Symbols)
    /\ Minutes \subseteq Nat /\ IsFiniteSet(Minutes) /\ InitialCandles \cup Feed \subseteq Symbols \X Minutes
    /\ MaxNow \in Nat /\ FirstNow \in 0 .. MaxNow
    /\ {EntryEnd, StartAfter, StopAfter, StaleAfter, MinCandles} \subseteq Nat
    /\ {OpeningRange, HistoryBars, HistoryLimit, MaxSymbols, MaxRuns} \subseteq Nat \ {0}
    /\ {AutoStore, RequireStart, RequireContinuity} \subseteq BOOLEAN

Callers == Loops \cup Operators
Free == "free"

VARIABLES
    now,        \* the clock, in minutes
    candles,    \* set of <<symbol, minute>>: the completed candles
    signals,    \* rows of the table; run is history: the scan that stored it
    task,       \* the auto loop's _task, or Free
    runLock,    \* holder of _run_lock, or Free
    job,        \* [Callers -> Job]: what each caller is doing
    runs,       \* history: scans begun
    report      \* the last result that a scan returned

vars == <<now, candles, signals, task, runLock, job, runs, report>>

Idle == [pc |-> "idle", kind |-> "none", store |-> FALSE, dry |-> FALSE, run |-> 0,
         todo |-> <<>>, bars |-> {}, stale |-> FALSE, evals |-> {}, cancelled |-> FALSE,
         inserted |-> 0, candidates |-> 0, totalInserted |-> 0, totalCandidates |-> 0,
         failed |-> FALSE]

\* The loop between two runs, its first one included.
Sleeping == [Idle EXCEPT !.pc = "sleep"]

-----------------------------------------------------------------------------
(* Candles of a loaded series. *)

\* The latest HistoryLimit candles of a symbol.
LoadCompletedBars(s) ==
    LET stored == {t \in Minutes : <<s, t>> \in candles}
    IN  {t \in stored : Cardinality({u \in stored : u > t}) < HistoryLimit}

\* Mutant: a continuous prefix may begin at any minute.
PrefixAnywhere(session, n) ==
    Cardinality(session) >= n /\ First(session) .. First(session) + n - 1 \subseteq session

HasContinuousPrefix(session, n) ==
    /\ Cardinality(session) >= n
    /\ SessionStartAvailable(session)
    /\ First(session) .. First(session) + n - 1 \subseteq session

\* _latest_completed_bar_is_stale: a minute of grace after the bar's end.
IsStale(bars) == now > Latest(bars) + 1 + 1 + StaleAfter

-----------------------------------------------------------------------------
(* evaluate_strategy. *)

\* history_complete: the averages have their bars, the VWAP its session.
HistoryComplete(bars) ==
    Cardinality(TrailingBars(bars)) >= HistoryBars /\ CurrentSession(bars) # {}

\* relative_index_move is available.
RelativeIndexMovement(bars, benchmarkBars) ==
    Cardinality(TrailingBars(bars)) >= 2 /\ Cardinality(TrailingBars(benchmarkBars)) >= 2

\* Does the context of a series pass hard_vetoes?
Unvetoed(strategy, bars, stale, benchmarkBars) ==
    LET session == CurrentSession(bars)
    IN  /\ HistoryComplete(bars)
        /\ CandleContinuityOk(session)
        /\ strategy = "vwap" => HasContinuousPrefix(session, Cardinality(session))
        /\ strategy = "orb" => HasContinuousPrefix(session, OpeningRange)
        /\ ~stale
        /\ TimeOfDay(Latest(bars)) <= EntryEnd
        /\ Benchmark # "none" => RelativeIndexMovement(bars, benchmarkBars)

\* The two strategies; met are those whose condition the indicators meet.
Candidate(strategy, j, benchmarkBars, met) ==
    strategy \in met /\ Unvetoed(strategy, j.bars, j.stale, benchmarkBars)

\* The evaluation by the n-th strategy.
Evaluation(n, j, benchmarkBars, met) ==
    [n |-> n, strategy |-> Strategies[n], minute |-> Latest(j.bars),
     candidate |-> Candidate(Strategies[n], j, benchmarkBars, met)]

\* Evaluations are persisted in the order of their strategies.
NextEval(j) == CHOOSE e \in j.evals : \A other \in j.evals : e.n <= other.n

\* Mutant: the status is part of the key.
KeyTakenByStatus(s, e) ==
    \E r \in signals : r.symbol = s /\ r.strategy = e.strategy /\ r.minute = e.minute
                         /\ r.candidate = e.candidate

\* The unique index on signal_key.
KeyTaken(s, e) ==
    \E r \in signals : r.symbol = s /\ r.strategy = e.strategy /\ r.minute = e.minute

\* The table after a committed insert_signal of e.
Inserted(s, e, run) ==
    signals \cup {[symbol |-> s, strategy |-> e.strategy, minute |-> e.minute,
                   candidate |-> e.candidate, run |-> run]}

-----------------------------------------------------------------------------
(* The environment. *)

Tick ==
    /\ now < MaxNow
    /\ now' = now + 1
    /\ UNCHANGED <<candles, signals, task, runLock, job, runs, report>>

\* The candle builder stores a completed minute, possibly late and out of order.
StoreCandle(candle) ==
    /\ candle[2] < now /\ candle \notin candles
    /\ candles' = candles \cup {candle}
    /\ UNCHANGED <<now, signals, task, runLock, job, runs, report>>

-----------------------------------------------------------------------------
(* The end of a run and the next symbol of one. *)

\* async with self._run_lock.
Release(c) == runLock' = IF runLock = c THEN Free ELSE runLock

\* Mutant: the lock stays taken.
LeaveLocked(c) ==
    /\ job' = [job EXCEPT ![c] = IF c \in Loops THEN Sleeping ELSE Idle]
    /\ UNCHANGED <<runLock, runs>>

\* Return or raise; a loop catches what its run raises and sleeps.
Leave(c) ==
    /\ job' = [job EXCEPT ![c] = IF c \in Loops THEN Sleeping ELSE Idle]
    /\ Release(c)
    /\ UNCHANGED runs

Result(j) == [run |-> j.run, inserted |-> j.totalInserted, candidates |-> j.totalCandidates,
              failed |-> j.failed]

\* Mutant: the result of a failing symbol keeps the symbol as scanned.
SymbolDoneSilently(c, j) ==
    LET next == [j EXCEPT !.todo = Tail(@), !.pc = "load", !.bars = {}, !.stale = FALSE,
                    !.evals = {}, !.inserted = 0, !.candidates = 0, !.failed = FALSE,
                    !.totalInserted = @ + j.inserted, !.totalCandidates = @ + j.candidates]
    IN  IF next.todo = <<>> THEN report' = Result(next) /\ Leave(c)
        ELSE job' = [job EXCEPT ![c] = next] /\ UNCHANGED <<runLock, runs, report>>

\* The result of the symbol j has just scanned is added to the totals.
SymbolDone(c, j) ==
    LET next == [j EXCEPT !.todo = Tail(@), !.pc = "load", !.bars = {}, !.stale = FALSE,
                    !.evals = {}, !.inserted = 0, !.candidates = 0,
                    !.totalInserted = @ + j.inserted, !.totalCandidates = @ + j.candidates]
    IN  IF next.todo = <<>> THEN report' = Result(next) /\ Leave(c)
        ELSE job' = [job EXCEPT ![c] = next] /\ UNCHANGED <<runLock, runs, report>>

-----------------------------------------------------------------------------
(* The auto loop. *)

StartLoop(l) ==
    /\ task = Free
    /\ job[l].pc = "idle"
    /\ task' = l
    /\ job' = [job EXCEPT ![l] = Sleeping]
    /\ UNCHANGED <<now, candles, signals, runLock, runs, report>>

\* stop: the task is cancelled at its await; a run of it has yet to unwind.
StopLoop ==
    /\ task # Free
    /\ task' = Free
    /\ job' = [job EXCEPT ![task] = IF @.pc = "sleep" THEN Idle
                                    ELSE [@ EXCEPT !.cancelled = TRUE]]
    /\ UNCHANGED <<now, candles, signals, runLock, runs, report>>

\* CancelledError is no Exception: it passes run_batch and frees the lock.
\* An insert may have been committed without the task knowing.
Unwind(l) ==
    /\ job[l].cancelled
    /\ \/ UNCHANGED signals
       \/ /\ job[l].pc = "insert" /\ ~KeyTaken(Head(job[l].todo), NextEval(job[l]))
          /\ signals' = Inserted(Head(job[l].todo), NextEval(job[l]), job[l].run)
    /\ job' = [job EXCEPT ![l] = Idle]
    /\ Release(l)
    /\ UNCHANGED <<now, candles, task, runs, report>>

InWindow(t) == StartAfter <= TimeOfDay(t) /\ TimeOfDay(t) <= StopAfter

\* A scan begins: its symbols are not known yet.
Begin(c, kind, store, dry) ==
    /\ runs < MaxRuns
    /\ runs' = runs + 1
    /\ job' = [job EXCEPT ![c] = [Idle EXCEPT !.pc = "symbols", !.kind = kind,
                                     !.store = store, !.dry = dry, !.run = runs + 1]]

\* run_now of a loop that is due or of an operator.  Busy, or outside the
\* window, there is no run and nothing awaits.
RunNow(c) ==
    /\ c \in Loops => job[c].pc = "sleep"
    /\ c \in Operators => job[c].pc = "idle"
    /\ runLock = Free /\ InWindow(now)
    /\ runLock' = c
    /\ Begin(c, "auto", AutoStore, FALSE)
    /\ UNCHANGED <<now, candles, signals, task, report>>

RunBatch(o, store, dry) ==
    /\ job[o].pc = "idle"
    /\ Begin(o, "batch", store, dry)
    /\ UNCHANGED <<now, candles, signals, task, runLock, report>>

RunOnce(o) ==
    /\ job[o].pc = "idle"
    /\ Begin(o, "once", TRUE, FALSE)
    /\ UNCHANGED <<now, candles, signals, task, runLock, report>>

-----------------------------------------------------------------------------
(* The steps of a scan. *)

At(c, pc) == job[c].pc = pc /\ ~job[c].cancelled

\* Every symbol once, in the order of its first mention.
NormalizeSymbols(list) ==
    LET upTo[i \in 0 .. Len(list)] ==
          IF i = 0 THEN <<>>
          ELSE IF \E k \in 1 .. i - 1 : list[k] = list[i] THEN upTo[i - 1]
          ELSE Append(upTo[i - 1], list[i])
    IN  upTo[Len(list)]

\* The symbols of the run.  A missing universe or too many symbols end a
\* batch without a result; run_once scans whatever it loads.
ResolveSymbols(c, list) ==
    /\ At(c, "symbols")
    /\ LET batch == job[c].kind # "once"
           symbols == IF batch THEN NormalizeSymbols(list) ELSE list
       IN  IF batch /\ Len(symbols) \notin 1 .. MaxSymbols THEN Leave(c) /\ UNCHANGED report
           ELSE IF symbols = <<>> THEN report' = Result(job[c]) /\ Leave(c)
           ELSE /\ job' = [job EXCEPT ![c].pc = "load", ![c].todo = symbols]
                /\ UNCHANGED <<runLock, runs, report>>
    /\ UNCHANGED <<now, candles, signals, task>>

\* The early returns of _run_symbol; only the auto loop asks for the last three.
Skipped(kind, bars) ==
    LET session == CurrentSession(bars)
    IN  \/ bars = {}
        \/ kind = "auto" /\ \/ MinCandles > 0 /\ Cardinality(session) < MinCandles
                            \/ RequireStart /\ ~SessionStartAvailable(session)
                            \/ RequireContinuity /\ ~CandleContinuityOk(session)

ShouldPersist(e, j) == (e.candidate \/ j.store) /\ ~j.dry

\* The strategies are evaluated on what was loaded; those to be persisted wait
\* for their inserts.
Evaluate(c, j, benchmarkBars, met) ==
    LET all == {Evaluation(n, j, benchmarkBars, met) : n \in DOMAIN Strategies}
        next == [j EXCEPT !.candidates = Cardinality({e \in all : e.candidate}),
                          !.evals = {e \in all : ShouldPersist(e, j)}, !.pc = "insert",
                          !.bars = {}, !.stale = FALSE]
    IN  IF next.evals = {} THEN SymbolDone(c, next)
        ELSE job' = [job EXCEPT ![c] = next] /\ UNCHANGED <<runLock, runs, report>>

LoadBars(c, met) ==
    /\ At(c, "load")
    /\ LET bars == LoadCompletedBars(Head(job[c].todo))
           next == [job[c] EXCEPT !.bars = bars, !.stale = IsStale(bars), !.pc = "benchmark"]
       IN  IF Skipped(job[c].kind, bars) THEN SymbolDone(c, job[c])
           ELSE IF Benchmark = "none" THEN Evaluate(c, next, {}, met)
           ELSE job' = [job EXCEPT ![c] = next] /\ UNCHANGED <<runLock, runs, report>>
    /\ UNCHANGED <<now, candles, signals, task>>

LoadBenchmark(c, met) ==
    /\ At(c, "benchmark")
    /\ Evaluate(c, job[c], LoadCompletedBars(Benchmark), met)
    /\ UNCHANGED <<now, candles, signals, task>>

\* insert_signal: a row, or a duplicate that IntegrityError reports.
InsertSignal(c) ==
    /\ At(c, "insert")
    /\ LET s == Head(job[c].todo)
           e == NextEval(job[c])
           next == [job[c] EXCEPT !.evals = @ \ {e},
                                  !.inserted = IF KeyTaken(s, e) THEN @ ELSE @ + 1]
       IN  /\ signals' = IF KeyTaken(s, e) THEN signals ELSE Inserted(s, e, job[c].run)
           /\ IF next.evals = {} THEN SymbolDone(c, next)
              ELSE job' = [job EXCEPT ![c] = next] /\ UNCHANGED <<runLock, runs, report>>
    /\ UNCHANGED <<now, candles, task>>

\* A database call raises, the commit of an insert with or without effect.
\* A batch gives the symbol an empty result and goes on, anything else ends.
Fail(c) ==
    /\ \E pc \in {"symbols", "load", "benchmark", "insert"} : At(c, pc)
    /\ \/ UNCHANGED signals
       \/ /\ At(c, "insert") /\ ~KeyTaken(Head(job[c].todo), NextEval(job[c]))
          /\ signals' = Inserted(Head(job[c].todo), NextEval(job[c]), job[c].run)
    /\ IF job[c].kind = "once" \/ At(c, "symbols") THEN Leave(c) /\ UNCHANGED report
       ELSE SymbolDone(c, [job[c] EXCEPT !.inserted = 0, !.candidates = 0, !.failed = TRUE])
    /\ UNCHANGED <<now, candles, task>>

\* The API process is restarted; what is stored stays.
ApiRestart ==
    /\ \E c \in Callers : job[c] # Idle
    /\ job' = [c \in Callers |-> Idle]
    /\ task' = Free /\ runLock' = Free
    /\ UNCHANGED <<now, candles, signals, runs, report>>

-----------------------------------------------------------------------------
Init ==
    /\ now = FirstNow
    /\ candles = InitialCandles
    /\ signals = {} /\ report = Result(Idle) /\ runs = 0
    /\ task = Free /\ runLock = Free
    /\ job = [c \in Callers |-> Idle]

\* A step of a scan that is under way.
Scan(c) ==
    \/ \E list \in Selections : ResolveSymbols(c, list)
    \/ \E met \in SUBSET {Strategies[i] : i \in DOMAIN Strategies} :
          LoadBars(c, met) \/ LoadBenchmark(c, met)
    \/ InsertSignal(c)
    \/ Fail(c)

Next ==
    \/ Tick
    \/ \E candle \in Feed : StoreCandle(candle)
    \/ \E l \in Loops : StartLoop(l) \/ Unwind(l)
    \/ StopLoop
    \/ \E c \in Callers : RunNow(c)
    \/ \E o \in Operators : \/ RunOnce(o)
                            \/ \E store, dry \in BOOLEAN : RunBatch(o, store, dry)
    \/ \E c \in Callers : Scan(c)
    \/ ApiRestart

Spec == Init /\ [][Next]_vars

-----------------------------------------------------------------------------
(* Properties. *)

\* "immutable signal-key uniqueness": however the scans of loops, operators and jobs
\* interleave, a symbol, a strategy and a bar have one signal, and its first verdict
\* stands, also when a later scan knows more candles and sees a candidate.
SignalsImmutable ==
    [][/\ signals \subseteq signals'
       /\ \A r, q \in signals' :
            r.symbol = q.symbol /\ r.strategy = q.strategy /\ r.minute = q.minute => r = q]_signals

\* The auto loop "prevents overlapping runs": a run of the loop or of run-now
\* has the lock until it ends, fails or has unwound, and nobody else has it.  And a
\* loop that lives is the task that stop would cancel, also while an earlier one
\* still unwinds.
AutoRunsExclusive ==
    /\ \A c \in Callers : job[c].kind = "auto" <=> runLock = c
    /\ \A l \in Loops : job[l].pc # "idle" /\ ~job[l].cancelled => task = l

\* A result without an error counts the rows its scan stored, and announces
\* each stored candidate: the decision automation starts from these numbers.
ReportsAreExact ==
    ~report.failed =>
        LET rows == {s \in signals : s.run = report.run}
        IN  /\ report.inserted = Cardinality(rows)
            /\ report.candidates >= Cardinality({s \in rows : s.candidate})

\* A stored candidate has every minute from the open of its session to its bar
\* in the candle table, however late or out of order they came, an opening
\* range if it broke out of one, and is not later than the end of entries.
CandidatesHaveContext ==
    \A s \in signals : s.candidate =>
        /\ \A t \in DayOpen(s.minute) .. s.minute : <<s.symbol, t>> \in candles
        /\ TimeOfDay(s.minute) \in Open .. EntryEnd
        /\ s.strategy = "orb" => s.minute >= DayOpen(s.minute) + OpeningRange - 1
=============================================================================
