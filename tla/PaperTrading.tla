---------------------------- MODULE PaperTrading ----------------------------
(***************************************************************************)
(* Paper replay requests over the shared database                          *)
(* (backend/app/paper/service.py and repository.py).                       *)
(*                                                                         *)
(* A worker is whatever runs PaperService.run_replay: an API request, with *)
(* a service and a database session of its own, or the command line tool.  *)
(* Nothing serialises workers: what one reads may be stale when it writes, *)
(* and only the transaction of record_paper_outcome and the unique index   *)
(* on trades(signal_id) order them.  Each await on the database is a step. *)
(* The database is PostgreSQL at READ COMMITTED: every select sees what is *)
(* committed when it runs.                                                 *)
(***************************************************************************)
EXTENDS PaperSimulator, FiniteSets, Sequences

CONSTANTS
    Workers,           \* concurrent callers of run_replay
    Settings,          \* [Workers -> [enabled, mode]]: PAPER_ENABLED, PAPER_MODE
    MaxTradesPerDay,   \* PAPER_MAX_TRADES_PER_DAY
    Config,            \* the rest of the settings, a PaperConfig
    SignalIds,         \* primary keys of signals
    SignalRow,         \* [SignalIds -> [symbol, t, contextOk, candidate]]
    Inputs,            \* [symbol, start, end, limit] of a replay request
    CandleRows,        \* rows that may reach the candles table
    AnySymbol,         \* the request's symbol is None
    MaxReplays         \* bound: replay requests in a behaviour

Modes == {"OFF", "SHADOW", "PAPER", "LIVE"}

ASSUME PaperAssumption ==
    /\ IsFiniteSet(Workers)
    /\ Settings \in [Workers -> [enabled : BOOLEAN, mode : Modes]]
    /\ MaxTradesPerDay \in Int
    /\ Config \in PaperConfig
    /\ SignalIds \subseteq Nat \ {0}
    /\ \A s \in SignalIds : /\ SignalRow[s].t \in Nat
                            /\ SignalRow[s].contextOk \in BOOLEAN
                            /\ SignalRow[s].candidate \in BOOLEAN
    /\ \A c \in CandleRows : /\ c.t \in Nat /\ c.low \in Nat
                             /\ c.high \in Nat /\ c.close \in Nat
    /\ \A i \in Inputs : i.start \in Int /\ i.end \in Int /\ i.limit \in Int
    /\ MaxReplays \in Nat

VARIABLES
    candles,    \* rows of the candles table
    signals,    \* ids of the rows of the signals table
    trades,     \* trades table: row i has id i
    orders,     \* orders table, with the events of each order: row i has id i
    journal,    \* journal_entries table
    pc,         \* [Workers -> where run_replay waits]
    pending,    \* [Workers -> loaded signals the loop has not taken yet]
    current,    \* [Workers -> the loop's signal]
    until,      \* [Workers -> the request's end]
    outcome,    \* [Workers -> the outcome to be recorded]
    results,    \* [Workers -> the outcomes of the summary so far]
    replays     \* requests made so far

tables == <<trades, orders, journal>>
inputs == <<candles, signals>>
loop == <<pending, current, until>>
vars == <<candles, signals, trades, orders, journal, pc, pending, current,
          until, outcome, results, replays>>

Day(s) == SessionDate(SignalRow[s].t)

Init ==
    /\ candles = {} /\ signals = {}
    /\ trades = <<>> /\ orders = <<>> /\ journal = <<>>
    /\ pc = [w \in Workers |-> "idle"]
    /\ pending = [w \in Workers |-> {}]
    /\ current = [w \in Workers |-> 0]
    /\ until = [w \in Workers |-> NoTime]
    /\ outcome = [w \in Workers |-> RejectedOutcome("MODE_DISABLED")]
    /\ results = [w \in Workers |-> <<>>]
    /\ replays = 0

-----------------------------------------------------------------------------
(* The rest of the system: bars and signals reach the database. *)

\* save_completed_candles: one row per symbol and minute (uq_candles_identity),
\* overwritten when the minute is saved again.
StoreCandle(c) ==
    /\ candles' = {d \in candles : d.symbol # c.symbol \/ d.t # c.t} \cup {c}
    /\ UNCHANGED <<signals, tables, pc, loop, outcome, results, replays>>

\* The scanner evaluates stored bars only, so a signal's bar is stored.
InsertSignal(s) ==
    /\ s \notin signals
    /\ \E c \in candles : c.symbol = SignalRow[s].symbol /\ c.t = SignalRow[s].t
    /\ signals' = signals \cup {s}
    /\ UNCHANGED <<candles, tables, pc, loop, outcome, results, replays>>

-----------------------------------------------------------------------------
(* run_replay, up to its loop. *)

ReplayAllowed(w) == Settings[w].enabled /\ Settings[w].mode = "PAPER"

\* The order of the query: signal_time, then id.
Before(s, u) == \/ SignalRow[s].t < SignalRow[u].t
                \/ SignalRow[s].t = SignalRow[u].t /\ s <= u

\* max(1, min(limit, 500))
BoundedLimit(limit) == IF limit < 1 THEN 1 ELSE IF limit > 500 THEN 500 ELSE limit

\* Candidates of the symbol in the window, at most limit of them.
LoadCandidateSignals(input) ==
    LET rows == {s \in signals :
                    /\ SignalRow[s].candidate
                    /\ input.symbol \in {AnySymbol, SignalRow[s].symbol}
                    /\ input.start # NoTime => SignalRow[s].t >= input.start
                    /\ input.end # NoTime => SignalRow[s].t <= input.end}
    IN  {s \in rows : Cardinality({u \in rows : Before(u, s)})
                         <= BoundedLimit(input.limit)}

\* LIVE, disabled, OFF or SHADOW: an error is raised before anything is read.
Refuse(w) ==
    /\ pc[w] = "idle"
    /\ replays < MaxReplays
    /\ ~ReplayAllowed(w)
    /\ replays' = replays + 1
    /\ UNCHANGED <<inputs, tables, pc, loop, outcome, results>>

Start(w, input) ==
    /\ pc[w] = "idle"
    /\ replays < MaxReplays
    /\ ReplayAllowed(w)
    /\ replays' = replays + 1
    /\ pending' = [pending EXCEPT ![w] = LoadCandidateSignals(input)]
    /\ until' = [until EXCEPT ![w] = input.end]
    /\ results' = [results EXCEPT ![w] = <<>>]
    /\ pc' = [pc EXCEPT ![w] = "dup_check"]
    /\ UNCHANGED <<inputs, tables, current, outcome>>

-----------------------------------------------------------------------------
(* The loop's body, one step per await. *)

PaperTradeExists(s) == \E i \in DOMAIN trades : trades[i].signal = s

TradesOfDay(d) == {i \in DOMAIN trades : Day(trades[i].signal) = d}

CountPaperTradesForDay(d) == Cardinality(TradesOfDay(d))

\* The loop takes its next signal; _duplicate_outcome_if_exists up to its write.
DupCheck(w) ==
    /\ pc[w] = "dup_check"
    /\ \E s \in pending[w] :
          /\ \A u \in pending[w] : Before(s, u)
          /\ pending' = [pending EXCEPT ![w] = @ \ {s}]
          /\ current' = [current EXCEPT ![w] = s]
          /\ IF PaperTradeExists(s)
             THEN /\ outcome' = [outcome EXCEPT
                                    ![w] = RejectedOutcome("DUPLICATE_SIGNAL")]
                  /\ pc' = [pc EXCEPT ![w] = "record"]
             ELSE /\ pc' = [pc EXCEPT ![w] = "cap_check"]
                  /\ UNCHANGED outcome
    /\ UNCHANGED <<inputs, tables, until, results, replays>>

\* Mutant: the comparison with the cap is off by one.
CapAllowsOffByOne(d) ==
    MaxTradesPerDay >= 1 /\ CountPaperTradesForDay(d) <= MaxTradesPerDay

CapAllows(d) ==
    MaxTradesPerDay >= 1 /\ CountPaperTradesForDay(d) < MaxTradesPerDay

\* _daily_cap_outcome_if_reached, up to its write.
CapCheck(w) ==
    /\ pc[w] = "cap_check"
    /\ IF CapAllows(Day(current[w]))
       THEN /\ pc' = [pc EXCEPT ![w] = "simulate"]
            /\ UNCHANGED outcome
       ELSE /\ outcome' = [outcome EXCEPT ![w] = RejectedOutcome("MODE_DISABLED")]
            /\ pc' = [pc EXCEPT ![w] = "record"]
    /\ UNCHANGED <<inputs, tables, loop, results, replays>>

\* 23:59 IST of the signal's day.
DefaultReplayEnd(t) == (SessionDate(t) + 1) * MinutesPerDay - 1 - IstOffset

\* The candle limit (100000) is far above the minutes of a session.
LoadCandles(s, end) ==
    LET last == IF end = NoTime THEN DefaultReplayEnd(SignalRow[s].t) ELSE end
        rows == {c \in candles : /\ c.symbol = SignalRow[s].symbol
                                 /\ SignalRow[s].t <= c.t
                                 /\ c.t <= last}
    IN  {[t |-> c.t, low |-> c.low, high |-> c.high, close |-> c.close] :
            c \in rows}

\* load_candles, then build_instruction and simulate without an await.
SimulateSignal(w) ==
    /\ pc[w] = "simulate"
    /\ pc' = [pc EXCEPT ![w] = "record"]
    /\ outcome' = [outcome EXCEPT ![w] =
            Outcome(SignalRow[current[w]], LoadCandles(current[w], until[w]), Config)]
    /\ UNCHANGED <<inputs, tables, loop, results, replays>>

-----------------------------------------------------------------------------
(* record_paper_outcome: one transaction. *)

EntryOrder(s, o) ==
    [signal |-> s, side |-> "BUY", quantity |-> o.quantity, price |-> o.entry,
     status |-> o.status, events |-> <<"PAPER_ENTRY_SUBMITTED", o.status>>]

ExitOrder(s, o) ==
    [signal |-> s, side |-> "SELL", quantity |-> o.quantity,
     price |-> o.exitPrice, status |-> "PAPER_EXIT_FILLED",
     events |-> <<"PAPER_EXIT_FILLED">>]

\* The order rows of an outcome: none, the entry, or the entry and the exit.
OrdersOf(s, o) ==
    IF o.status = "NOT_CREATED" THEN <<>>
    ELSE IF o.tradeCreated /\ o.exitTime # NoTime
    THEN <<EntryOrder(s, o), ExitOrder(s, o)>>
    ELSE <<EntryOrder(s, o)>>

\* Ids the two orders get when n orders are stored; 0 is no exit order.
TradeRow(s, o, n) ==
    [signal |-> s, entryOrder |-> n + 1,
     exitOrder |-> IF o.exitTime # NoTime THEN n + 2 ELSE 0,
     quantity |-> o.quantity, entryPrice |-> o.entry, exitPrice |-> o.exitPrice,
     gross |-> o.gross, costs |-> o.costs, net |-> o.net, reason |-> o.reason,
     openedAt |-> o.entryTime, closedAt |-> o.exitTime,
     status |-> IF o.reason = "DATA_ENDED" THEN "PAPER_DATA_ENDED"
                                           ELSE "PAPER_CLOSED"]

EntryType(o) ==
    IF o.tradeCreated THEN "PAPER_TRADE"
    ELSE IF o.status # "NOT_CREATED" THEN "PAPER_ENTRY_ATTEMPT"
    ELSE "PAPER_REJECTION"

\* n is the number of trades stored once the outcome's own trade is.
JournalRow(s, o, n) ==
    [type |-> EntryType(o), trade |-> IF o.tradeCreated THEN n ELSE 0,
     signal |-> s, outcome |-> o]

\* Mutant: the trades table lacks the unique index on signal_id.
ViolatesUniqueIndexNever(s, o) == FALSE

ViolatesUniqueIndex(s, o) == o.tradeCreated /\ PaperTradeExists(s)

ConflictOutcome(w) ==
    outcome' = [outcome EXCEPT ![w] = RejectedOutcome("DUPLICATE_SIGNAL")]

\* Mutant: the orders of the failed transaction are not rolled back.
RecordConflictNoRollback(w) ==
    /\ pc[w] = "record"
    /\ ViolatesUniqueIndex(current[w], outcome[w])
    /\ ConflictOutcome(w)
    /\ orders' = orders \o OrdersOf(current[w], outcome[w])
    /\ UNCHANGED <<inputs, trades, journal, pc, loop, results, replays>>

\* IntegrityError: the transaction is rolled back, and the outcome that will
\* be recorded instead is a duplicate rejection, which has no trade to conflict.
RecordConflict(w) ==
    /\ pc[w] = "record"
    /\ ViolatesUniqueIndex(current[w], outcome[w])
    /\ ConflictOutcome(w)
    /\ UNCHANGED <<inputs, tables, pc, loop, results, replays>>

RecordedJournal(w) ==
    journal' = Append(journal, JournalRow(current[w], outcome[w], Len(trades) + 1))

RecordOutcome(w) ==
    LET s == current[w]
        o == outcome[w]
    IN  /\ pc[w] = "record"
        /\ ~ViolatesUniqueIndex(s, o)
        /\ pc' = [pc EXCEPT ![w] = "dup_check"]
        /\ orders' = orders \o OrdersOf(s, o)
        /\ trades' = IF o.tradeCreated
                     THEN Append(trades, TradeRow(s, o, Len(orders)))
                     ELSE trades
        /\ RecordedJournal(w)
        /\ results' = [results EXCEPT ![w] = Append(@, [signal |-> s, outcome |-> o])]
        /\ UNCHANGED <<inputs, loop, outcome, replays>>

\* The loop is done and the summary is returned.
Finish(w) ==
    /\ pc[w] = "dup_check"
    /\ pending[w] = {}
    /\ pc' = [pc EXCEPT ![w] = "idle"]
    /\ UNCHANGED <<inputs, tables, loop, outcome, results, replays>>

\* Mutant: outcomes are flushed and never committed.
CrashLosesTables(w) ==
    /\ pc[w] # "idle"
    /\ pc' = [pc EXCEPT ![w] = "idle"]
    /\ pending' = [pending EXCEPT ![w] = {}]
    /\ results' = [results EXCEPT ![w] = <<>>]
    /\ trades' = <<>> /\ orders' = <<>> /\ journal' = <<>>
    /\ UNCHANGED <<inputs, current, until, outcome, replays>>

\* The process dies, or the database does: the transaction in progress is
\* lost, what was committed stays, and the caller gets no summary.
Crash(w) ==
    /\ pc[w] # "idle"
    /\ pc' = [pc EXCEPT ![w] = "idle"]
    /\ pending' = [pending EXCEPT ![w] = {}]
    /\ results' = [results EXCEPT ![w] = <<>>]
    /\ UNCHANGED <<inputs, tables, current, until, outcome, replays>>

-----------------------------------------------------------------------------
Step(w) ==
    \/ DupCheck(w)
    \/ CapCheck(w)
    \/ SimulateSignal(w)
    \/ RecordConflict(w)
    \/ RecordOutcome(w)
    \/ Finish(w)

Next ==
    \/ \E c \in CandleRows : StoreCandle(c)
    \/ \E s \in SignalIds : InsertSignal(s)
    \/ \E w \in Workers : \/ Refuse(w)
                          \/ \E input \in Inputs : Start(w, input)
                          \/ Step(w)
                          \/ Crash(w)

Spec == Init /\ [][Next]_vars

-----------------------------------------------------------------------------
(* Properties. *)

Candidates == {s \in SignalIds : SignalRow[s].candidate}

TradeType ==
    [signal : Candidates, entryOrder : Nat, exitOrder : Nat, quantity : Int,
     entryPrice : Int, exitPrice : Int, gross : Int, costs : Int, net : Int,
     reason : ExitReason, openedAt : Int, closedAt : Int,
     status : {"PAPER_DATA_ENDED", "PAPER_CLOSED"}]

OrderEvent == {"PAPER_ENTRY_SUBMITTED", "PAPER_ENTRY_NO_FILL",
               "PAPER_ENTRY_FILLED", "PAPER_EXIT_FILLED"}

OrderType ==
    [signal : Candidates, side : {"BUY", "SELL"}, quantity : Int, price : Int,
     status : {"PAPER_ENTRY_NO_FILL", "PAPER_ENTRY_FILLED", "PAPER_EXIT_FILLED"},
     events : Seq(OrderEvent)]

ResultType == [signal : Candidates, outcome : PaperSimulationResult]

JournalType ==
    [type : {"PAPER_TRADE", "PAPER_ENTRY_ATTEMPT", "PAPER_REJECTION"},
     trade : Nat, signal : Candidates, outcome : PaperSimulationResult]

\* Every table and every request is well-formed; only CANDIDATE signals are
\* ever loaded, simulated or written about.
TypeOK ==
    /\ candles \subseteq CandleRows
    /\ signals \subseteq SignalIds
    /\ trades \in Seq(TradeType)
    /\ orders \in Seq(OrderType)
    /\ journal \in Seq(JournalType)
    /\ pc \in [Workers -> {"idle", "dup_check", "cap_check", "simulate", "record"}]
    /\ pending \in [Workers -> SUBSET Candidates]
    /\ current \in [Workers -> Candidates \cup {0}]
    /\ until \in [Workers -> Int]
    /\ outcome \in [Workers -> PaperSimulationResult]
    /\ results \in [Workers -> Seq(ResultType)]
    /\ replays \in 0 .. MaxReplays
    /\ \A w \in Workers :
          pc[w] \in {"cap_check", "simulate", "record"} => current[w] \in Candidates

\* "Duplicate candidate cannot open duplicate paper trade": however requests
\* interleave between their duplicate check and their commit.
OneTradePerSignal ==
    \A i, j \in DOMAIN trades : trades[i].signal = trades[j].signal => i = j

\* The most trades of one session that concurrent requests can create.  The
\* cap is read before the trade is written, so each worker may overshoot by
\* the trade it was already simulating; one worker alone keeps the cap.
CapBound ==
    IF MaxTradesPerDay < 1 THEN 0
    ELSE MaxTradesPerDay - 1 + Cardinality({w \in Workers : ReplayAllowed(w)})

\* PAPER_MAX_TRADES_PER_DAY bounds the day's trades up to one in flight per
\* further concurrent request.
CapOvershootBounded ==
    \A i \in DOMAIN trades :
        CountPaperTradesForDay(Day(trades[i].signal)) <= CapBound

\* The journal and the trades table tell one story: the PAPER_TRADE entries
\* and the trades correspond one to one, with the same signal and the same
\* money, whatever requests were rolled back or crashed.
JournalMatchesTrades ==
    LET entries == {j \in DOMAIN journal : journal[j].type = "PAPER_TRADE"}
    IN  /\ \A j \in entries :
             LET n == journal[j].trade IN
             /\ n \in DOMAIN trades
             /\ trades[n].signal = journal[j].signal
             /\ trades[n].net = journal[j].outcome.net
             /\ trades[n].reason = journal[j].outcome.reason
        /\ \A i \in DOMAIN trades : \E j \in entries : journal[j].trade = i
        /\ \A j, k \in entries : journal[j].trade = journal[k].trade => j = k

\* A filled order belongs to exactly one trade, that of its own signal, as
\* its entry if it buys and as its exit if it sells; a trade without an exit
\* order is one whose data ended.  A rolled back transaction leaves no order.
FilledOrdersBelongToTrades ==
    /\ \A n \in DOMAIN orders : orders[n].status # "PAPER_ENTRY_NO_FILL" =>
          Cardinality({i \in DOMAIN trades :
              /\ trades[i].signal = orders[n].signal
              /\ n = IF orders[n].side = "BUY" THEN trades[i].entryOrder
                                               ELSE trades[i].exitOrder}) = 1
    /\ \A i \in DOMAIN trades :
          /\ trades[i].entryOrder \in DOMAIN orders
          /\ trades[i].exitOrder \in DOMAIN orders \cup {0}
          /\ trades[i].exitOrder = 0 <=> trades[i].reason = "DATA_ENDED"

\* Journal, orders and trades agree in both ways, after every conflict, crash
\* and rerun of run_replay.
TablesAgree == JournalMatchesTrades /\ FilledOrdersBelongToTrades

\* No two summaries claim to have created the trade of one signal: the
\* trades_created of all requests never adds up to more than was stored.
SummariesCountTradesOnce ==
    \A w, x \in Workers :
        \A i \in DOMAIN results[w], j \in DOMAIN results[x] :
            /\ results[w][i].outcome.tradeCreated
            /\ results[x][j].outcome.tradeCreated
            /\ results[w][i].signal = results[x][j].signal
            => w = x /\ i = j

\* The trades and the journal as the book and the audit trail of PaperLedger.
Book ==
    {[id |-> i, signal |-> trades[i].signal, net |-> trades[i].net,
      reason |-> trades[i].reason] : i \in DOMAIN trades}

Audit ==
    {[id |-> journal[j].trade, signal |-> journal[j].signal,
      net |-> journal[j].outcome.net, reason |-> journal[j].outcome.reason] :
        j \in {k \in DOMAIN journal : journal[k].type = "PAPER_TRADE"}}

Ledger == INSTANCE PaperLedger WITH Signals <- Candidates, book <- Book, audit <- Audit

\* Concurrent replays implement the ledger: each commit adds nothing, or one
\* trade of a new signal with its journal entry, and no step changes either.
ImplementsLedger == Ledger!Spec
=============================================================================
