---------------------------- MODULE PaperReplay ----------------------------
(***************************************************************************)
(* One signal and the bars of its symbol as they reach the candles table,  *)
(* in any order (the stream service saves bars in concurrent tasks).  Each *)
(* state is the input of one replay: replayed is what it would record.     *)
(***************************************************************************)
EXTENDS PaperSimulator

CONSTANTS
    Signal,      \* [t, contextOk] of the signal under replay
    Times,       \* minutes at which a bar may be stored
    Shapes,      \* the [low, high, close] a bar may have
    Configs      \* settings the replay may run with

\* The close of a candle is one of the prices between its low and its high.
ASSUME ReplayAssumption ==
    /\ Signal.t \in Nat /\ Times \subseteq Nat /\ Configs \subseteq PaperConfig
    /\ \A s \in Shapes : /\ s.low \in Nat /\ s.close \in Nat /\ s.high \in Nat
                         /\ s.low <= s.close /\ s.close <= s.high

VARIABLES
    stored,      \* the symbol's rows of the candles table
    setting,     \* the settings of the replay
    replayed     \* what a replay of the signal over these bars records

replayVars == <<stored, setting, replayed>>

ReplayInit ==
    /\ stored = {}
    /\ setting \in Configs
    /\ replayed = Outcome(Signal, stored, setting)

\* The bars of the replay grow by one: the candles table has one row per symbol,
\* timeframe and minute.  (PaperTrading!StoreCandle also overwrites rows.)
StoreBar(t, s) ==
    /\ \A b \in stored : b.t # t
    /\ stored' = stored \cup
           {[t |-> t, low |-> s.low, high |-> s.high, close |-> s.close]}
    /\ replayed' = Outcome(Signal, stored', setting)
    /\ UNCHANGED setting

ReplayNext == \E t \in Times, s \in Shapes : StoreBar(t, s)

ReplaySpec == ReplayInit /\ [][ReplayNext]_replayVars

-----------------------------------------------------------------------------
Filled == replayed.status = "PAPER_ENTRY_FILLED"
Decisive == replayed.reason \in {"STOP_HIT", "TARGET_HIT", "FORCE_FLAT"}
Ins == Instruction(Signal, (CHOOSE b \in stored : b.t = Signal.t).close, setting)

\* A fill uses a later bar of the signal's own IST session, before force-flat,
\* and the exit a bar strictly after the entry's, in the same session.  When a
\* bar at or after the force-flat time is stored, the trade has been closed by a
\* real trigger, never by TIME_EXIT or left as DATA_ENDED.
FillsWithinSession ==
    Filled =>
        /\ Signal.t < replayed.entryTime
        /\ SessionDate(replayed.entryTime) = SessionDate(Signal.t)
        /\ ~AtOrAfterForceFlat(replayed.entryTime, setting)
        /\ replayed.exitTime # NoTime =>
              /\ replayed.entryTime < replayed.exitTime
              /\ SessionDate(replayed.exitTime) = SessionDate(Signal.t)
        /\ (\E b \in stored : /\ SessionDate(b.t) = SessionDate(Signal.t)
                              /\ b.t > Signal.t
                              /\ AtOrAfterForceFlat(b.t, setting)) => Decisive

\* Whatever the bars, a trade that is not forced flat loses at most the paper_max_risk
\* of its instruction and never exits above its target; the rounding of entry, stop
\* and target does not break the bound.  "If stop and target touch in the same candle,
\* stop wins": the target is awarded only if no bar between entry and exit, the exit
\* bar included, touched the stop.  A trade without an exit earns and costs nothing.
ExitsAreConservative ==
    /\ (Filled /\ replayed.exitTime # NoTime /\ replayed.reason # "FORCE_FLAT") =>
          /\ replayed.gross >= -Ins.maxRisk
          /\ replayed.exitPrice <= replayed.target
    /\ replayed.reason = "TARGET_HIT" =>
          \A b \in stored :
              (replayed.entryTime < b.t /\ b.t <= replayed.exitTime) => b.low > replayed.stop
    /\ replayed.net = replayed.gross - replayed.costs
    /\ replayed.exitTime = NoTime => replayed.exitPrice = NoPrice /\ replayed.net = 0

\* No look-ahead: a bar stored after the exit's minute never changes a
\* decisive outcome, and one after the entry's minute never moves the entry.
LaterBarsKeepFills ==
    [][\A b \in stored' \ stored :
         /\ (Decisive /\ b.t > replayed.exitTime) => replayed' = replayed
         /\ (Filled /\ b.t > replayed.entryTime) =>
                /\ replayed'.entryTime = replayed.entryTime
                /\ replayed'.entry = replayed.entry]_replayVars
=============================================================================
