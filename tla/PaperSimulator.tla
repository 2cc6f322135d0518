--------------------------- MODULE PaperSimulator ---------------------------
(***************************************************************************)
(* The deterministic paper fill simulator (backend/app/paper/simulator.py  *)
(* and the outcome constructors of backend/app/paper/schemas.py) as        *)
(* operators on a set of completed one-minute bars.                        *)
(*                                                                         *)
(* Times are minutes since a UTC epoch, prices are integral multiples of   *)
(* the code's PRICE_QUANT (0.000001), and a percentage or a multiple is an *)
(* integer over Unit (Unit stands for 100 percent, and for the R multiple  *)
(* 1).  A bar is [t, low, high, close]; the open price and the volume are  *)
(* read by nothing in the simulator.                                       *)
(***************************************************************************)
EXTENDS Integers

CONSTANTS
    MinutesPerDay,   \* 1440
    IstOffset,       \* 330: IST is UTC plus five hours and a half
    Unit             \* denominator of percentages and of the R multiple

ASSUME SimulatorAssumption ==
    /\ MinutesPerDay \in Nat \ {0}
    /\ IstOffset \in Nat
    /\ Unit \in Nat \ {0}

\* The code's None for a time and for a price.
NoTime == -1
NoPrice == -1

Bar == [t : Nat, low : Nat, high : Nat, close : Nat]

PaperConfig ==
    [entryBuffer : Int, stopPct : Int, targetR : Int,
     quantity : Int, forceFlat : Nat, cost : Int]

ExitReason ==
    {"NO_FILL", "STOP_HIT", "TARGET_HIT", "TIME_EXIT", "FORCE_FLAT",
     "DATA_ENDED", "INVALID_SIGNAL_CONTEXT", "DUPLICATE_SIGNAL",
     "MODE_DISABLED"}

EntryStatus == {"NOT_CREATED", "PAPER_ENTRY_NO_FILL", "PAPER_ENTRY_FILLED"}

PaperSimulationResult ==
    [status : EntryStatus, reason : ExitReason, rejected : BOOLEAN,
     tradeCreated : BOOLEAN, quantity : Int,
     entry : Int, stop : Int, target : Int,
     entryTime : Int, exitTime : Int, exitPrice : Int,
     gross : Int, costs : Int, net : Int]

-----------------------------------------------------------------------------
(* Rounding and the IST calendar. *)

\* n / d rounded to an integer, halves away from zero (ROUND_HALF_UP).
Q(n, d) == IF n >= 0 THEN (2 * n + d) \div (2 * d)
                     ELSE -((2 * (-n) + d) \div (2 * d))

IstMinute(t) == t + IstOffset

SessionDate(t) == IstMinute(t) \div MinutesPerDay

AtOrAfterForceFlat(t, config) ==
    IstMinute(t) % MinutesPerDay >= config.forceFlat

Earliest(bars) == CHOOSE b \in bars : \A c \in bars : b.t <= c.t
Latest(bars) == CHOOSE b \in bars : \A c \in bars : c.t <= b.t

-----------------------------------------------------------------------------
(* Outcome constructors (schemas.py). *)

RejectedOutcome(reason) ==
    [status |-> "NOT_CREATED", reason |-> reason, rejected |-> TRUE,
     tradeCreated |-> FALSE, quantity |-> 0,
     entry |-> NoPrice, stop |-> NoPrice, target |-> NoPrice,
     entryTime |-> NoTime, exitTime |-> NoTime, exitPrice |-> NoPrice,
     gross |-> 0, costs |-> 0, net |-> 0]

NoFillOutcome(ins) ==
    [status |-> "PAPER_ENTRY_NO_FILL", reason |-> "NO_FILL",
     rejected |-> FALSE, tradeCreated |-> FALSE, quantity |-> ins.quantity,
     entry |-> ins.entry, stop |-> ins.stop, target |-> ins.target,
     entryTime |-> NoTime, exitTime |-> NoTime, exitPrice |-> NoPrice,
     gross |-> 0, costs |-> 0, net |-> 0]

\* The code tests exit_price for None; exit time and price are None together.
CompletedTradeOutcome(ins, entryTime, exitTime, exitPrice, reason) ==
    LET exited == exitTime # NoTime
        costs  == IF exited THEN ins.cost ELSE 0
        gross  == IF exited THEN (exitPrice - ins.entry) * ins.quantity ELSE 0
    IN  [status |-> "PAPER_ENTRY_FILLED", reason |-> reason,
         rejected |-> FALSE, tradeCreated |-> TRUE, quantity |-> ins.quantity,
         entry |-> ins.entry, stop |-> ins.stop, target |-> ins.target,
         entryTime |-> entryTime, exitTime |-> exitTime,
         exitPrice |-> exitPrice,
         gross |-> gross, costs |-> costs, net |-> gross - costs]

-----------------------------------------------------------------------------
(* build_instruction.  A signal is [t, contextOk]: contextOk abstracts the  *)
(* eight checks of _validate_signal, which all end in the same rejection.   *)

Instruction(signal, close, config) ==
    LET entry == Q(close * (Unit + config.entryBuffer), Unit)
        stop  == Q(entry * (Unit - config.stopPct), Unit)
        risk  == entry - stop
    IN  [t |-> signal.t, entry |-> entry, stop |-> stop,
         target |-> Q(entry * Unit + config.targetR * risk, Unit),
         quantity |-> config.quantity, maxRisk |-> risk * config.quantity,
         cost |-> config.cost]

ValidInstruction(ins) ==
    /\ ins.entry > 0
    /\ ins.stop > 0
    /\ ins.entry > ins.stop
    /\ ins.quantity >= 1
    /\ ins.target > ins.entry

-----------------------------------------------------------------------------
(* simulate. *)

\* Mutant: the signal's own candle may fill the entry.
SameDayFutureInclusive(ins, bars) ==
    {b \in bars : SessionDate(b.t) = SessionDate(ins.t) /\ b.t >= ins.t}

SameDayFuture(ins, bars) ==
    {b \in bars : SessionDate(b.t) = SessionDate(ins.t) /\ b.t > ins.t}

EntryCandles(ins, bars, config) ==
    {b \in SameDayFuture(ins, bars) :
        /\ ~AtOrAfterForceFlat(b.t, config)
        /\ b.low <= ins.entry
        /\ ins.entry <= b.high}

ExitCandles(ins, bars, entryTime) ==
    {b \in SameDayFuture(ins, bars) : b.t > entryTime}

\* Mutant: the target is looked at before the stop.
ExitAtTargetFirst(ins, b, config) ==
    IF AtOrAfterForceFlat(b.t, config) THEN "FORCE_FLAT"
    ELSE IF b.high >= ins.target THEN "TARGET_HIT"
    ELSE IF b.low <= ins.stop THEN "STOP_HIT"
    ELSE "TIME_EXIT"

\* What one exit candle does, in the order the loop tests it; TIME_EXIT is
\* the candle that triggers nothing and only becomes last_eligible.
ExitAt(ins, b, config) ==
    IF AtOrAfterForceFlat(b.t, config) THEN "FORCE_FLAT"
    ELSE IF b.low <= ins.stop THEN "STOP_HIT"
    ELSE IF b.high >= ins.target THEN "TARGET_HIT"
    ELSE "TIME_EXIT"

ExitPrice(ins, b, config) ==
    CASE ExitAt(ins, b, config) = "STOP_HIT"   -> ins.stop
      [] ExitAt(ins, b, config) = "TARGET_HIT" -> ins.target
      [] OTHER                                 -> b.close

\* Mutant: the exit is taken at the last candle that triggers, not the first.
ExitCandleLast(ins, exits, config) ==
    LET triggering == {b \in exits : ExitAt(ins, b, config) # "TIME_EXIT"}
    IN  IF triggering = {} THEN Latest(exits) ELSE Latest(triggering)

\* The candle the loop leaves on: the first that triggers, else the last.
ExitCandle(ins, exits, config) ==
    LET triggering == {b \in exits : ExitAt(ins, b, config) # "TIME_EXIT"}
    IN  IF triggering = {} THEN Latest(exits) ELSE Earliest(triggering)

Simulate(ins, bars, config) ==
    LET entries == EntryCandles(ins, bars, config)
        entryTime == Earliest(entries).t
        exits == ExitCandles(ins, bars, entryTime)
        b == ExitCandle(ins, exits, config)
    IN  IF entries = {} THEN NoFillOutcome(ins)
        ELSE IF exits = {}
        THEN CompletedTradeOutcome(ins, entryTime, NoTime, NoPrice, "DATA_ENDED")
        ELSE CompletedTradeOutcome(ins, entryTime, b.t,
                                   ExitPrice(ins, b, config),
                                   ExitAt(ins, b, config))

\* build_instruction followed by simulate, as run_replay calls them.  The
\* signal's candle, if stored, is the only bar of its minute, and the
\* instruction built from it the only member of instructions.
Outcome(signal, bars, config) ==
    LET instructions ==
            {Instruction(signal, b.close, config) :
                b \in {c \in bars : c.t = signal.t /\ signal.contextOk}}
        valid == {ins \in instructions : ValidInstruction(ins)}
    IN  IF valid = {} THEN RejectedOutcome("INVALID_SIGNAL_CONTEXT")
        ELSE CHOOSE o \in {Simulate(ins, bars, config) : ins \in valid} : TRUE

=============================================================================
