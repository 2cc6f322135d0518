------------------------- MODULE PaperTradingProofs -------------------------
(***************************************************************************)
(* Theorems about PaperTrading for every set of workers, every cap, every  *)
(* set of signals and every series of bars, about the report over their    *)
(* journal (PaperReport), and about the replay of one signal (PaperReplay) *)
(* for all bars and settings.                                              *)
(***************************************************************************)
EXTENDS PaperReport, PaperReplay, FiniteSetTheorems, WellFoundedInduction, TLAPS

-----------------------------------------------------------------------------
(* The simulator always finds the candle it looks for. *)

\* A nonempty set of naturals has a least member.
LEMMA LeastNat ==
    ASSUME NEW T, T \subseteq Nat, T # {}
    PROVE  \E m \in T : \A y \in T : m <= y
<1> DEFINE Less == OpToRel(<, Nat)
<1>1. Less = {ss \in Nat \X Nat : ss[1] < ss[2]}
  BY Zenon DEF OpToRel
<1>2. \A y, z \in Nat : y < z => <<y, z>> \in Less
  BY <1>1
<1>3. IsWellFoundedOn(Less, Nat)
  BY NatLessThanWellFounded
<1> HIDE DEF Less
<1>4. PICK m \in T : \A y \in T : ~(<<y, m>> \in Less)
  BY <1>3, WFMin
<1>5. \A y \in T : ~(y < m)
  BY <1>2, <1>4
<1> QED
  BY <1>5

\* A nonempty set of bars has an earliest one.
LEMMA EarliestExists ==
    ASSUME NEW bars, bars \subseteq Bar, bars # {}
    PROVE  /\ Earliest(bars) \in bars
           /\ \A c \in bars : Earliest(bars).t <= c.t
<1> DEFINE T == {b.t : b \in bars}
<1>1. T \subseteq Nat /\ T # {}
  BY DEF Bar
<1>2. PICK m \in T : \A y \in T : m <= y
  BY <1>1, LeastNat
<1>3. \E b \in bars : \A c \in bars : b.t <= c.t
  BY <1>2
<1> QED
  BY <1>3 DEF Earliest

\* A bar of a session starts before the session's end.
LEMMA SessionBounded ==
    ASSUME NEW t \in Nat, NEW u \in Nat, SessionDate(t) = SessionDate(u)
    PROVE  t <= (SessionDate(u) + 1) * MinutesPerDay
  BY SimulatorAssumption DEF SessionDate, IstMinute

\* A nonempty set of bars of one session has a latest one.
LEMMA LatestExists ==
    ASSUME NEW bars, bars \subseteq Bar, bars # {},
           NEW u \in Nat, \A b \in bars : SessionDate(b.t) = SessionDate(u)
    PROVE  Latest(bars) \in bars
<1> DEFINE K == (SessionDate(u) + 1) * MinutesPerDay
           T == {K - b.t : b \in bars}
<1>1. K \in Int /\ \A b \in bars : b.t \in Nat /\ b.t <= K
  BY SessionBounded, SimulatorAssumption DEF Bar, SessionDate, IstMinute
<1> HIDE DEF K
<1>2. T \subseteq Nat /\ T # {}
  BY <1>1
<1>3. PICK m \in T : \A y \in T : m <= y
  BY <1>2, LeastNat
<1>4. PICK b \in bars : m = K - b.t
  OBVIOUS
<1>5. \A c \in bars : K - b.t <= K - c.t
  BY <1>3, <1>4
<1>6. \A c \in bars : c.t <= b.t
  BY <1>1, <1>5
<1> QED
  BY <1>6 DEF Latest

-----------------------------------------------------------------------------
(* The simulator's outcomes are well-formed. *)

InstructionType ==
    [t : Nat, entry : Int, stop : Int, target : Int,
     quantity : Int, maxRisk : Int, cost : Int]

LEMMA QType ==
    ASSUME NEW n \in Int, NEW d \in Nat \ {0}
    PROVE  Q(n, d) \in Int
  BY DEF Q

LEMMA InstructionTyped ==
    ASSUME NEW signal, signal.t \in Nat, NEW close \in Nat,
           NEW config \in PaperConfig
    PROVE  Instruction(signal, close, config) \in InstructionType
<1> DEFINE entry == Q(close * (Unit + config.entryBuffer), Unit)
           stop  == Q(entry * (Unit - config.stopPct), Unit)
           target == Q(entry * Unit + config.targetR * (entry - stop), Unit)
<1>0. /\ Unit \in Nat \ {0} /\ config.entryBuffer \in Int
      /\ config.stopPct \in Int /\ config.targetR \in Int
      /\ config.quantity \in Int /\ config.cost \in Int
  BY SimulatorAssumption DEF PaperConfig
<1>1. entry \in Int
  <2>1. close * (Unit + config.entryBuffer) \in Int
    BY <1>0
  <2> QED BY <2>1, <1>0, QType
<1> HIDE DEF entry
<1>2. stop \in Int
  <2>1. entry * (Unit - config.stopPct) \in Int
    BY <1>0, <1>1
  <2> QED BY <2>1, <1>0, QType
<1> HIDE DEF stop
<1>3. target \in Int
  <2>1. entry * Unit + config.targetR * (entry - stop) \in Int
    BY <1>0, <1>1, <1>2
  <2> QED BY <2>1, <1>0, QType
<1> HIDE DEF target
<1>4. (entry - stop) * config.quantity \in Int
  BY <1>0, <1>1, <1>2
<1>5. Instruction(signal, close, config) =
        [t |-> signal.t, entry |-> entry, stop |-> stop, target |-> target,
         quantity |-> config.quantity,
         maxRisk |-> (entry - stop) * config.quantity, cost |-> config.cost]
  BY DEF Instruction, entry, stop, target
<1> QED
  BY <1>0, <1>1, <1>2, <1>3, <1>4, <1>5 DEF InstructionType

LEMMA RejectedTyped ==
    ASSUME NEW reason \in ExitReason
    PROVE  /\ RejectedOutcome(reason) \in PaperSimulationResult
           /\ ~RejectedOutcome(reason).tradeCreated
           /\ RejectedOutcome(reason).status = "NOT_CREATED"
  BY DEF RejectedOutcome, PaperSimulationResult, EntryStatus, NoPrice, NoTime

LEMMA CompletedTyped ==
    ASSUME NEW ins \in InstructionType, NEW entryTime \in Int,
           NEW exitTime \in Int, NEW exitPrice \in Int, NEW reason \in ExitReason
    PROVE  CompletedTradeOutcome(ins, entryTime, exitTime, exitPrice, reason)
               \in PaperSimulationResult
<1> DEFINE exited == exitTime # NoTime
           costs  == IF exited THEN ins.cost ELSE 0
           gross  == IF exited THEN (exitPrice - ins.entry) * ins.quantity ELSE 0
<1>1. costs \in Int /\ gross \in Int /\ gross - costs \in Int
  BY DEF InstructionType
<1> HIDE DEF costs, gross
<1> QED
  BY <1>1 DEF CompletedTradeOutcome, PaperSimulationResult, EntryStatus,
              InstructionType, costs, gross

\* The loop over the exit candles leaves on one of them.
LEMMA ExitCandleExists ==
    ASSUME NEW ins \in InstructionType, NEW exits, exits \subseteq Bar, exits # {},
           \A c \in exits : SessionDate(c.t) = SessionDate(ins.t), NEW config
    PROVE  ExitCandle(ins, exits, config) \in exits
<1> DEFINE triggering == {c \in exits : ExitAt(ins, c, config) # "TIME_EXIT"}
<1>1. CASE triggering = {}
  <2>1. Latest(exits) \in exits
    BY LatestExists DEF InstructionType
  <2> QED BY <1>1, <2>1 DEF ExitCandle
<1>2. CASE triggering # {}
  <2>1. Earliest(triggering) \in triggering
    BY <1>2, EarliestExists
  <2> QED BY <1>2, <2>1 DEF ExitCandle
<1> QED BY <1>1, <1>2

\* What simulate returns, filled or not.
LEMMA SimulateTyped ==
    ASSUME NEW ins \in InstructionType, NEW bars, bars \subseteq Bar,
           NEW config \in PaperConfig
    PROVE  Simulate(ins, bars, config) \in PaperSimulationResult
<1> DEFINE entries == EntryCandles(ins, bars, config)
           entryTime == Earliest(entries).t
           exits == ExitCandles(ins, bars, entryTime)
           b == ExitCandle(ins, exits, config)
<1>1. CASE entries = {}
  <2>1. Simulate(ins, bars, config) = NoFillOutcome(ins)
    BY <1>1 DEF Simulate
  <2> QED BY <2>1 DEF NoFillOutcome, PaperSimulationResult, EntryStatus,
                      ExitReason, InstructionType, NoTime, NoPrice
<1>2. CASE entries # {}
  <2>1. entryTime \in Nat
    <3>1. entries \subseteq Bar
      BY DEF EntryCandles, SameDayFuture
    <3> QED BY <3>1, <1>2, EarliestExists DEF Bar
  <2> HIDE DEF entryTime
  <2>2. CASE exits = {}
    <3>1. Simulate(ins, bars, config) =
            CompletedTradeOutcome(ins, entryTime, NoTime, NoPrice, "DATA_ENDED")
      BY <1>2, <2>2 DEF Simulate, entryTime
    <3> QED BY <3>1, <2>1, CompletedTyped DEF ExitReason, NoTime, NoPrice
  <2>3. CASE exits # {}
    <3>1. exits \subseteq Bar /\ \A c \in exits : SessionDate(c.t) = SessionDate(ins.t)
      BY DEF ExitCandles, SameDayFuture
    <3>2. b \in exits
      BY <2>3, <3>1, ExitCandleExists DEF InstructionType
    <3> HIDE DEF b, exits
    <3>3. ExitAt(ins, b, config) \in ExitReason
      BY DEF ExitAt, ExitReason
    <3>4. b \in Bar /\ ExitPrice(ins, b, config) \in Int
      BY <3>1, <3>2 DEF ExitPrice, InstructionType, Bar
    <3>5. Simulate(ins, bars, config) =
            CompletedTradeOutcome(ins, entryTime, b.t,
                                  ExitPrice(ins, b, config), ExitAt(ins, b, config))
      BY <1>2, <2>3 DEF Simulate, entryTime, exits, b
    <3>6. b.t \in Int
      BY <3>4 DEF Bar
    <3> QED BY <2>1, <3>3, <3>4, <3>5, <3>6, CompletedTyped
  <2> QED BY <2>2, <2>3
<1> QED BY <1>1, <1>2

LEMMA OutcomeTyped ==
    ASSUME NEW signal, signal.t \in Nat, NEW bars, bars \subseteq Bar,
           NEW config \in PaperConfig
    PROVE  Outcome(signal, bars, config) \in PaperSimulationResult
<1> DEFINE at == {c \in bars : c.t = signal.t /\ signal.contextOk}
           instructions == {Instruction(signal, b.close, config) : b \in at}
           valid == {ins \in instructions : ValidInstruction(ins)}
<1>1. CASE valid = {}
  BY <1>1, RejectedTyped DEF Outcome, ExitReason
<1>2. CASE valid # {}
  <2>1. \A b \in at : b.close \in Nat
    BY DEF Bar
  <2>2. \A ins \in instructions : ins \in InstructionType
    BY <2>1, InstructionTyped
  <2> DEFINE outs == {Simulate(ins, bars, config) : ins \in valid}
  <2>3. outs # {} /\ \A o \in outs : o \in PaperSimulationResult
    BY <1>2, <2>2, SimulateTyped
  <2>4. Outcome(signal, bars, config) = CHOOSE o \in outs : TRUE
    BY <1>2 DEF Outcome
  <2> HIDE DEF outs
  <2> QED BY <2>3, <2>4
<1> QED BY <1>1, <1>2

-----------------------------------------------------------------------------
(* Type correctness. *)

\* The bars a replay loads are bars.
LEMMA LoadCandlesTyped ==
    ASSUME TypeOK, NEW s, NEW end
    PROVE  LoadCandles(s, end) \subseteq Bar
  BY PaperAssumption DEF TypeOK, LoadCandles, Bar

\* The orders of one outcome are well-formed.
LEMMA OrdersTyped ==
    ASSUME NEW s \in Candidates, NEW o \in PaperSimulationResult
    PROVE  /\ EntryOrder(s, o) \in OrderType \/ o.status = "NOT_CREATED"
           /\ ExitOrder(s, o) \in OrderType
<1>1. o.status # "NOT_CREATED" => EntryOrder(s, o) \in OrderType
  <2>1. o.status # "NOT_CREATED" =>
          <<"PAPER_ENTRY_SUBMITTED", o.status>> \in Seq(OrderEvent)
    BY DEF PaperSimulationResult, EntryStatus, OrderEvent
  <2> QED BY <2>1 DEF EntryOrder, OrderType, PaperSimulationResult, EntryStatus
<1>2. ExitOrder(s, o) \in OrderType
  <2>1. <<"PAPER_EXIT_FILLED">> \in Seq(OrderEvent)
    BY DEF OrderEvent
  <2> QED BY <2>1 DEF ExitOrder, OrderType, PaperSimulationResult
<1> QED BY <1>1, <1>2

\* The rows one outcome adds to the tables are well-formed.
LEMMA RowsTyped ==
    ASSUME NEW s \in Candidates, NEW o \in PaperSimulationResult, NEW n \in Nat
    PROVE  /\ TradeRow(s, o, n) \in TradeType
           /\ JournalRow(s, o, n) \in JournalType
           /\ OrdersOf(s, o) \in Seq(OrderType)
<1>1. TradeRow(s, o, n) \in TradeType
  BY DEF TradeRow, TradeType, PaperSimulationResult
<1>2. JournalRow(s, o, n) \in JournalType
  BY DEF JournalRow, JournalType, EntryType
<1>3. OrdersOf(s, o) \in Seq(OrderType)
  BY OrdersTyped DEF OrdersOf
<1> QED BY <1>1, <1>2, <1>3

LEMMA TypeInit == Init => TypeOK
<1> SUFFICES ASSUME Init PROVE TypeOK
  OBVIOUS
<1>1. RejectedOutcome("MODE_DISABLED") \in PaperSimulationResult
  BY RejectedTyped DEF ExitReason
<1> QED
  BY <1>1, PaperAssumption DEF Init, TypeOK, NoTime

LEMMA TypeStep == TypeOK /\ [Next]_vars => TypeOK'
<1> SUFFICES ASSUME TypeOK, [Next]_vars PROVE TypeOK'
  OBVIOUS
<1> USE DEF TypeOK
<1>1. ASSUME NEW c \in CandleRows, StoreCandle(c) PROVE TypeOK'
  BY <1>1 DEF StoreCandle, tables, loop
<1>2. ASSUME NEW s \in SignalIds, InsertSignal(s) PROVE TypeOK'
  BY <1>2 DEF InsertSignal, tables, loop
<1>3. ASSUME NEW w \in Workers, Refuse(w) PROVE TypeOK'
  <2>1. replays' \in 0 .. MaxReplays
    BY <1>3, PaperAssumption DEF Refuse
  <2> QED BY <1>3, <2>1 DEF Refuse, inputs, tables, loop
<1>4. ASSUME NEW w \in Workers, NEW input \in Inputs, Start(w, input) PROVE TypeOK'
  <2>1. LoadCandidateSignals(input) \subseteq Candidates
    BY DEF LoadCandidateSignals, Candidates
  <2>2. replays' \in 0 .. MaxReplays
    BY <1>4, PaperAssumption DEF Start
  <2>3. results' \in [Workers -> Seq(ResultType)]
    <3>1. <<>> \in Seq(ResultType)
      OBVIOUS
    <3> QED BY <1>4, <3>1 DEF Start
  <2>4. until' \in [Workers -> Int]
    BY <1>4, PaperAssumption DEF Start
  <2> QED BY <1>4, <2>1, <2>2, <2>3, <2>4 DEF Start, inputs, tables
<1>5. ASSUME NEW w \in Workers, DupCheck(w) PROVE TypeOK'
  <2>1. RejectedOutcome("DUPLICATE_SIGNAL") \in PaperSimulationResult
    BY RejectedTyped DEF ExitReason
  <2>2. PICK s \in pending[w] :
            /\ pending' = [pending EXCEPT ![w] = @ \ {s}]
            /\ current' = [current EXCEPT ![w] = s]
            /\ IF PaperTradeExists(s)
               THEN /\ outcome' = [outcome EXCEPT
                                      ![w] = RejectedOutcome("DUPLICATE_SIGNAL")]
                    /\ pc' = [pc EXCEPT ![w] = "record"]
               ELSE /\ pc' = [pc EXCEPT ![w] = "cap_check"]
                    /\ UNCHANGED outcome
    BY <1>5 DEF DupCheck
  <2>3. s \in Candidates
    OBVIOUS
  <2>4. /\ pending' \in [Workers -> SUBSET Candidates]
        /\ current' \in [Workers -> Candidates \cup {0}]
        /\ \A x \in Workers \ {w} : current'[x] = current[x]
        /\ current'[w] \in Candidates
    BY <2>2, <2>3
  <2>5. /\ outcome' \in [Workers -> PaperSimulationResult]
        /\ pc' \in [Workers -> {"idle", "dup_check", "cap_check",
                                "simulate", "record"}]
        /\ \A x \in Workers \ {w} : pc'[x] = pc[x]
    BY <2>1, <2>2
  <2> QED BY <1>5, <2>4, <2>5 DEF DupCheck, inputs, tables
<1>6. ASSUME NEW w \in Workers, CapCheck(w) PROVE TypeOK'
  <2>1. RejectedOutcome("MODE_DISABLED") \in PaperSimulationResult
    BY RejectedTyped DEF ExitReason
  <2> QED BY <1>6, <2>1 DEF CapCheck, inputs, tables, loop
<1>7. ASSUME NEW w \in Workers, SimulateSignal(w) PROVE TypeOK'
  <2>1. current[w] \in SignalIds
    BY <1>7 DEF SimulateSignal, Candidates
  <2>2. Outcome(SignalRow[current[w]], LoadCandles(current[w], until[w]), Config)
           \in PaperSimulationResult
    BY <2>1, LoadCandlesTyped, OutcomeTyped, PaperAssumption
  <2> QED BY <1>7, <2>2 DEF SimulateSignal, inputs, tables, loop
<1>8. ASSUME NEW w \in Workers, RecordConflict(w) PROVE TypeOK'
  <2>1. RejectedOutcome("DUPLICATE_SIGNAL") \in PaperSimulationResult
    BY RejectedTyped DEF ExitReason
  <2> QED BY <1>8, <2>1 DEF RecordConflict, ConflictOutcome, inputs, tables, loop
<1>9. ASSUME NEW w \in Workers, RecordOutcome(w) PROVE TypeOK'
  <2>1. current[w] \in Candidates /\ outcome[w] \in PaperSimulationResult
    BY <1>9 DEF RecordOutcome
  <2>2. /\ Len(orders) \in Nat /\ Len(trades) + 1 \in Nat
    OBVIOUS
  <2>3. trades' \in Seq(TradeType)
    BY <1>9, <2>1, <2>2, RowsTyped DEF RecordOutcome
  <2>4. orders' \in Seq(OrderType)
    BY <1>9, <2>1, <2>2, RowsTyped DEF RecordOutcome
  <2>5. journal' \in Seq(JournalType)
    BY <1>9, <2>1, <2>2, RowsTyped DEF RecordOutcome, RecordedJournal
  <2>6. results' \in [Workers -> Seq(ResultType)]
    <3>1. [signal |-> current[w], outcome |-> outcome[w]] \in ResultType
      BY <2>1 DEF ResultType
    <3>2. Append(results[w], [signal |-> current[w], outcome |-> outcome[w]])
            \in Seq(ResultType)
      BY <3>1
    <3> QED BY <1>9, <3>2 DEF RecordOutcome
  <2> QED BY <1>9, <2>3, <2>4, <2>5, <2>6 DEF RecordOutcome, inputs, loop
<1>10. ASSUME NEW w \in Workers, Finish(w) PROVE TypeOK'
  BY <1>10 DEF Finish, inputs, tables, loop
<1>11. ASSUME NEW w \in Workers, Crash(w) PROVE TypeOK'
  <2>1. results' \in [Workers -> Seq(ResultType)]
    <3>1. <<>> \in Seq(ResultType)
      OBVIOUS
    <3> QED BY <1>11, <3>1 DEF Crash
  <2> QED BY <1>11, <2>1 DEF Crash, inputs, tables
<1>12. CASE UNCHANGED vars
  BY <1>12 DEF vars
<1> QED
  BY <1>1, <1>2, <1>3, <1>4, <1>5, <1>6, <1>7, <1>8, <1>9, <1>10, <1>11, <1>12
     DEF Next, Step

\* The tables, and what every request holds, stay well-formed: nothing but
\* a candidate signal is ever traded.
THEOREM TypeCorrect == Spec => []TypeOK
<1> QED
  BY TypeInit, TypeStep, PTL DEF Spec

-----------------------------------------------------------------------------
(* One trade per signal. *)

\* Only a recorded outcome that created a trade changes the trades table.
LEMMA TradesStep ==
    ASSUME [Next]_vars
    PROVE  \/ UNCHANGED trades
           \/ \E w \in Workers : RecordOutcome(w) /\ outcome[w].tradeCreated
  BY DEF Next, Step, vars, tables, StoreCandle, InsertSignal, Refuse, Start,
         DupCheck, CapCheck, SimulateSignal, RecordConflict, RecordOutcome,
         Finish, Crash

LEMMA OneTradeStep ==
    TypeOK /\ OneTradePerSignal /\ [Next]_vars => OneTradePerSignal'
<1> SUFFICES ASSUME TypeOK, OneTradePerSignal, [Next]_vars
             PROVE  OneTradePerSignal'
  OBVIOUS
<1>1. CASE UNCHANGED trades
  BY <1>1 DEF OneTradePerSignal
<1>2. ASSUME NEW w \in Workers, RecordOutcome(w), outcome[w].tradeCreated
      PROVE  OneTradePerSignal'
  <2> DEFINE row == TradeRow(current[w], outcome[w], Len(orders))
  <2>1. trades' = Append(trades, row) /\ row.signal = current[w]
    BY <1>2 DEF RecordOutcome, TradeRow
  <2>2. \A i \in DOMAIN trades : trades[i].signal # current[w]
    BY <1>2 DEF RecordOutcome, ViolatesUniqueIndex, PaperTradeExists
  <2> HIDE DEF row
  <2>3. trades \in Seq(TradeType)
    BY DEF TypeOK
  <2>4. /\ DOMAIN trades' = DOMAIN trades \cup {Len(trades) + 1}
        /\ \A i \in DOMAIN trades : trades'[i] = trades[i]
        /\ trades'[Len(trades) + 1] = row
    BY <2>1, <2>3
  <2> QED BY <2>1, <2>2, <2>4 DEF OneTradePerSignal
<1> QED BY <1>1, <1>2, TradesStep

\* However replay requests interleave, crash or repeat, a signal never has
\* two paper trades: the duplicate check may be stale when the trade is
\* written, and the unique index is what makes it safe.
THEOREM OneTradeCorrect == Spec => []OneTradePerSignal
<1>1. Init => OneTradePerSignal
  BY DEF Init, OneTradePerSignal
<1> QED
  BY <1>1, OneTradeStep, TypeCorrect, PTL DEF Spec

-----------------------------------------------------------------------------
(* The ledger. *)

\* What a table tells after a row was appended.
LEMMA AppendRange ==
    ASSUME NEW S, NEW seq \in Seq(S), NEW row \in S
    PROVE  /\ Append(seq, row) \in Seq(S)
           /\ DOMAIN Append(seq, row) = DOMAIN seq \cup {Len(seq) + 1}
           /\ Len(seq) + 1 \notin DOMAIN seq
           /\ \A i \in DOMAIN seq : Append(seq, row)[i] = seq[i]
           /\ Append(seq, row)[Len(seq) + 1] = row
  OBVIOUS

\* Only a recorded outcome changes the journal.
LEMMA JournalStep ==
    ASSUME [Next]_vars
    PROVE  \/ UNCHANGED <<trades, journal>>
           \/ \E w \in Workers : RecordOutcome(w)
  BY DEF Next, Step, vars, tables, StoreCandle, InsertSignal, Refuse, Start,
         DupCheck, CapCheck, SimulateSignal, RecordConflict, RecordOutcome,
         Finish, Crash

\* Every step of the replays is a step of the ledger or leaves it alone.
LEMMA LedgerStep ==
    TypeOK /\ [Next]_vars => [Ledger!Open]_<<Book, Audit>>
<1> SUFFICES ASSUME TypeOK, [Next]_vars
             PROVE  [Ledger!Open]_<<Book, Audit>>
  OBVIOUS
<1>1. CASE UNCHANGED <<trades, journal>>
  BY <1>1 DEF Book, Audit
<1>2. ASSUME NEW w \in Workers, RecordOutcome(w)
      PROVE  [Ledger!Open]_<<Book, Audit>>
  <2>1. PICK s, o, n : s = current[w] /\ o = outcome[w] /\ n = Len(trades) + 1
    OBVIOUS
  <2>2. s \in Candidates /\ o \in PaperSimulationResult /\ n \in Nat
    BY <1>2, <2>1 DEF RecordOutcome, TypeOK
  <2>3. journal \in Seq(JournalType) /\ JournalRow(s, o, n) \in JournalType
    BY <2>2, RowsTyped DEF TypeOK
  <2>4. journal' = Append(journal, JournalRow(s, o, n))
    BY <1>2, <2>1 DEF RecordOutcome, RecordedJournal
  <2> DEFINE entry == [id |-> n, signal |-> s, net |-> o.net, reason |-> o.reason]
             k == Len(journal) + 1
  <2>5. /\ DOMAIN journal' = DOMAIN journal \cup {k}
        /\ \A j \in DOMAIN journal : journal'[j] = journal[j]
        /\ journal'[k] = JournalRow(s, o, n)
    BY <2>3, <2>4, AppendRange
  <2> HIDE DEF k
  <2>6. CASE ~o.tradeCreated
    <3>1. UNCHANGED trades
      BY <1>2, <2>1, <2>6 DEF RecordOutcome
    <3>2. journal'[k].type # "PAPER_TRADE"
      BY <2>5, <2>6 DEF JournalRow, EntryType
    <3>3. Audit' = Audit
      BY <2>5, <3>2 DEF Audit
    <3> QED BY <3>1, <3>3 DEF Book
  <2>7. CASE o.tradeCreated
    <3>1. PICK row : row = TradeRow(s, o, Len(orders))
      OBVIOUS
    <3>2. row \in TradeType /\ trades \in Seq(TradeType)
      <4>1. Len(orders) \in Nat
        BY DEF TypeOK
      <4> QED BY <2>2, <3>1, <4>1, RowsTyped DEF TypeOK
    <3>3. trades' = Append(trades, row)
      BY <1>2, <2>1, <2>7, <3>1 DEF RecordOutcome
    <3>4. /\ DOMAIN trades' = DOMAIN trades \cup {n}
          /\ n \notin DOMAIN trades
          /\ \A i \in DOMAIN trades : trades'[i] = trades[i]
          /\ trades'[n] = row
      BY <2>1, <3>2, <3>3, AppendRange
    <3>5. row.signal = s /\ row.net = o.net /\ row.reason = o.reason
      BY <3>1 DEF TradeRow
    <3>6. Book' = Book \cup {entry}
      BY <3>4, <3>5 DEF Book
    <3>7. \A i \in DOMAIN trades : trades[i].signal # s
      BY <1>2, <2>1, <2>7 DEF RecordOutcome, ViolatesUniqueIndex, PaperTradeExists
    <3>8. \A other \in Book : other.signal # entry.signal /\ other.id # entry.id
      BY <3>4, <3>7 DEF Book
    <3>9. /\ journal'[k].type = "PAPER_TRADE" /\ journal'[k].trade = n
          /\ journal'[k].signal = s /\ journal'[k].outcome = o
      BY <2>5, <2>7 DEF JournalRow, EntryType
    <3>10. Audit' = Audit \cup {entry}
      BY <2>5, <3>9 DEF Audit
    <3>11. entry \in Book' \ Book /\ entry.signal \in Candidates
      BY <2>2, <3>6, <3>8
    <3> HIDE DEF entry
    <3> QED BY <3>6, <3>8, <3>10, <3>11 DEF Ledger!Open
  <2> QED BY <2>6, <2>7
<1> QED BY <1>1, <1>2, JournalStep

\* Replays implement the ledger: trades and their journal entries appear
\* together, once per signal, and stay as they are.
THEOREM LedgerCorrect == Spec => ImplementsLedger
<1>1. Init => Ledger!Init
  BY DEF Init, Ledger!Init, Book, Audit
<1> QED
  BY <1>1, LedgerStep, TypeCorrect, PTL DEF Spec, ImplementsLedger, Ledger!Spec

-----------------------------------------------------------------------------
(* The daily cap. *)

Allowed == {w \in Workers : ReplayAllowed(w)}

\* Workers past the cap check that may still write a trade of day d.
InFlight(d) ==
    {w \in Workers : /\ \/ pc[w] = "simulate"
                        \/ pc[w] = "record" /\ outcome[w].tradeCreated
                     /\ Day(current[w]) = d}

\* The strengthening: what is written plus what may still be written.
CapInv ==
    /\ \A w \in Workers : pc[w] # "idle" => ReplayAllowed(w)
    /\ \A d : IsFiniteSet(TradesOfDay(d))
    /\ MaxTradesPerDay < 1 => trades = <<>> /\ \A d : InFlight(d) = {}
    /\ MaxTradesPerDay >= 1 =>
         \A d : CountPaperTradesForDay(d) + Cardinality(InFlight(d)) <= CapBound

\* A step that writes no trade and lets nobody pass the cap check keeps CapInv.
LEMMA CapQuietStep ==
    ASSUME TypeOK, CapInv, UNCHANGED trades,
           \A w \in Workers : pc'[w] # "idle" => ReplayAllowed(w),
           \A d : InFlight(d)' \subseteq InFlight(d)
    PROVE  CapInv'
<1>1. \A d : TradesOfDay(d)' = TradesOfDay(d)
  BY DEF TradesOfDay
<1>2. \A d : IsFiniteSet(InFlight(d))
  BY FS_Subset, PaperAssumption DEF InFlight
<1>3. \A d : /\ Cardinality(InFlight(d)') <= Cardinality(InFlight(d))
             /\ Cardinality(InFlight(d)') \in Nat /\ Cardinality(InFlight(d)) \in Nat
  BY <1>2, FS_Subset, FS_CardinalityType
<1>4. \A d : CountPaperTradesForDay(d) \in Nat
  BY FS_CardinalityType DEF CapInv, CountPaperTradesForDay
<1>5. \A d : CountPaperTradesForDay(d)' = CountPaperTradesForDay(d)
  BY <1>1 DEF CountPaperTradesForDay
<1>6. CapBound' = CapBound /\ CapBound \in Int
  <2>1. IsFiniteSet(Allowed)
    BY FS_Subset, PaperAssumption DEF Allowed
  <2> QED BY <2>1, FS_CardinalityType, PaperAssumption DEF CapBound, Allowed, ReplayAllowed
<1> QED
  BY <1>1, <1>3, <1>4, <1>5, <1>6 DEF CapInv

\* A worker that passes the cap check saw fewer trades than the cap.
LEMMA CapPassStep ==
    ASSUME TypeOK, CapInv, NEW w \in Workers, CapCheck(w),
           CapAllows(Day(current[w]))
    PROVE  CapInv'
<1>0. PICK d0 : d0 = Day(current[w])
  OBVIOUS
<1>1. /\ MaxTradesPerDay >= 1 /\ CountPaperTradesForDay(d0) < MaxTradesPerDay
      /\ trades' = trades /\ current' = current /\ outcome' = outcome
      /\ pc' = [pc EXCEPT ![w] = "simulate"] /\ pc[w] = "cap_check"
  BY <1>0 DEF CapCheck, CapAllows, tables, loop
<1>2. \A d : TradesOfDay(d)' = TradesOfDay(d)
  BY <1>1 DEF TradesOfDay, Day
<1>3. \A d : CountPaperTradesForDay(d)' = CountPaperTradesForDay(d)
             /\ CountPaperTradesForDay(d) \in Nat
  BY <1>2, FS_CardinalityType DEF CapInv, CountPaperTradesForDay
<1>4. \A x \in Workers : pc'[x] # "idle" => ReplayAllowed(x)
  BY <1>1 DEF CapInv, TypeOK
<1>5. \A d : d # d0 => InFlight(d)' = InFlight(d)
  BY <1>0, <1>1 DEF InFlight, TypeOK, Day
<1>6. IsFiniteSet(Allowed) /\ Cardinality(Allowed) \in Nat
  BY FS_Subset, FS_CardinalityType, PaperAssumption DEF Allowed
<1>7. Cardinality(InFlight(d0)') <= Cardinality(Allowed)
      /\ Cardinality(InFlight(d0)') \in Nat
  <2>1. InFlight(d0)' \subseteq Allowed
    BY <1>4 DEF InFlight, Allowed
  <2> QED BY <2>1, <1>6, FS_Subset, FS_CardinalityType
<1>8. CapBound = MaxTradesPerDay - 1 + Cardinality(Allowed)
  BY <1>1, PaperAssumption DEF CapBound, Allowed
<1>9. \A d : CountPaperTradesForDay(d)' + Cardinality(InFlight(d)') <= CapBound
  <2>1. CountPaperTradesForDay(d0)' + Cardinality(InFlight(d0)') <= CapBound
    <3> DEFINE n == CountPaperTradesForDay(d0)
               k == Cardinality(InFlight(d0)')
               a == Cardinality(Allowed)
    <3>1. /\ n \in Nat /\ k \in Nat /\ a \in Nat /\ k <= a /\ n < MaxTradesPerDay
          /\ MaxTradesPerDay \in Int
      BY <1>1, <1>3, <1>6, <1>7, PaperAssumption
    <3>2. CountPaperTradesForDay(d0)' = n
      BY <1>3
    <3> HIDE DEF n, k, a
    <3>3. n + k <= MaxTradesPerDay - 1 + a
      BY <3>1
    <3> QED BY <3>2, <3>3, <1>8 DEF k, a
  <2>2. ASSUME NEW d, d # d0
        PROVE  CountPaperTradesForDay(d)' + Cardinality(InFlight(d)') <= CapBound
    BY <2>2, <1>1, <1>3, <1>5 DEF CapInv
  <2> QED BY <2>1, <2>2
<1>10. CapBound' = CapBound
  BY DEF CapBound, ReplayAllowed
<1> QED
  BY <1>1, <1>2, <1>4, <1>9, <1>10, PaperAssumption DEF CapInv

\* Writing a trade moves its worker from in flight to written.
LEMMA CapTradeStep ==
    ASSUME TypeOK, CapInv, NEW w \in Workers, RecordOutcome(w),
           outcome[w].tradeCreated
    PROVE  CapInv'
<1>0. PICK d0 : d0 = Day(current[w])
  OBVIOUS
<1>a. PICK new : new = Len(trades) + 1
  OBVIOUS
<1>1. /\ pc[w] = "record" /\ pc' = [pc EXCEPT ![w] = "dup_check"]
      /\ current' = current /\ outcome' = outcome
      /\ trades' = Append(trades, TradeRow(current[w], outcome[w], Len(orders)))
  BY DEF RecordOutcome, loop
<1>2. /\ DOMAIN trades' = DOMAIN trades \cup {new} /\ new \notin DOMAIN trades
      /\ \A i \in DOMAIN trades : trades'[i] = trades[i]
      /\ trades'[new].signal = current[w]
  <2>1. trades \in Seq(TradeType)
    BY DEF TypeOK
  <2> QED BY <1>a, <1>1, <2>1 DEF TradeRow
<1>3. /\ TradesOfDay(d0)' = TradesOfDay(d0) \cup {new}
      /\ new \notin TradesOfDay(d0)
      /\ \A d : d # d0 => TradesOfDay(d)' = TradesOfDay(d)
  BY <1>0, <1>2 DEF TradesOfDay, Day
<1>4. /\ InFlight(d0)' = InFlight(d0) \ {w} /\ w \in InFlight(d0)
      /\ \A d : d # d0 => InFlight(d)' = InFlight(d)
  BY <1>0, <1>1 DEF InFlight, Day, TypeOK
<1>5. MaxTradesPerDay >= 1
  BY <1>4, PaperAssumption DEF CapInv
<1>6. \A d : IsFiniteSet(TradesOfDay(d)) /\ IsFiniteSet(InFlight(d))
  BY FS_Subset, PaperAssumption DEF CapInv, InFlight
<1>7. /\ \A d : IsFiniteSet(TradesOfDay(d)')
      /\ CountPaperTradesForDay(d0)' = CountPaperTradesForDay(d0) + 1
      /\ CountPaperTradesForDay(d0) \in Nat
      /\ \A d : d # d0 => CountPaperTradesForDay(d)' = CountPaperTradesForDay(d)
  BY <1>3, <1>6, FS_AddElement, FS_CardinalityType DEF CountPaperTradesForDay
<1>8. Cardinality(InFlight(d0)') = Cardinality(InFlight(d0)) - 1
      /\ Cardinality(InFlight(d0)) \in Nat
  BY <1>4, <1>6, FS_RemoveElement, FS_CardinalityType
<1>9. \A d : CountPaperTradesForDay(d)' + Cardinality(InFlight(d)') <= CapBound
  <2>1. CountPaperTradesForDay(d0)' + Cardinality(InFlight(d0)') =
        CountPaperTradesForDay(d0) + Cardinality(InFlight(d0))
    BY <1>7, <1>8
  <2>2. ASSUME NEW d, d # d0
        PROVE  CountPaperTradesForDay(d)' + Cardinality(InFlight(d)') <= CapBound
    BY <2>2, <1>4, <1>5, <1>7 DEF CapInv
  <2> QED BY <2>1, <2>2, <1>5 DEF CapInv
<1>10. \A x \in Workers : pc'[x] # "idle" => ReplayAllowed(x)
  BY <1>1 DEF CapInv, TypeOK
<1>11. CapBound' = CapBound
  BY DEF CapBound, ReplayAllowed
<1> QED
  BY <1>5, <1>7, <1>9, <1>10, <1>11, PaperAssumption DEF CapInv

LEMMA CapStep == TypeOK /\ CapInv /\ [Next]_vars => CapInv'
<1> SUFFICES ASSUME TypeOK, CapInv, [Next]_vars PROVE CapInv'
  OBVIOUS
<1>0. \A reason \in ExitReason : ~RejectedOutcome(reason).tradeCreated
  BY RejectedTyped
<1>1. ASSUME NEW c \in CandleRows, StoreCandle(c) PROVE CapInv'
  BY <1>1, CapQuietStep DEF StoreCandle, tables, loop, InFlight, CapInv
<1>2. ASSUME NEW s \in SignalIds, InsertSignal(s) PROVE CapInv'
  BY <1>2, CapQuietStep DEF InsertSignal, tables, loop, InFlight, CapInv
<1>3. ASSUME NEW w \in Workers, Refuse(w) PROVE CapInv'
  BY <1>3, CapQuietStep DEF Refuse, tables, loop, InFlight, CapInv
<1>4. ASSUME NEW w \in Workers, NEW input \in Inputs, Start(w, input) PROVE CapInv'
  <2>1. /\ UNCHANGED trades /\ \A d : InFlight(d)' \subseteq InFlight(d)
        /\ \A x \in Workers : pc'[x] # "idle" => ReplayAllowed(x)
    BY <1>4 DEF Start, tables, InFlight, CapInv, TypeOK
  <2> QED BY <2>1, CapQuietStep
<1>5. ASSUME NEW w \in Workers, DupCheck(w) PROVE CapInv'
  <2>1. ~RejectedOutcome("DUPLICATE_SIGNAL").tradeCreated
    BY <1>0 DEF ExitReason
  <2>2. /\ UNCHANGED trades /\ \A d : InFlight(d)' \subseteq InFlight(d)
        /\ \A x \in Workers : pc'[x] # "idle" => ReplayAllowed(x)
    BY <1>5, <2>1 DEF DupCheck, tables, InFlight, CapInv, TypeOK
  <2> QED BY <2>2, CapQuietStep
<1>6. ASSUME NEW w \in Workers, CapCheck(w) PROVE CapInv'
  <2>1. CASE CapAllows(Day(current[w]))
    BY <1>6, <2>1, CapPassStep
  <2>2. CASE ~CapAllows(Day(current[w]))
    <3>1. ~RejectedOutcome("MODE_DISABLED").tradeCreated
      BY <1>0 DEF ExitReason
    <3>2. /\ UNCHANGED trades /\ \A d : InFlight(d)' \subseteq InFlight(d)
          /\ \A x \in Workers : pc'[x] # "idle" => ReplayAllowed(x)
      BY <1>6, <2>2, <3>1 DEF CapCheck, tables, loop, InFlight, CapInv, TypeOK
    <3> QED BY <3>2, CapQuietStep
  <2> QED BY <2>1, <2>2
<1>7. ASSUME NEW w \in Workers, SimulateSignal(w) PROVE CapInv'
  <2>1. /\ UNCHANGED trades /\ \A d : InFlight(d)' \subseteq InFlight(d)
        /\ \A x \in Workers : pc'[x] # "idle" => ReplayAllowed(x)
    BY <1>7 DEF SimulateSignal, tables, loop, InFlight, CapInv, TypeOK
  <2> QED BY <2>1, CapQuietStep
<1>8. ASSUME NEW w \in Workers, RecordConflict(w) PROVE CapInv'
  <2>1. ~RejectedOutcome("DUPLICATE_SIGNAL").tradeCreated
    BY <1>0 DEF ExitReason
  <2>2. /\ UNCHANGED trades /\ \A d : InFlight(d)' \subseteq InFlight(d)
        /\ \A x \in Workers : pc'[x] # "idle" => ReplayAllowed(x)
    BY <1>8, <2>1 DEF RecordConflict, ConflictOutcome, tables, loop, InFlight,
                      CapInv, TypeOK
  <2> QED BY <2>2, CapQuietStep
<1>9. ASSUME NEW w \in Workers, RecordOutcome(w) PROVE CapInv'
  <2>1. CASE outcome[w].tradeCreated
    BY <1>9, <2>1, CapTradeStep
  <2>2. CASE ~outcome[w].tradeCreated
    <3>1. /\ UNCHANGED trades /\ \A d : InFlight(d)' \subseteq InFlight(d)
          /\ \A x \in Workers : pc'[x] # "idle" => ReplayAllowed(x)
      BY <1>9, <2>2 DEF RecordOutcome, loop, InFlight, CapInv, TypeOK
    <3> QED BY <3>1, CapQuietStep
  <2> QED BY <2>1, <2>2
<1>10. ASSUME NEW w \in Workers, Finish(w) \/ Crash(w) PROVE CapInv'
  <2>1. /\ UNCHANGED trades /\ \A d : InFlight(d)' \subseteq InFlight(d)
        /\ \A x \in Workers : pc'[x] # "idle" => ReplayAllowed(x)
    BY <1>10 DEF Finish, Crash, tables, loop, InFlight, CapInv, TypeOK
  <2> QED BY <2>1, CapQuietStep
<1>11. CASE UNCHANGED vars
  BY <1>11, CapQuietStep DEF vars, InFlight, CapInv
<1> QED
  BY <1>1, <1>2, <1>3, <1>4, <1>5, <1>6, <1>7, <1>8, <1>9, <1>10, <1>11
     DEF Next, Step

LEMMA CapInit == Init => CapInv
<1> SUFFICES ASSUME Init PROVE CapInv
  OBVIOUS
<1>1. /\ \A d : TradesOfDay(d) = {} /\ InFlight(d) = {}
      /\ trades = <<>> /\ \A w \in Workers : pc[w] = "idle"
  BY DEF Init, TradesOfDay, InFlight
<1>2. IsFiniteSet({}) /\ Cardinality({}) = 0
  BY FS_EmptySet
<1>3. MaxTradesPerDay >= 1 => CapBound \in Int /\ 0 <= CapBound
  <2>1. IsFiniteSet(Allowed) /\ Cardinality(Allowed) \in Nat
    BY FS_Subset, FS_CardinalityType, PaperAssumption DEF Allowed
  <2> QED BY <2>1, PaperAssumption DEF CapBound, Allowed
<1>4. \A d : CountPaperTradesForDay(d) = 0 /\ Cardinality(InFlight(d)) = 0
  BY <1>1, <1>2 DEF CountPaperTradesForDay
<1>5. MaxTradesPerDay >= 1 =>
        \A d : CountPaperTradesForDay(d) + Cardinality(InFlight(d)) <= CapBound
  BY <1>3, <1>4
<1>6. \A d : IsFiniteSet(TradesOfDay(d))
  BY <1>1, <1>2
<1> QED
  BY <1>1, <1>5, <1>6 DEF CapInv

\* With any number of concurrent requests the trades of a session exceed
\* the daily cap by at most one per further request allowed to trade: with
\* one such worker the cap is exact.
THEOREM CapCorrect == Spec => []CapOvershootBounded
<1>1. TypeOK /\ CapInv => CapOvershootBounded
  <2> SUFFICES ASSUME TypeOK, CapInv, NEW i \in DOMAIN trades
               PROVE  CountPaperTradesForDay(Day(trades[i].signal)) <= CapBound
    BY DEF CapOvershootBounded
  <2> DEFINE d == Day(trades[i].signal)
  <2>1. MaxTradesPerDay >= 1
    <3>1. trades # <<>>
      OBVIOUS
    <3> QED BY <3>1, PaperAssumption DEF CapInv
  <2>2. IsFiniteSet(InFlight(d)) /\ Cardinality(InFlight(d)) \in Nat
    BY FS_Subset, FS_CardinalityType, PaperAssumption DEF InFlight
  <2>3. CountPaperTradesForDay(d) \in Nat
    BY FS_CardinalityType DEF CapInv, CountPaperTradesForDay
  <2>4. CapBound \in Int
    <3>1. IsFiniteSet(Allowed) /\ Cardinality(Allowed) \in Nat
      BY FS_Subset, FS_CardinalityType, PaperAssumption DEF Allowed
    <3> QED BY <3>1, PaperAssumption DEF CapBound, Allowed
  <2>5. CountPaperTradesForDay(d) + Cardinality(InFlight(d)) <= CapBound
    BY <2>1 DEF CapInv
  <2> HIDE DEF d
  <2>6. CountPaperTradesForDay(d) <= CapBound
    BY <2>2, <2>3, <2>4, <2>5
  <2> QED BY <2>6 DEF d
<1> QED
  BY <1>1, CapInit, CapStep, TypeCorrect, PTL DEF Spec

-----------------------------------------------------------------------------
(* The journal, the orders and the trades. *)

\* What the fields of one outcome say of each other: a filled entry is a
\* trade, a trade has an exit unless its data ended, and without a trade
\* there is no money.
OutcomeOK(o) ==
    /\ o.tradeCreated <=> o.status = "PAPER_ENTRY_FILLED"
    /\ o.tradeCreated => (o.exitTime = NoTime <=> o.reason = "DATA_ENDED")
    /\ o.rejected <=> o.status = "NOT_CREATED"
    /\ ~o.tradeCreated => o.net = 0

LEMMA RejectedOK ==
    ASSUME NEW reason
    PROVE  OutcomeOK(RejectedOutcome(reason))
  BY DEF RejectedOutcome, OutcomeOK

\* A trade is closed with DATA_ENDED exactly when no bar follows its entry.
LEMMA SimulateOK ==
    ASSUME NEW ins \in InstructionType, NEW bars, bars \subseteq Bar,
           NEW config \in PaperConfig
    PROVE  OutcomeOK(Simulate(ins, bars, config))
<1> DEFINE entries == EntryCandles(ins, bars, config)
           entryTime == Earliest(entries).t
           exits == ExitCandles(ins, bars, entryTime)
           b == ExitCandle(ins, exits, config)
<1>1. CASE entries = {}
  <2>1. Simulate(ins, bars, config) = NoFillOutcome(ins)
    BY <1>1 DEF Simulate
  <2> QED BY <2>1 DEF NoFillOutcome, OutcomeOK
<1>2. CASE entries # {} /\ exits = {}
  <2>1. Simulate(ins, bars, config) =
          CompletedTradeOutcome(ins, entryTime, NoTime, NoPrice, "DATA_ENDED")
    BY <1>2 DEF Simulate
  <2> HIDE DEF entryTime
  <2> QED BY <2>1 DEF CompletedTradeOutcome, OutcomeOK
<1>3. CASE entries # {} /\ exits # {}
  <2>1. Simulate(ins, bars, config) =
          CompletedTradeOutcome(ins, entryTime, b.t,
                                ExitPrice(ins, b, config), ExitAt(ins, b, config))
    BY <1>3 DEF Simulate
  <2>2. b \in exits
    BY <1>3, ExitCandleExists DEF ExitCandles, SameDayFuture
  <2>3. b.t \in Nat
    BY <2>2 DEF ExitCandles, SameDayFuture, Bar
  <2> HIDE DEF b, entryTime
  <2>4. ExitAt(ins, b, config) # "DATA_ENDED"
    BY DEF ExitAt
  <2> QED BY <2>1, <2>3, <2>4 DEF CompletedTradeOutcome, OutcomeOK, NoTime
<1> QED BY <1>1, <1>2, <1>3

\* What run_replay gets for one signal is such an outcome.
LEMMA OutcomeIsOK ==
    ASSUME NEW signal, signal.t \in Nat, NEW bars, bars \subseteq Bar,
           NEW config \in PaperConfig
    PROVE  OutcomeOK(Outcome(signal, bars, config))
<1> DEFINE at == {c \in bars : c.t = signal.t /\ signal.contextOk}
           instructions == {Instruction(signal, b.close, config) : b \in at}
           valid == {ins \in instructions : ValidInstruction(ins)}
<1>1. CASE valid = {}
  BY <1>1, RejectedOK DEF Outcome
<1>2. CASE valid # {}
  <2>1. \A b \in at : b.close \in Nat
    BY DEF Bar
  <2>2. \A ins \in instructions : ins \in InstructionType
    BY <2>1, InstructionTyped
  <2> DEFINE outs == {Simulate(ins, bars, config) : ins \in valid}
  <2>3. outs # {} /\ \A o \in outs : OutcomeOK(o)
    BY <1>2, <2>2, SimulateOK
  <2>4. Outcome(signal, bars, config) = CHOOSE o \in outs : TRUE
    BY <1>2 DEF Outcome
  <2> HIDE DEF outs
  <2> QED BY <2>3, <2>4
<1> QED BY <1>1, <1>2

\* Such is what every request is about to record.
OutcomesOK == \A w \in Workers : OutcomeOK(outcome[w])

LEMMA OutcomesStep == TypeOK /\ OutcomesOK /\ [Next]_vars => OutcomesOK'
<1> SUFFICES ASSUME TypeOK, OutcomesOK, [Next]_vars PROVE OutcomesOK'
  OBVIOUS
<1>1. CASE UNCHANGED outcome
  BY <1>1 DEF OutcomesOK
<1>2. ASSUME NEW w \in Workers, NEW reason,
             outcome' = [outcome EXCEPT ![w] = RejectedOutcome(reason)]
      PROVE  OutcomesOK'
  BY <1>2, RejectedOK DEF OutcomesOK, TypeOK
<1>3. ASSUME NEW w \in Workers, SimulateSignal(w) PROVE OutcomesOK'
  <2>1. current[w] \in SignalIds
    BY <1>3 DEF SimulateSignal, Candidates, TypeOK
  <2>2. OutcomeOK(Outcome(SignalRow[current[w]],
                          LoadCandles(current[w], until[w]), Config))
    BY <2>1, LoadCandlesTyped, OutcomeIsOK, PaperAssumption
  <2> QED BY <1>3, <2>2 DEF SimulateSignal, OutcomesOK, TypeOK
<1>4. \/ UNCHANGED outcome
      \/ \E w \in Workers :
            \/ SimulateSignal(w)
            \/ outcome' = [outcome EXCEPT ![w] = RejectedOutcome("DUPLICATE_SIGNAL")]
            \/ outcome' = [outcome EXCEPT ![w] = RejectedOutcome("MODE_DISABLED")]
  BY DEF Next, Step, vars, StoreCandle, InsertSignal, Refuse, Start, DupCheck,
         CapCheck, RecordConflict, ConflictOutcome, RecordOutcome, Finish, Crash
<1> QED BY <1>1, <1>2, <1>3, <1>4

\* Only a recorded outcome changes the tables.
LEMMA TablesStep ==
    ASSUME [Next]_vars
    PROVE  \/ UNCHANGED tables
           \/ \E w \in Workers : RecordOutcome(w)
  BY DEF Next, Step, vars, tables, StoreCandle, InsertSignal, Refuse, Start,
         DupCheck, CapCheck, SimulateSignal, RecordConflict, RecordOutcome,
         Finish, Crash

\* What the journal tells of the trades after one more outcome.
LEMMA JournalMatchesStep ==
    TypeOK /\ JournalMatchesTrades /\ [Next]_vars => JournalMatchesTrades'
<1> SUFFICES ASSUME TypeOK, JournalMatchesTrades, [Next]_vars
             PROVE  JournalMatchesTrades'
  OBVIOUS
<1> DEFINE entries == {j \in DOMAIN journal : journal[j].type = "PAPER_TRADE"}
<1>1. CASE UNCHANGED tables
  BY <1>1 DEF JournalMatchesTrades, tables
<1>2. ASSUME NEW w \in Workers, RecordOutcome(w) PROVE JournalMatchesTrades'
  <2>1. PICK s, o, n, k : /\ s = current[w] /\ o = outcome[w]
                          /\ n = Len(trades) + 1 /\ k = Len(journal) + 1
    OBVIOUS
  <2>2. s \in Candidates /\ o \in PaperSimulationResult /\ n \in Nat
    BY <1>2, <2>1 DEF RecordOutcome, TypeOK
  <2>3. journal \in Seq(JournalType) /\ JournalRow(s, o, n) \in JournalType
    BY <2>2, RowsTyped DEF TypeOK
  <2>4. journal' = Append(journal, JournalRow(s, o, n))
    BY <1>2, <2>1 DEF RecordOutcome, RecordedJournal
  <2>5. /\ DOMAIN journal' = DOMAIN journal \cup {k} /\ k \notin DOMAIN journal
        /\ \A j \in DOMAIN journal : journal'[j] = journal[j]
        /\ journal'[k] = JournalRow(s, o, n)
    BY <2>1, <2>3, <2>4, AppendRange
  <2>6. CASE ~o.tradeCreated
    <3>1. UNCHANGED trades
      BY <1>2, <2>1, <2>6 DEF RecordOutcome
    <3>2. journal'[k].type # "PAPER_TRADE"
      BY <2>5, <2>6 DEF JournalRow, EntryType
    <3>3. entries' = entries
      BY <2>5, <3>2
    <3>4. \A j \in entries : journal'[j] = journal[j]
      BY <2>5
    <3> HIDE DEF entries
    <3> QED BY <3>1, <3>3, <3>4 DEF JournalMatchesTrades, entries
  <2>7. CASE o.tradeCreated
    <3>1. PICK row : row = TradeRow(s, o, Len(orders))
      OBVIOUS
    <3>2. row \in TradeType /\ trades \in Seq(TradeType)
      <4>1. Len(orders) \in Nat
        BY DEF TypeOK
      <4> QED BY <2>2, <3>1, <4>1, RowsTyped DEF TypeOK
    <3>3. trades' = Append(trades, row)
      BY <1>2, <2>1, <2>7, <3>1 DEF RecordOutcome
    <3>4. /\ DOMAIN trades' = DOMAIN trades \cup {n}
          /\ n \notin DOMAIN trades
          /\ \A i \in DOMAIN trades : trades'[i] = trades[i]
          /\ trades'[n] = row
      BY <2>1, <3>2, <3>3, AppendRange
    <3>5. row.signal = s /\ row.net = o.net /\ row.reason = o.reason
      BY <3>1 DEF TradeRow
    <3>6. /\ journal'[k].type = "PAPER_TRADE" /\ journal'[k].trade = n
          /\ journal'[k].signal = s /\ journal'[k].outcome = o
      BY <2>5, <2>7 DEF JournalRow, EntryType
    <3>7. entries' = entries \cup {k} /\ k \notin entries
      BY <2>5, <3>6
    <3>8. \A j \in entries : /\ journal'[j] = journal[j]
                             /\ journal[j].trade \in DOMAIN trades
                             /\ journal[j].trade # n
                             /\ trades[journal[j].trade].signal = journal[j].signal
                             /\ trades[journal[j].trade].net = journal[j].outcome.net
                             /\ trades[journal[j].trade].reason
                                   = journal[j].outcome.reason
      BY <2>5, <3>4 DEF JournalMatchesTrades
    <3>9. /\ \A i \in DOMAIN trades : \E j \in entries : journal[j].trade = i
          /\ \A j, l \in entries : journal[j].trade = journal[l].trade => j = l
      BY DEF JournalMatchesTrades
    <3> HIDE DEF entries
    <3>10. \A j \in entries' :
              /\ journal'[j].trade \in DOMAIN trades'
              /\ trades'[journal'[j].trade].signal = journal'[j].signal
              /\ trades'[journal'[j].trade].net = journal'[j].outcome.net
              /\ trades'[journal'[j].trade].reason = journal'[j].outcome.reason
      BY <3>4, <3>5, <3>6, <3>7, <3>8
    <3>11. \A i \in DOMAIN trades' : \E j \in entries' : journal'[j].trade = i
      BY <3>4, <3>6, <3>7, <3>8, <3>9
    <3>12. \A j, l \in entries' : journal'[j].trade = journal'[l].trade => j = l
      BY <3>6, <3>7, <3>8, <3>9
    <3> QED BY <3>10, <3>11, <3>12 DEF JournalMatchesTrades, entries
  <2> QED BY <2>6, <2>7
<1> QED BY <1>1, <1>2, TablesStep

\* The trade i is that of the order n.
Owns(i, n) ==
    /\ trades[i].signal = orders[n].signal
    /\ n = IF orders[n].side = "BUY" THEN trades[i].entryOrder
                                     ELSE trades[i].exitOrder

\* Every filled order has a trade, and trades name stored orders.
OrdersOwned ==
    /\ \A n \in DOMAIN orders :
          orders[n].status # "PAPER_ENTRY_NO_FILL" => \E i \in DOMAIN trades : Owns(i, n)
    /\ \A i \in DOMAIN trades :
          /\ trades[i].entryOrder \in DOMAIN orders
          /\ trades[i].exitOrder \in DOMAIN orders \cup {0}
          /\ trades[i].exitOrder = 0 <=> trades[i].reason = "DATA_ENDED"

\* new holds the orders of seq and after them those of the outcome o.
OrdersAppended(new, seq, s, o) ==
    LET n == Len(seq)
    IN  /\ \A i \in DOMAIN seq : i \in DOMAIN new /\ new[i] = seq[i]
        /\ o.status = "NOT_CREATED" => new = seq
        /\ o.status = "PAPER_ENTRY_NO_FILL" =>
              /\ DOMAIN new = DOMAIN seq \cup {n + 1}
              /\ new[n + 1] = EntryOrder(s, o)
        /\ o.tradeCreated /\ o.exitTime = NoTime =>
              /\ DOMAIN new = DOMAIN seq \cup {n + 1}
              /\ new[n + 1] = EntryOrder(s, o)
        /\ o.tradeCreated /\ o.exitTime # NoTime =>
              /\ DOMAIN new = DOMAIN seq \cup {n + 1, n + 2}
              /\ new[n + 1] = EntryOrder(s, o)
              /\ new[n + 2] = ExitOrder(s, o)

LEMMA AppendOrders ==
    ASSUME NEW seq \in Seq(OrderType), NEW s \in Candidates,
           NEW o \in PaperSimulationResult, OutcomeOK(o)
    PROVE  OrdersAppended(seq \o OrdersOf(s, o), seq, s, o)
<1> USE DEF OrdersAppended
<1>0. /\ EntryOrder(s, o) \in OrderType \/ o.status = "NOT_CREATED"
      /\ ExitOrder(s, o) \in OrderType
  BY OrdersTyped
<1>1. CASE o.status = "NOT_CREATED"
  <2>1. OrdersOf(s, o) = <<>> /\ ~o.tradeCreated
    BY <1>1 DEF OrdersOf, OutcomeOK
  <2>2. seq \o <<>> = seq
    OBVIOUS
  <2> QED BY <1>1, <2>1, <2>2
<1>2. CASE o.status # "NOT_CREATED" /\ ~(o.tradeCreated /\ o.exitTime # NoTime)
  <2>1. OrdersOf(s, o) = <<EntryOrder(s, o)>>
    BY <1>2 DEF OrdersOf
  <2>2. ASSUME NEW e \in OrderType
        PROVE  /\ DOMAIN (seq \o <<e>>) = DOMAIN seq \cup {Len(seq) + 1}
               /\ \A i \in DOMAIN seq : (seq \o <<e>>)[i] = seq[i]
               /\ (seq \o <<e>>)[Len(seq) + 1] = e
    OBVIOUS
  <2> QED BY <1>0, <1>2, <2>1, <2>2
<1>3. CASE o.tradeCreated /\ o.exitTime # NoTime
  <2>1. OrdersOf(s, o) = <<EntryOrder(s, o), ExitOrder(s, o)>>
        /\ o.status = "PAPER_ENTRY_FILLED"
    BY <1>3 DEF OrdersOf, OutcomeOK
  <2>2. ASSUME NEW e \in OrderType, NEW f \in OrderType
        PROVE  /\ DOMAIN (seq \o <<e, f>>) = DOMAIN seq \cup {Len(seq) + 1, Len(seq) + 2}
               /\ \A i \in DOMAIN seq : (seq \o <<e, f>>)[i] = seq[i]
               /\ (seq \o <<e, f>>)[Len(seq) + 1] = e
               /\ (seq \o <<e, f>>)[Len(seq) + 2] = f
    OBVIOUS
  <2> QED BY <1>0, <1>3, <2>1, <2>2
<1> QED BY <1>1, <1>2, <1>3

\* The transaction stores the orders together with the trade they fill.
LEMMA OrdersOwnedStep ==
    TypeOK /\ OutcomesOK /\ OrdersOwned /\ [Next]_vars => OrdersOwned'
<1> SUFFICES ASSUME TypeOK, OutcomesOK, OrdersOwned, [Next]_vars
             PROVE  OrdersOwned'
  OBVIOUS
<1>1. CASE UNCHANGED tables
  BY <1>1 DEF OrdersOwned, Owns, tables
<1>2. ASSUME NEW w \in Workers, RecordOutcome(w) PROVE OrdersOwned'
  <2>1. PICK s, o, n : s = current[w] /\ o = outcome[w] /\ n = Len(orders)
    OBVIOUS
  <2>2. /\ s \in Candidates /\ o \in PaperSimulationResult /\ OutcomeOK(o)
        /\ n \in Nat /\ orders \in Seq(OrderType) /\ DOMAIN orders = 1 .. n
    BY <1>2, <2>1 DEF RecordOutcome, TypeOK, OutcomesOK
  <2>3. orders' = orders \o OrdersOf(s, o)
    BY <1>2, <2>1 DEF RecordOutcome
  <2>4. /\ \A i \in DOMAIN orders : i \in DOMAIN orders' /\ orders'[i] = orders[i]
        /\ o.status = "NOT_CREATED" => orders' = orders
        /\ o.status = "PAPER_ENTRY_NO_FILL" =>
              /\ DOMAIN orders' = DOMAIN orders \cup {n + 1}
              /\ orders'[n + 1] = EntryOrder(s, o)
        /\ o.tradeCreated /\ o.exitTime = NoTime =>
              /\ DOMAIN orders' = DOMAIN orders \cup {n + 1}
              /\ orders'[n + 1] = EntryOrder(s, o)
        /\ o.tradeCreated /\ o.exitTime # NoTime =>
              /\ DOMAIN orders' = DOMAIN orders \cup {n + 1, n + 2}
              /\ orders'[n + 1] = EntryOrder(s, o)
              /\ orders'[n + 2] = ExitOrder(s, o)
    <3>1. OrdersAppended(orders \o OrdersOf(s, o), orders, s, o) BY <2>2, AppendOrders
    <3>2. OrdersAppended(orders', orders, s, o) BY <2>3, <3>1
    <3> QED BY <2>1, <3>2 DEF OrdersAppended
  <2>5. CASE ~o.tradeCreated
    <3>1. UNCHANGED trades
      BY <1>2, <2>1, <2>5 DEF RecordOutcome
    <3>2. ASSUME NEW x \in DOMAIN orders', orders'[x].status # "PAPER_ENTRY_NO_FILL"
          PROVE  x \in DOMAIN orders
      <4>1. o.status \in {"NOT_CREATED", "PAPER_ENTRY_NO_FILL"}
        BY <2>2, <2>5 DEF OutcomeOK, PaperSimulationResult, EntryStatus
      <4>2. o.status = "PAPER_ENTRY_NO_FILL" =>
              EntryOrder(s, o).status = "PAPER_ENTRY_NO_FILL"
        BY DEF EntryOrder
      <4> QED BY <2>4, <3>2, <4>1, <4>2
    <3>3. \A x \in DOMAIN orders' : orders'[x].status # "PAPER_ENTRY_NO_FILL" =>
              \E i \in DOMAIN trades' : Owns(i, x)'
      BY <2>4, <3>1, <3>2 DEF OrdersOwned, Owns
    <3>4. \A i \in DOMAIN trades' :
              /\ trades'[i].entryOrder \in DOMAIN orders'
              /\ trades'[i].exitOrder \in DOMAIN orders' \cup {0}
              /\ trades'[i].exitOrder = 0 <=> trades'[i].reason = "DATA_ENDED"
      BY <2>4, <3>1 DEF OrdersOwned
    <3> QED BY <3>3, <3>4 DEF OrdersOwned
  <2>6. CASE o.tradeCreated
    <3>1. PICK row, m : row = TradeRow(s, o, n) /\ m = Len(trades) + 1
      OBVIOUS
    <3>2. row \in TradeType /\ trades \in Seq(TradeType)
      BY <2>2, <3>1, RowsTyped DEF TypeOK
    <3>3. trades' = Append(trades, row)
      BY <1>2, <2>1, <2>6, <3>1 DEF RecordOutcome
    <3>4. /\ DOMAIN trades' = DOMAIN trades \cup {m}
          /\ \A i \in DOMAIN trades : trades'[i] = trades[i]
          /\ trades'[m] = row
      BY <3>1, <3>2, <3>3, AppendRange
    <3>5. /\ row.signal = s /\ row.entryOrder = n + 1 /\ row.reason = o.reason
          /\ o.exitTime # NoTime => row.exitOrder = n + 2
          /\ o.exitTime = NoTime => row.exitOrder = 0
      BY <3>1 DEF TradeRow
    <3>6. /\ EntryOrder(s, o).signal = s /\ EntryOrder(s, o).side = "BUY"
          /\ ExitOrder(s, o).signal = s /\ ExitOrder(s, o).side = "SELL"
      BY DEF EntryOrder, ExitOrder
    <3>7. ASSUME NEW x \in DOMAIN orders', orders'[x].status # "PAPER_ENTRY_NO_FILL"
          PROVE  \E i \in DOMAIN trades' : Owns(i, x)'
      <4>1. CASE x \in DOMAIN orders
        <5>1. orders'[x] = orders[x] /\ \E i \in DOMAIN trades : Owns(i, x)
          BY <2>4, <3>7, <4>1 DEF OrdersOwned
        <5> QED BY <3>4, <5>1 DEF Owns
      <4>2. CASE x = n + 1
        <5>1. Owns(m, x)'
          BY <2>4, <2>6, <3>4, <3>5, <3>6, <4>2 DEF Owns
        <5> QED BY <3>4, <5>1
      <4>3. CASE x = n + 2 /\ o.exitTime # NoTime
        <5>1. Owns(m, x)'
          BY <2>4, <2>6, <3>4, <3>5, <3>6, <4>3 DEF Owns
        <5> QED BY <3>4, <5>1
      <4> QED BY <2>4, <2>6, <4>1, <4>2, <4>3
    <3>8. ASSUME NEW i \in DOMAIN trades'
          PROVE  /\ trades'[i].entryOrder \in DOMAIN orders'
                 /\ trades'[i].exitOrder \in DOMAIN orders' \cup {0}
                 /\ trades'[i].exitOrder = 0 <=> trades'[i].reason = "DATA_ENDED"
      <4>1. CASE i \in DOMAIN trades
        BY <2>4, <3>4, <4>1 DEF OrdersOwned
      <4>2. CASE i = m
        <5>1. o.exitTime = NoTime <=> o.reason = "DATA_ENDED"
          BY <2>2, <2>6 DEF OutcomeOK
        <5> QED BY <2>2, <2>4, <2>6, <3>4, <3>5, <4>2, <5>1
      <4> QED BY <3>4, <4>1, <4>2
    <3> QED BY <3>7, <3>8 DEF OrdersOwned
  <2> QED BY <2>5, <2>6
<1> QED BY <1>1, <1>2, TablesStep

\* With one trade per signal, the trade of a filled order is the only one.
LEMMA OwnedOnce ==
    OrdersOwned /\ OneTradePerSignal => FilledOrdersBelongToTrades
<1> SUFFICES ASSUME OrdersOwned, OneTradePerSignal
             PROVE  FilledOrdersBelongToTrades
  OBVIOUS
<1>1. ASSUME NEW n \in DOMAIN orders, orders[n].status # "PAPER_ENTRY_NO_FILL"
      PROVE  Cardinality({i \in DOMAIN trades :
                 /\ trades[i].signal = orders[n].signal
                 /\ n = IF orders[n].side = "BUY" THEN trades[i].entryOrder
                                                  ELSE trades[i].exitOrder}) = 1
  <2> DEFINE owners == {i \in DOMAIN trades :
                 /\ trades[i].signal = orders[n].signal
                 /\ n = IF orders[n].side = "BUY" THEN trades[i].entryOrder
                                                  ELSE trades[i].exitOrder}
  <2>1. PICK i \in DOMAIN trades : Owns(i, n)
    BY <1>1 DEF OrdersOwned
  <2>2. owners = {i}
    BY <2>1 DEF Owns, OneTradePerSignal
  <2> HIDE DEF owners
  <2>3. Cardinality(owners) = 1
    BY <2>2, FS_Singleton
  <2> QED BY <2>3 DEF owners
<1> QED BY <1>1 DEF OrdersOwned, FilledOrdersBelongToTrades

\* Whatever requests conflict, crash or run again, the journal's trade entries
\* and the trades correspond one to one, and a filled order is that of exactly
\* one trade: record_paper_outcome leaves no table ahead of another.
THEOREM TablesCorrect == Spec => []TablesAgree
<1>1. Init => OutcomesOK /\ JournalMatchesTrades /\ OrdersOwned
  BY RejectedOK DEF Init, OutcomesOK, JournalMatchesTrades, OrdersOwned
<1>2. JournalMatchesTrades /\ OrdersOwned /\ OneTradePerSignal => TablesAgree
  BY OwnedOnce DEF TablesAgree
<1> QED
  BY <1>1, <1>2, OutcomesStep, JournalMatchesStep, OrdersOwnedStep,
     TypeCorrect, OneTradeCorrect, PTL DEF Spec

-----------------------------------------------------------------------------
(* Sums over finite sets, as MapThenSumSet computes them. *)

\* Induction over the naturals, from their well-foundedness.
LEMMA SetInduction ==
    ASSUME NEW N, 0 \in N, \A n \in Nat : n \in N => n + 1 \in N
    PROVE  Nat \subseteq N
<1> SUFFICES ASSUME Nat \ N # {} PROVE FALSE OBVIOUS
<1>1. PICK m \in Nat \ N : \A y \in Nat \ N : m <= y BY LeastNat
<1>2. m # 0 /\ m - 1 \in Nat BY <1>1
<1>3. m - 1 \in N BY <1>1, <1>2
<1>4. (m - 1) + 1 = m BY <1>1
<1> QED BY <1>1, <1>2, <1>3, <1>4

\* The element that a fold takes first.
Any(s) == CHOOSE x \in s : TRUE

\* g gives each subset of S the sum of what F says of its elements, as the
\* recursion of MapThenFoldSet does.
SumEquations(g, S, F) ==
    /\ g[{}] = 0
    /\ \A s \in SUBSET S : s # {} => g[s] = F[Any(s)] + g[s \ {Any(s)}]

SumsOver(g, S, F) == g \in [SUBSET S -> Int] /\ SumEquations(g, S, F)

LEMMA AnyOf ==
    ASSUME NEW s, s # {}
    PROVE  Any(s) \in s
  BY DEF Any

LEMMA Smaller ==
    ASSUME NEW S, IsFiniteSet(S), NEW s \in SUBSET S, NEW x \in s
    PROVE  /\ s \ {x} \in SUBSET S /\ Cardinality(s) \in Nat /\ Cardinality(s) # 0
           /\ Cardinality(s \ {x}) = Cardinality(s) - 1
<1>1. IsFiniteSet(s) BY FS_Subset
<1>2. Cardinality(s) \in Nat /\ (Cardinality(s) = 0 <=> s = {})
  BY <1>1, FS_CardinalityType, FS_EmptySet
<1>3. Cardinality(s \ {x}) = Cardinality(s) - 1 BY <1>1, FS_RemoveElement
<1> QED BY <1>2, <1>3

\* The recursion defines a function: by induction on the size of the subsets
\* for which it holds.
LEMMA SumsExist ==
    ASSUME NEW S, IsFiniteSet(S), NEW F \in [S -> Int]
    PROVE  \E g : SumsOver(g, S, F)
<1> DEFINE Upto(g, n) == /\ g[{}] = 0
                         /\ \A s \in SUBSET S : s # {} /\ Cardinality(s) <= n =>
                               g[s] = F[Any(s)] + g[s \ {Any(s)}]
           N == {n \in Nat : \E g \in [SUBSET S -> Int] : Upto(g, n)}
<1>1. \A s \in SUBSET S : s # {} =>
         /\ Any(s) \in s /\ F[Any(s)] \in Int
         /\ s \ {Any(s)} \in SUBSET S /\ Cardinality(s) \in Nat /\ Cardinality(s) # 0
         /\ Cardinality(s \ {Any(s)}) = Cardinality(s) - 1
  <2> SUFFICES ASSUME NEW s \in SUBSET S, s # {}
               PROVE  /\ Any(s) \in s /\ F[Any(s)] \in Int
                      /\ s \ {Any(s)} \in SUBSET S /\ Cardinality(s) \in Nat
                      /\ Cardinality(s) # 0
                      /\ Cardinality(s \ {Any(s)}) = Cardinality(s) - 1
    OBVIOUS
  <2>1. PICK x \in s : x = Any(s) BY AnyOf
  <2>2. /\ s \ {x} \in SUBSET S /\ Cardinality(s) \in Nat /\ Cardinality(s) # 0
        /\ Cardinality(s \ {x}) = Cardinality(s) - 1
    BY Smaller
  <2> QED BY <2>1, <2>2
<1>2. 0 \in N
  <2> DEFINE z == [s \in SUBSET S |-> 0]
  <2>1. z \in [SUBSET S -> Int] /\ z[{}] = 0 OBVIOUS
  <2>2. ASSUME NEW s \in SUBSET S, s # {} PROVE ~(Cardinality(s) <= 0)
    <3>1. Cardinality(s) \in Nat /\ Cardinality(s) # 0 BY <1>1, <2>2
    <3> QED BY <3>1
  <2> HIDE DEF z
  <2>3. Upto(z, 0) BY <2>1, <2>2
  <2> HIDE DEF Upto
  <2> QED BY <2>1, <2>3
<1>3. ASSUME NEW n \in Nat, n \in N PROVE n + 1 \in N
  <2>1. PICK g \in [SUBSET S -> Int] : Upto(g, n) BY <1>3
  <2> DEFINE h == [s \in SUBSET S |-> IF s # {} /\ Cardinality(s) = n + 1
                                      THEN F[Any(s)] + g[s \ {Any(s)}] ELSE g[s]]
  <2>2. h \in [SUBSET S -> Int] BY <1>1
  <2>3. h[{}] = 0 BY <2>1
  <2>4. ASSUME NEW s \in SUBSET S, s # {}, Cardinality(s) <= n + 1
        PROVE  h[s] = F[Any(s)] + h[s \ {Any(s)}]
    <3>1. /\ s \ {Any(s)} \in SUBSET S
          /\ Cardinality(s) \in Nat /\ Cardinality(s \ {Any(s)}) = Cardinality(s) - 1
      BY <1>1, <2>4
    <3>2. Cardinality(s \ {Any(s)}) # n + 1 BY <2>4, <3>1
    <3>3. h[s \ {Any(s)}] = g[s \ {Any(s)}] BY <3>1, <3>2
    <3>4. CASE Cardinality(s) = n + 1
      <4>1. h[s] = F[Any(s)] + g[s \ {Any(s)}] BY <2>4, <3>4
      <4> QED BY <3>3, <4>1
    <3>5. CASE Cardinality(s) # n + 1
      <4>1. h[s] = g[s] /\ Cardinality(s) <= n BY <2>4, <3>1, <3>5
      <4>2. g[s] = F[Any(s)] + g[s \ {Any(s)}] BY <2>1, <2>4, <4>1
      <4> QED BY <3>3, <4>1, <4>2
    <3> QED BY <3>4, <3>5
  <2> HIDE DEF h
  <2>5. Upto(h, n + 1) BY <2>3, <2>4
  <2> HIDE DEF Upto
  <2> QED BY <2>2, <2>5
<1>4. Nat \subseteq N
  <2> HIDE DEF N
  <2> QED BY <1>2, <1>3, SetInduction
<1>5. Cardinality(S) \in Nat BY FS_CardinalityType
<1>6. PICK g \in [SUBSET S -> Int] : Upto(g, Cardinality(S)) BY <1>4, <1>5
<1>7. \A s \in SUBSET S : Cardinality(s) <= Cardinality(S) BY FS_Subset
<1> QED BY <1>6, <1>7 DEF SumsOver, SumEquations

\* The recursion has no other solution.
LEMMA SumsUnique ==
    ASSUME NEW S, IsFiniteSet(S), NEW F \in [S -> Int], NEW g, SumsOver(g, S, F), NEW h,
           SumEquations(h, S, F)
    PROVE  h[S] = g[S]
<1> DEFINE N == {n \in Nat : \A s \in SUBSET S : Cardinality(s) <= n => h[s] = g[s]}
<1>0. \A s \in SUBSET S : IsFiniteSet(s) /\ Cardinality(s) \in Nat
  BY FS_Subset, FS_CardinalityType
<1>1. 0 \in N
  <2> SUFFICES ASSUME NEW s \in SUBSET S, Cardinality(s) <= 0 PROVE h[s] = g[s] OBVIOUS
  <2>1. s = {} BY <1>0, FS_EmptySet
  <2> QED BY <2>1 DEF SumsOver, SumEquations
<1>2. ASSUME NEW n \in Nat, n \in N PROVE n + 1 \in N
  <2> SUFFICES ASSUME NEW s \in SUBSET S, Cardinality(s) <= n + 1 PROVE h[s] = g[s]
    OBVIOUS
  <2>1. CASE s = {} BY <2>1 DEF SumsOver, SumEquations
  <2>2. CASE s # {}
    <3>1. PICK x \in s : x = Any(s) BY <2>2, AnyOf
    <3>2. /\ s \ {x} \in SUBSET S /\ Cardinality(s) \in Nat
          /\ Cardinality(s \ {x}) = Cardinality(s) - 1
      BY Smaller
    <3>3. Cardinality(s \ {x}) <= n BY <3>2
    <3>4. h[s \ {x}] = g[s \ {x}] BY <1>2, <3>2, <3>3
    <3>5. h[s] = F[x] + h[s \ {x}] BY <2>2, <3>1 DEF SumEquations
    <3>6. g[s] = F[x] + g[s \ {x}] BY <2>2, <3>1 DEF SumsOver, SumEquations
    <3> QED BY <3>4, <3>5, <3>6
  <2> QED BY <2>1, <2>2
<1>3. Nat \subseteq N
  <2> HIDE DEF N
  <2> QED BY <1>1, <1>2, SetInduction
<1>4. S \in SUBSET S /\ Cardinality(S) \in Nat BY <1>0
<1> QED BY <1>3, <1>4

\* Any element may be taken first.
TakesAny(g, S, F) == \A s \in SUBSET S : \A x \in s : g[s] = F[x] + g[s \ {x}]

LEMMA SumTakes ==
    ASSUME NEW S, IsFiniteSet(S), NEW F \in [S -> Int], NEW g, SumsOver(g, S, F)
    PROVE  TakesAny(g, S, F)
<1> DEFINE N == {n \in Nat : \A s \in SUBSET S : Cardinality(s) <= n =>
                                \A x \in s : g[s] = F[x] + g[s \ {x}]}
<1>1. 0 \in N
  <2> SUFFICES ASSUME NEW s \in SUBSET S, Cardinality(s) <= 0, NEW x \in s PROVE FALSE
    OBVIOUS
  <2>1. Cardinality(s) \in Nat /\ Cardinality(s) # 0 BY Smaller
  <2> QED BY <2>1
<1>2. ASSUME NEW n \in Nat, n \in N PROVE n + 1 \in N
  <2> SUFFICES ASSUME NEW s \in SUBSET S, Cardinality(s) <= n + 1, NEW x \in s
               PROVE  g[s] = F[x] + g[s \ {x}]
    OBVIOUS
  <2> DEFINE y == Any(s)
  <2>1. y \in s /\ g[s] = F[y] + g[s \ {y}] BY AnyOf DEF SumsOver, SumEquations
  <2> HIDE DEF y
  <2>2. CASE x = y BY <2>1, <2>2
  <2>3. CASE x # y
    <3>1. /\ s \ {x} \in SUBSET S /\ s \ {y} \in SUBSET S /\ Cardinality(s) \in Nat
          /\ Cardinality(s \ {x}) = Cardinality(s) - 1
          /\ Cardinality(s \ {y}) = Cardinality(s) - 1
      BY <2>1, Smaller
    <3>2. Cardinality(s \ {x}) <= n /\ Cardinality(s \ {y}) <= n BY <3>1
    <3>3. x \in s \ {y} /\ y \in s \ {x} BY <2>1, <2>3
    <3>4. g[s \ {y}] = F[x] + g[(s \ {y}) \ {x}] BY <1>2, <3>1, <3>2, <3>3
    <3>5. g[s \ {x}] = F[y] + g[(s \ {x}) \ {y}] BY <1>2, <3>1, <3>2, <3>3
    <3>6. (s \ {y}) \ {x} = (s \ {x}) \ {y} OBVIOUS
    <3>7. PICK r : r = g[(s \ {x}) \ {y}] OBVIOUS
    <3>8. r \in Int /\ F[x] \in Int /\ F[y] \in Int
      <4>1. (s \ {x}) \ {y} \in SUBSET S OBVIOUS
      <4> QED BY <2>1, <3>7, <4>1 DEF SumsOver, SumEquations
    <3>9. g[s \ {y}] = F[x] + r /\ g[s \ {x}] = F[y] + r
      BY <3>4, <3>5, <3>6, <3>7
    <3> QED BY <2>1, <3>8, <3>9
  <2> QED BY <2>2, <2>3
<1>3. Nat \subseteq N
  <2> HIDE DEF N
  <2> QED BY <1>1, <1>2, SetInduction
<1> SUFFICES ASSUME NEW s \in SUBSET S PROVE \A x \in s : g[s] = F[x] + g[s \ {x}]
  BY DEF TakesAny
<1>4. Cardinality(s) \in Nat BY FS_Subset, FS_CardinalityType
<1> QED BY <1>3, <1>4

\* Elements of which F says zero add nothing.
LEMMA SumSkipsZeros ==
    ASSUME NEW S, IsFiniteSet(S), NEW F \in [S -> Int], NEW g, SumsOver(g, S, F),
           NEW U \in SUBSET S, \A x \in S \ U : F[x] = 0
    PROVE  g[S] = g[U]
<1>1. TakesAny(g, S, F) BY SumTakes
<1> DEFINE N == {n \in Nat : \A V \in SUBSET S : U \subseteq V /\ Cardinality(V) <= n =>
                                g[V] = g[U]}
<1>2. \A V \in SUBSET S : IsFiniteSet(V) /\ Cardinality(V) \in Nat
  BY FS_Subset, FS_CardinalityType
<1>3. 0 \in N
  <2> SUFFICES ASSUME NEW V \in SUBSET S, U \subseteq V, Cardinality(V) <= 0 PROVE g[V] = g[U]
    OBVIOUS
  <2>1. V = {} BY <1>2, FS_EmptySet
  <2> QED BY <2>1
<1>4. ASSUME NEW n \in Nat, n \in N PROVE n + 1 \in N
  <2> SUFFICES ASSUME NEW V \in SUBSET S, U \subseteq V, Cardinality(V) <= n + 1
               PROVE  g[V] = g[U]
    OBVIOUS
  <2>1. CASE V = U BY <2>1
  <2>2. CASE V # U
    <3>1. PICK x \in V : x \notin U BY <2>2
    <3>2. /\ V \ {x} \in SUBSET S /\ Cardinality(V) \in Nat
          /\ Cardinality(V \ {x}) = Cardinality(V) - 1
      BY Smaller
    <3>3. U \subseteq V \ {x} /\ Cardinality(V \ {x}) <= n BY <3>1, <3>2
    <3>4. g[V \ {x}] = g[U] BY <1>4, <3>2, <3>3
    <3>5. g[V] = F[x] + g[V \ {x}] BY <1>1 DEF TakesAny
    <3>6. F[x] = 0 /\ g[V \ {x}] \in Int BY <3>1, <3>2 DEF SumsOver, SumEquations
    <3> QED BY <3>4, <3>5, <3>6
  <2> QED BY <2>1, <2>2
<1>5. Nat \subseteq N
  <2> HIDE DEF N
  <2> QED BY <1>3, <1>4, SetInduction
<1>6. S \in SUBSET S /\ Cardinality(S) \in Nat BY <1>2
<1> QED BY <1>5, <1>6

\* A one-to-one image has the same sum.
OneToOne(b, A, S) == b \in [A -> S] /\ \A x, y \in A : b[x] = b[y] => x = y

LEMMA SumOfImage ==
    ASSUME NEW S, IsFiniteSet(S), NEW F \in [S -> Int], NEW g, SumsOver(g, S, F),
           NEW T, IsFiniteSet(T), NEW E \in [T -> Int], NEW h, SumsOver(h, T, E),
           NEW A \in SUBSET T, NEW b, OneToOne(b, A, S), \A x \in A : E[x] = F[b[x]]
    PROVE  h[A] = g[{b[x] : x \in A}]
<1>1. b \in [A -> S] /\ \A x, y \in A : b[x] = b[y] => x = y BY DEF OneToOne
<1>2. TakesAny(g, S, F) /\ TakesAny(h, T, E) BY SumTakes
<1> DEFINE Im(s) == {b[x] : x \in s}
           Agree(s) == h[s] = g[Im(s)]
           N == {n \in Nat : \A s \in SUBSET A : Cardinality(s) <= n => Agree(s)}
<1> HIDE DEF Agree
<1>3. \A s \in SUBSET A : s \in SUBSET T /\ IsFiniteSet(s) /\ Cardinality(s) \in Nat
  BY FS_Subset, FS_CardinalityType
<1>4. 0 \in N
  <2> SUFFICES ASSUME NEW s \in SUBSET A, Cardinality(s) <= 0 PROVE Agree(s)
    OBVIOUS
  <2>1. s = {} BY <1>3, FS_EmptySet
  <2>2. Im(s) = {} BY <2>1
  <2> QED BY <2>1, <2>2 DEF Agree, SumsOver, SumEquations
<1>5. ASSUME NEW n \in Nat, n \in N PROVE n + 1 \in N
  <2> SUFFICES ASSUME NEW s \in SUBSET A, Cardinality(s) <= n + 1 PROVE Agree(s)
    OBVIOUS
  <2>1. CASE s = {}
    <3>1. Im(s) = {} BY <2>1
    <3> QED BY <2>1, <3>1 DEF Agree, SumsOver, SumEquations
  <2>2. CASE s # {}
    <3>1. PICK x \in s : TRUE BY <2>2
    <3>2. /\ s \ {x} \in SUBSET A /\ Cardinality(s) \in Nat
          /\ Cardinality(s \ {x}) = Cardinality(s) - 1
      BY <1>3, Smaller
    <3>3. Cardinality(s \ {x}) <= n BY <3>2
    <3>4. h[s \ {x}] = g[Im(s \ {x})] BY <1>5, <3>2, <3>3 DEF Agree
    <3>5. Im(s \ {x}) = Im(s) \ {b[x]} BY <1>1, <3>1
    <3>6. Im(s) \in SUBSET S /\ b[x] \in Im(s) BY <1>1, <3>1
    <3> HIDE DEF Im
    <3>7. g[Im(s)] = F[b[x]] + g[Im(s) \ {b[x]}] BY <1>2, <3>6 DEF TakesAny
    <3>8. h[s] = E[x] + h[s \ {x}] BY <1>3, <1>2, <3>1 DEF TakesAny
    <3> QED BY <3>1, <3>4, <3>5, <3>7, <3>8 DEF Agree
  <2> QED BY <2>1, <2>2
<1>6. Nat \subseteq N
  <2> HIDE DEF N
  <2> QED BY <1>4, <1>5, SetInduction
<1>7. A \in SUBSET A /\ Cardinality(A) \in Nat BY <1>3
<1>8. Agree(A) BY <1>6, <1>7
<1> QED BY <1>8 DEF Agree

-----------------------------------------------------------------------------
(* The report over the journal. *)

\* Every journal entry has a consistent outcome and the type that belongs to it.
JournalRowsOK ==
    \A j \in DOMAIN journal : /\ OutcomeOK(journal[j].outcome)
                              /\ journal[j].type = EntryType(journal[j].outcome)

LEMMA JournalRowsStep ==
    TypeOK /\ OutcomesOK /\ JournalRowsOK /\ [Next]_vars => JournalRowsOK'
<1> SUFFICES ASSUME TypeOK, OutcomesOK, JournalRowsOK, [Next]_vars PROVE JournalRowsOK'
  OBVIOUS
<1>1. CASE UNCHANGED tables
  BY <1>1 DEF JournalRowsOK, tables
<1>2. ASSUME NEW w \in Workers, RecordOutcome(w) PROVE JournalRowsOK'
  <2>1. PICK s, o, n, k : /\ s = current[w] /\ o = outcome[w]
                          /\ n = Len(trades) + 1 /\ k = Len(journal) + 1
    OBVIOUS
  <2>2. s \in Candidates /\ o \in PaperSimulationResult /\ n \in Nat
    BY <1>2, <2>1 DEF RecordOutcome, TypeOK
  <2>3. journal \in Seq(JournalType) /\ JournalRow(s, o, n) \in JournalType
    BY <2>2, RowsTyped DEF TypeOK
  <2>4. journal' = Append(journal, JournalRow(s, o, n))
    BY <1>2, <2>1 DEF RecordOutcome, RecordedJournal
  <2>5. /\ DOMAIN journal' = DOMAIN journal \cup {k}
        /\ \A j \in DOMAIN journal : journal'[j] = journal[j]
        /\ journal'[k] = JournalRow(s, o, n)
    BY <2>1, <2>3, <2>4, AppendRange
  <2>6. journal'[k].outcome = o /\ journal'[k].type = EntryType(o)
    BY <2>5 DEF JournalRow
  <2>7. OutcomeOK(o) BY <2>1 DEF OutcomesOK
  <2> QED BY <2>5, <2>6, <2>7 DEF JournalRowsOK
<1> QED BY <1>1, <1>2, TablesStep

\* Whoever reports a trade as created has stored it.
ResultsTraded ==
    \A w \in Workers : \A i \in DOMAIN results[w] :
        results[w][i].outcome.tradeCreated => PaperTradeExists(results[w][i].signal)

LEMMA ResultsStep ==
    ASSUME [Next]_vars
    PROVE  \/ UNCHANGED <<results, trades>>
           \/ \E w \in Workers : /\ results' = [results EXCEPT ![w] = <<>>]
                                 /\ UNCHANGED trades
           \/ \E w \in Workers : RecordOutcome(w)
  BY DEF Next, Step, vars, tables, StoreCandle, InsertSignal, Refuse, Start,
         DupCheck, CapCheck, SimulateSignal, RecordConflict, RecordOutcome,
         Finish, Crash

LEMMA SummariesStep ==
    TypeOK /\ ResultsTraded /\ SummariesCountTradesOnce /\ [Next]_vars
        => ResultsTraded' /\ SummariesCountTradesOnce'
<1> SUFFICES ASSUME TypeOK, ResultsTraded, SummariesCountTradesOnce, [Next]_vars
             PROVE  ResultsTraded' /\ SummariesCountTradesOnce'
  OBVIOUS
<1>1. CASE UNCHANGED <<results, trades>>
  BY <1>1 DEF ResultsTraded, SummariesCountTradesOnce, PaperTradeExists
<1>2. ASSUME NEW w \in Workers, results' = [results EXCEPT ![w] = <<>>], UNCHANGED trades
      PROVE  ResultsTraded' /\ SummariesCountTradesOnce'
  <2>1. \A x \in Workers : \A i \in DOMAIN results'[x] :
           i \in DOMAIN results[x] /\ results'[x][i] = results[x][i]
    BY <1>2 DEF TypeOK
  <2>2. ResultsTraded' BY <1>2, <2>1 DEF ResultsTraded, PaperTradeExists
  <2>3. SummariesCountTradesOnce' BY <2>1 DEF SummariesCountTradesOnce
  <2> QED BY <2>2, <2>3
<1>3. ASSUME NEW w \in Workers, RecordOutcome(w)
      PROVE  ResultsTraded' /\ SummariesCountTradesOnce'
  <2>1. PICK s, o, row, k : /\ s = current[w] /\ o = outcome[w]
                            /\ row = [signal |-> s, outcome |-> o]
                            /\ k = Len(results[w]) + 1
    OBVIOUS
  <2>2. s \in Candidates /\ o \in PaperSimulationResult
    BY <1>3, <2>1 DEF RecordOutcome, TypeOK
  <2>3. results[w] \in Seq(ResultType) /\ row \in ResultType
    BY <2>1, <2>2 DEF TypeOK, ResultType
  <2>4. results' = [results EXCEPT ![w] = Append(results[w], row)]
    BY <1>3, <2>1 DEF RecordOutcome
  <2>5. /\ DOMAIN Append(results[w], row) = DOMAIN results[w] \cup {k}
        /\ \A i \in DOMAIN results[w] : Append(results[w], row)[i] = results[w][i]
        /\ Append(results[w], row)[k] = row
    BY <2>1, <2>3, AppendRange
  <2>6. /\ results'[w] = Append(results[w], row)
        /\ \A x \in Workers : x # w => results'[x] = results[x]
    BY <2>4 DEF TypeOK
  <2>7. \A x \in Workers : \A i \in DOMAIN results'[x] :
           \/ i \in DOMAIN results[x] /\ results'[x][i] = results[x][i]
           \/ x = w /\ i = k /\ results'[x][i] = row
    BY <2>5, <2>6
  <2>8. row.signal = s /\ row.outcome = o BY <2>1
  <2>9. \A c : PaperTradeExists(c) => PaperTradeExists(c)'
    <3>1. CASE ~o.tradeCreated
      <4>1. UNCHANGED trades BY <1>3, <2>1, <3>1 DEF RecordOutcome
      <4> QED BY <4>1 DEF PaperTradeExists
    <3>2. CASE o.tradeCreated
      <4>1. PICK t \in TradeType : trades' = Append(trades, t)
        <5>1. Len(orders) \in Nat BY DEF TypeOK
        <5>2. TradeRow(s, o, Len(orders)) \in TradeType BY <2>2, <5>1, RowsTyped
        <5> QED BY <1>3, <2>1, <3>2, <5>2 DEF RecordOutcome
      <4>2. /\ DOMAIN trades' = DOMAIN trades \cup {Len(trades) + 1}
            /\ \A i \in DOMAIN trades : trades'[i] = trades[i]
        <5>1. trades \in Seq(TradeType) BY DEF TypeOK
        <5> QED BY <4>1, <5>1, AppendRange
      <4> QED BY <4>2 DEF PaperTradeExists
    <3> QED BY <3>1, <3>2
  <2>10. o.tradeCreated => PaperTradeExists(s)' /\ ~PaperTradeExists(s)
    <3> SUFFICES ASSUME o.tradeCreated PROVE PaperTradeExists(s)' /\ ~PaperTradeExists(s)
      OBVIOUS
    <3>1. ~PaperTradeExists(s) BY <1>3, <2>1 DEF RecordOutcome, ViolatesUniqueIndex
    <3>2. PICK t : t = TradeRow(s, o, Len(orders)) OBVIOUS
    <3>3. t \in TradeType /\ trades \in Seq(TradeType) /\ t.signal = s
      <4>1. Len(orders) \in Nat BY DEF TypeOK
      <4>2. t \in TradeType BY <2>2, <3>2, <4>1, RowsTyped
      <4>3. t.signal = s BY <3>2 DEF TradeRow
      <4> QED BY <4>2, <4>3 DEF TypeOK
    <3>4. trades' = Append(trades, t) BY <1>3, <2>1, <3>2 DEF RecordOutcome
    <3>5. Len(trades) + 1 \in DOMAIN trades' /\ trades'[Len(trades) + 1] = t
      BY <3>3, <3>4, AppendRange
    <3> QED BY <3>1, <3>3, <3>5 DEF PaperTradeExists
  <2>11. ResultsTraded'
    <3> SUFFICES ASSUME NEW x \in Workers, NEW i \in DOMAIN results'[x],
                        results'[x][i].outcome.tradeCreated
                 PROVE  PaperTradeExists(results[x][i].signal)'
      BY DEF ResultsTraded
    <3>1. PICK c : c = results'[x][i].signal OBVIOUS
    <3>2. PaperTradeExists(c)'
      <4>1. CASE i \in DOMAIN results[x] /\ results'[x][i] = results[x][i]
        BY <2>9, <3>1, <4>1 DEF ResultsTraded
      <4>2. CASE results'[x][i] = row
        BY <2>8, <2>10, <3>1, <4>2
      <4> QED BY <2>7, <4>1, <4>2
    <3> QED BY <3>1, <3>2 DEF PaperTradeExists
  <2>12. SummariesCountTradesOnce'
    <3> SUFFICES ASSUME NEW x \in Workers, NEW y \in Workers,
                        NEW i \in DOMAIN results'[x], NEW j \in DOMAIN results'[y],
                        results'[x][i].outcome.tradeCreated,
                        results'[y][j].outcome.tradeCreated,
                        results'[x][i].signal = results'[y][j].signal
                 PROVE  x = y /\ i = j
      BY DEF SummariesCountTradesOnce
    <3>1. CASE /\ i \in DOMAIN results[x] /\ results'[x][i] = results[x][i]
               /\ j \in DOMAIN results[y] /\ results'[y][j] = results[y][j]
      BY <3>1 DEF SummariesCountTradesOnce
    <3>2. CASE x = w /\ i = k /\ y = w /\ j = k BY <3>2
    <3>3. CASE /\ i \in DOMAIN results[x] /\ results'[x][i] = results[x][i]
               /\ results'[y][j] = row
      BY <2>8, <2>10, <3>3 DEF ResultsTraded
    <3>4. CASE /\ j \in DOMAIN results[y] /\ results'[y][j] = results[y][j]
               /\ results'[x][i] = row
      BY <2>8, <2>10, <3>4 DEF ResultsTraded
    <3> QED BY <2>7, <3>1, <3>2, <3>3, <3>4
  <2> QED BY <2>11, <2>12
<1> QED BY <1>1, <1>2, <1>3, ResultsStep

\* The two sums of money that reconcile, as the folds compute them.
LEMMA JournalNet ==
    ASSUME NEW S, IsFiniteSet(S), NEW F \in [S -> Int],
           \A j \in S : F[j] = journal[j].outcome.net, NEW g, SumsOver(g, S, F)
    PROVE  LET net(j) == journal[j].outcome.net IN MapThenSumSet(net, S) = g[S]
<1> DEFINE net(j) == journal[j].outcome.net
           Recursion(f) == [s \in SUBSET S |-> IF s = {} THEN 0
                              ELSE journal[Any(s)].outcome.net + f[s \ {Any(s)}]]
           h == CHOOSE f : f = Recursion(f)
<1>1. MapThenSumSet(net, S) = h[S] BY DEF MapThenSumSet, MapThenFoldSet, Any
<1>2. \A s \in SUBSET S : s # {} => F[Any(s)] = journal[Any(s)].outcome.net
  BY AnyOf
<1>3. g = Recursion(g)
  <2>1. \A s \in SUBSET S : g[s] = IF s = {} THEN 0
                              ELSE journal[Any(s)].outcome.net + g[s \ {Any(s)}]
    BY <1>2 DEF SumsOver, SumEquations
  <2>2. g = [s \in SUBSET S |-> g[s]] BY DEF SumsOver, SumEquations
  <2> QED BY <2>1, <2>2
<1>4. h = Recursion(h)
  <2> HIDE DEF Recursion
  <2> QED BY <1>3
<1> HIDE DEF h
<1>5. /\ h[{}] = 0
      /\ \A s \in SUBSET S : s # {} => h[s] = journal[Any(s)].outcome.net + h[s \ {Any(s)}]
  BY <1>4
<1>6. SumEquations(h, S, F) BY <1>2, <1>5 DEF SumEquations
<1>7. h[S] = g[S] BY <1>6, SumsUnique
<1> QED BY <1>1, <1>7

LEMMA TradesNet ==
    ASSUME NEW S, IsFiniteSet(S), NEW F \in [S -> Int],
           \A i \in S : F[i] = trades[i].net, NEW g, SumsOver(g, S, F)
    PROVE  LET net(i) == trades[i].net IN MapThenSumSet(net, S) = g[S]
<1> DEFINE net(i) == trades[i].net
           Recursion(f) == [s \in SUBSET S |-> IF s = {} THEN 0
                              ELSE trades[Any(s)].net + f[s \ {Any(s)}]]
           h == CHOOSE f : f = Recursion(f)
<1>1. MapThenSumSet(net, S) = h[S] BY DEF MapThenSumSet, MapThenFoldSet, Any
<1>2. \A s \in SUBSET S : s # {} => F[Any(s)] = trades[Any(s)].net
  BY AnyOf
<1>3. g = Recursion(g)
  <2>1. \A s \in SUBSET S : g[s] = IF s = {} THEN 0
                              ELSE trades[Any(s)].net + g[s \ {Any(s)}]
    BY <1>2 DEF SumsOver, SumEquations
  <2>2. g = [s \in SUBSET S |-> g[s]] BY DEF SumsOver, SumEquations
  <2> QED BY <2>1, <2>2
<1>4. h = Recursion(h)
  <2> HIDE DEF Recursion
  <2> QED BY <1>3
<1> HIDE DEF h
<1>5. /\ h[{}] = 0
      /\ \A s \in SUBSET S : s # {} => h[s] = trades[Any(s)].net + h[s \ {Any(s)}]
  BY <1>4
<1>6. SumEquations(h, S, F) BY <1>2, <1>5 DEF SumEquations
<1>7. h[S] = g[S] BY <1>6, SumsUnique
<1> QED BY <1>1, <1>7

\* The report's entries, trade by trade.
LEMMA ReportOfRows ==
    TypeOK /\ JournalRowsOK /\ JournalMatchesTrades /\ SummariesCountTradesOnce
        => ReportReconciles
<1> SUFFICES ASSUME TypeOK, JournalRowsOK, JournalMatchesTrades, SummariesCountTradesOnce
             PROVE  ReportReconciles
  OBVIOUS
<1> DEFINE rows == DOMAIN journal
           ids == DOMAIN trades
           entries == {j \in rows : journal[j].type = "PAPER_TRADE"}
           filled == {j \in rows : journal[j].outcome.status = "PAPER_ENTRY_FILLED"}
           noFills == {j \in rows : journal[j].outcome.status = "PAPER_ENTRY_NO_FILL"}
           rejections == {j \in rows : journal[j].outcome.rejected}
           journalNet(j) == journal[j].outcome.net
           tradesNet(i) == trades[i].net
           report == BuildPaperReport(rows)
<1>1. ListJournalOutcomes(Len(journal)) = rows
  <2>1. journal \in Seq(JournalType) BY DEF TypeOK
  <2>2. Len(journal) \in Nat /\ rows = 1 .. Len(journal) BY <2>1
  <2> QED BY <2>2 DEF ListJournalOutcomes
<1>2. /\ report.outcomes = Cardinality(rows) /\ report.filled = Cardinality(filled)
      /\ report.noFills = Cardinality(noFills)
      /\ report.rejections = Cardinality(rejections)
      /\ report.net = MapThenSumSet(journalNet, rows)
  BY DEF BuildPaperReport
<1>3. /\ IsFiniteSet(rows) /\ IsFiniteSet(ids) /\ Cardinality(ids) = Len(trades)
  <2>1. journal \in Seq(JournalType) /\ trades \in Seq(TradeType) BY DEF TypeOK
  <2>2. /\ Len(journal) \in Nat /\ rows = 1 .. Len(journal)
        /\ Len(trades) \in Nat /\ ids = 1 .. Len(trades)
    BY <2>1
  <2>3. 1 \in Int /\ Len(journal) \in Int /\ Len(trades) \in Int BY <2>2
  <2>4. IsFiniteSet(1 .. Len(journal)) BY <2>3, FS_Interval
  <2>5. /\ IsFiniteSet(1 .. Len(trades))
        /\ Cardinality(1 .. Len(trades)) = IF 1 > Len(trades) THEN 0 ELSE Len(trades) - 1 + 1
    BY <2>3, FS_Interval
  <2>6. Cardinality(1 .. Len(trades)) = Len(trades) BY <2>2, <2>5
  <2> QED BY <2>2, <2>4, <2>5, <2>6
<1>4. \A j \in rows : /\ journal[j].outcome \in PaperSimulationResult
                      /\ OutcomeOK(journal[j].outcome)
                      /\ journal[j].type = EntryType(journal[j].outcome)
                      /\ journal[j].outcome.net \in Int
  <2>1. \A j \in rows : journal[j] \in JournalType BY DEF TypeOK
  <2>2. \A j \in rows : journal[j].outcome \in PaperSimulationResult
    BY <2>1 DEF JournalType
  <2>3. \A j \in rows : journal[j].outcome.net \in Int BY <2>2 DEF PaperSimulationResult
  <2> QED BY <2>2, <2>3 DEF JournalRowsOK
<1>5. \A i \in ids : trades[i].net \in Int
  <2>1. \A i \in ids : trades[i] \in TradeType BY DEF TypeOK
  <2> QED BY <2>1 DEF TradeType
<1>6. filled = entries
  <2> SUFFICES ASSUME NEW j \in rows
               PROVE  journal[j].outcome.status = "PAPER_ENTRY_FILLED"
                        <=> journal[j].type = "PAPER_TRADE"
    OBVIOUS
  <2> QED BY <1>4 DEF OutcomeOK, EntryType
<1> DEFINE b == [j \in entries |-> journal[j].trade]
<1>7. /\ b \in [entries -> ids]
      /\ \A x, y \in entries : b[x] = b[y] => x = y
      /\ {b[x] : x \in entries} = ids
      /\ \A x \in entries : journal[x].outcome.net = trades[b[x]].net
  <2>1. \A j \in entries : /\ journal[j].trade \in ids
                            /\ trades[journal[j].trade].net = journal[j].outcome.net
    BY DEF JournalMatchesTrades
  <2>2. /\ \A i \in ids : \E j \in entries : journal[j].trade = i
        /\ \A j, k \in entries : journal[j].trade = journal[k].trade => j = k
    BY DEF JournalMatchesTrades
  <2> HIDE DEF entries, ids
  <2>3. \A j \in entries : b[j] = journal[j].trade OBVIOUS
  <2>4. b \in [entries -> ids] BY <2>1
  <2> HIDE DEF b
  <2>5. {b[x] : x \in entries} = ids BY <2>1, <2>2, <2>3
  <2> QED BY <2>1, <2>2, <2>3, <2>4, <2>5
<1>8. Cardinality(filled) = Len(trades)
  <2>1. IsFiniteSet(entries)
    <3>1. entries \in SUBSET rows OBVIOUS
    <3> HIDE DEF entries
    <3> QED BY <1>3, <3>1, FS_Subset
  <2> HIDE DEF b, entries, ids
  <2>2. b \in Bijection(entries, ids)
    <3>1. \A i \in ids : \E x \in entries : b[x] = i BY <1>7
    <3> QED BY <1>7, <3>1 DEF Bijection, Injection, Surjection, IsInjective
  <2>3. ExistsBijection(entries, ids) BY <2>2 DEF ExistsBijection
  <2>4. Cardinality(ids) = Cardinality(entries) BY <2>1, <2>3, FS_Bijection
  <2> QED BY <1>3, <1>6, <2>4
<1>9. report.net = MapThenSumSet(tradesNet, ids)
  <2> DEFINE E == [j \in rows |-> journal[j].outcome.net]
             F == [i \in ids |-> trades[i].net]
  <2>1. E \in [rows -> Int] /\ F \in [ids -> Int] BY <1>4, <1>5
  <2>2. PICK h : SumsOver(h, rows, E)
    <3> HIDE DEF E
    <3> QED BY <1>3, <2>1, SumsExist
  <2>3. PICK g : SumsOver(g, ids, F)
    <3> HIDE DEF F
    <3> QED BY <1>3, <2>1, SumsExist
  <2>4. \A j \in rows : E[j] = journal[j].outcome.net OBVIOUS
  <2>5. \A i \in ids : F[i] = trades[i].net OBVIOUS
  <2>6. \A j \in rows \ entries : E[j] = 0 BY <1>4 DEF OutcomeOK, EntryType
  <2>7. \A x \in entries : E[x] = F[b[x]] BY <1>7
  <2>8. entries \in SUBSET rows OBVIOUS
  <2> HIDE DEF E, F, b, entries, rows, ids
  <2>9. MapThenSumSet(journalNet, rows) = h[rows] BY <1>3, <2>1, <2>2, <2>4, JournalNet
  <2>10. MapThenSumSet(tradesNet, ids) = g[ids] BY <1>3, <2>1, <2>3, <2>5, TradesNet
  <2>11. h[rows] = h[entries] BY <1>3, <2>1, <2>2, <2>6, <2>8, SumSkipsZeros
  <2>12. h[entries] = g[{b[x] : x \in entries}]
    <3>1. OneToOne(b, entries, ids) BY <1>7 DEF OneToOne
    <3> QED BY <1>3, <2>1, <2>2, <2>3, <2>7, <2>8, <3>1, SumOfImage
  <2>13. h[rows] = g[ids] BY <1>7, <2>11, <2>12
  <2> QED BY <1>2, <2>9, <2>10, <2>13
<1>10. Cardinality(filled) + Cardinality(noFills) + Cardinality(rejections) = Cardinality(rows)
  <2>1. /\ rows = (filled \cup noFills) \cup rejections
        /\ filled \cap noFills = {} /\ (filled \cup noFills) \cap rejections = {}
    BY <1>4 DEF OutcomeOK, PaperSimulationResult, EntryStatus
  <2>2. filled \in SUBSET rows /\ noFills \in SUBSET rows /\ rejections \in SUBSET rows
    OBVIOUS
  <2> HIDE DEF filled, noFills, rejections, rows
  <2>3. IsFiniteSet(filled) /\ IsFiniteSet(noFills) /\ IsFiniteSet(rejections)
    BY <1>3, <2>2, FS_Subset
  <2>4. /\ Cardinality(filled) \in Nat /\ Cardinality(noFills) \in Nat
        /\ Cardinality(rejections) \in Nat
    BY <2>3, FS_CardinalityType
  <2>5. IsFiniteSet(filled \cup noFills) /\ Cardinality(filled \cup noFills) =
          Cardinality(filled) + Cardinality(noFills) - Cardinality(filled \cap noFills)
    BY <2>3, FS_Union
  <2>6. Cardinality((filled \cup noFills) \cup rejections) =
          Cardinality(filled \cup noFills) + Cardinality(rejections)
            - Cardinality((filled \cup noFills) \cap rejections)
    BY <2>3, <2>5, FS_Union
  <2>7. Cardinality({}) = 0 BY FS_EmptySet
  <2>8. Cardinality(filled \cup noFills) = Cardinality(filled) + Cardinality(noFills) - 0
    BY <2>1, <2>5, <2>7
  <2>9. Cardinality(rows) = Cardinality(filled \cup noFills) + Cardinality(rejections) - 0
    BY <2>1, <2>6, <2>7
  <2> QED BY <2>4, <2>8, <2>9
<1> HIDE DEF rows, ids, filled, noFills, rejections, report
<1>11. /\ report.filled = Len(trades)
       /\ report.filled + report.noFills + report.rejections = report.outcomes
  BY <1>2, <1>8, <1>10
<1> QED BY <1>1, <1>9, <1>11 DEF ReportReconciles, report, ids

\* A report over the whole journal has the number and the net result of the stored trades,
\* and no two replays report the same trade as created, however requests conflict, crash
\* or repeat.
THEOREM ReportCorrect == Spec => []ReportReconciles
<1>1. Init => /\ OutcomesOK /\ JournalMatchesTrades /\ JournalRowsOK
              /\ ResultsTraded /\ SummariesCountTradesOnce
  BY RejectedOK DEF Init, OutcomesOK, JournalMatchesTrades, JournalRowsOK,
                    ResultsTraded, SummariesCountTradesOnce
<1> QED
  BY <1>1, OutcomesStep, JournalMatchesStep, JournalRowsStep, SummariesStep,
     ReportOfRows, TypeCorrect, PTL DEF Spec

-----------------------------------------------------------------------------
(* The simulator. *)

\* The candles table has one row per symbol and minute (uq_candles_identity),
\* and a candle's close is one of its prices.
StoredBars(bars) ==
    /\ bars \subseteq Bar
    /\ \A b, c \in bars : b.t = c.t => b = c
    /\ \A b \in bars : b.low <= b.close /\ b.close <= b.high

\* The trade o was entered on the candle e.
EnteredAt(ins, bars, config, o, e) ==
    /\ e \in EntryCandles(ins, bars, config)
    /\ \A c \in EntryCandles(ins, bars, config) : e.t <= c.t
    /\ o.entryTime = e.t

\* The trade o, entered on e, was left on the candle b: the first one that
\* triggers, or one of a session in which none does.
LeftAt(ins, bars, config, o, e, b) ==
    LET exits == ExitCandles(ins, bars, e.t)
    IN  /\ b \in exits
        /\ \/ \A c \in exits : ExitAt(ins, c, config) = "TIME_EXIT"
           \/ /\ ExitAt(ins, b, config) # "TIME_EXIT"
              /\ \A c \in exits : ExitAt(ins, c, config) # "TIME_EXIT" => b.t <= c.t
        /\ o.exitTime = b.t
        /\ o.reason = ExitAt(ins, b, config)
        /\ o.exitPrice = ExitPrice(ins, b, config)
        /\ o.gross = (o.exitPrice - ins.entry) * ins.quantity

\* The trade o was never left.
LeftOpen(ins, bars, o, e) ==
    /\ ExitCandles(ins, bars, e.t) = {}
    /\ o.exitTime = NoTime /\ o.exitPrice = NoPrice
    /\ o.gross = 0 /\ o.net = 0 /\ o.reason = "DATA_ENDED"

\* What a filled outcome of simulate rests on.
LEMMA SimulateCases ==
    ASSUME NEW ins \in InstructionType, NEW bars, bars \subseteq Bar,
           NEW config \in PaperConfig, NEW o, o = Simulate(ins, bars, config)
    PROVE  \/ o = NoFillOutcome(ins)
           \/ /\ o.status = "PAPER_ENTRY_FILLED"
              /\ o.entry = ins.entry /\ o.stop = ins.stop /\ o.target = ins.target
              /\ o.net = o.gross - o.costs
              /\ \E e : /\ EnteredAt(ins, bars, config, o, e)
                        /\ \/ LeftOpen(ins, bars, o, e)
                           \/ \E b : LeftAt(ins, bars, config, o, e, b)
<1> DEFINE entries == EntryCandles(ins, bars, config)
<1>1. CASE entries = {}
  BY <1>1 DEF Simulate
<1>2. CASE entries # {}
  <2>1. PICK e : e = Earliest(entries)
    OBVIOUS
  <2>2. entries \subseteq Bar
    BY DEF EntryCandles, SameDayFuture
  <2>3. e \in entries /\ \A c \in entries : e.t <= c.t
    BY <1>2, <2>1, <2>2, EarliestExists
  <2>4. PICK exits : exits = ExitCandles(ins, bars, e.t)
    OBVIOUS
  <2>5. /\ exits \subseteq Bar
        /\ \A c \in exits : SessionDate(c.t) = SessionDate(ins.t)
    BY <2>4 DEF ExitCandles, SameDayFuture
  <2>6. CASE exits = {}
    <3>1. o = CompletedTradeOutcome(ins, e.t, NoTime, NoPrice, "DATA_ENDED")
      BY <1>2, <2>1, <2>4, <2>6 DEF Simulate
    <3>2. /\ o.status = "PAPER_ENTRY_FILLED" /\ o.entryTime = e.t
          /\ o.entry = ins.entry /\ o.stop = ins.stop /\ o.target = ins.target
          /\ o.exitTime = NoTime /\ o.exitPrice = NoPrice
          /\ o.reason = "DATA_ENDED"
          /\ o.gross = 0 /\ o.costs = 0 /\ o.net = 0
      BY <3>1 DEF CompletedTradeOutcome
    <3>3. EnteredAt(ins, bars, config, o, e) /\ LeftOpen(ins, bars, o, e)
      BY <2>3, <2>4, <2>6, <3>2 DEF EnteredAt, LeftOpen
    <3> QED BY <3>2, <3>3
  <2>7. CASE exits # {}
    <3>1. PICK b : b = ExitCandle(ins, exits, config)
      OBVIOUS
    <3>2. b \in exits
      BY <2>5, <2>7, <3>1, ExitCandleExists
    <3> DEFINE triggering == {c \in exits : ExitAt(ins, c, config) # "TIME_EXIT"}
    <3>3. \/ \A c \in exits : ExitAt(ins, c, config) = "TIME_EXIT"
          \/ /\ ExitAt(ins, b, config) # "TIME_EXIT"
             /\ \A c \in exits : ExitAt(ins, c, config) # "TIME_EXIT" => b.t <= c.t
      <4>1. CASE triggering = {}
        BY <4>1
      <4>2. CASE triggering # {}
        <5>1. b = Earliest(triggering)
          BY <3>1, <4>2 DEF ExitCandle
        <5>2. b \in triggering /\ \A c \in triggering : b.t <= c.t
          BY <2>5, <4>2, <5>1, EarliestExists
        <5> QED BY <5>2
      <4> QED BY <4>1, <4>2
    <3>4. o = CompletedTradeOutcome(ins, e.t, b.t, ExitPrice(ins, b, config),
                                    ExitAt(ins, b, config))
      BY <1>2, <2>1, <2>4, <2>7, <3>1 DEF Simulate
    <3>5. b.t # NoTime
      BY <2>5, <3>2 DEF Bar, NoTime
    <3>6. /\ o.status = "PAPER_ENTRY_FILLED" /\ o.entryTime = e.t
          /\ o.entry = ins.entry /\ o.stop = ins.stop /\ o.target = ins.target
          /\ o.exitTime = b.t /\ o.exitPrice = ExitPrice(ins, b, config)
          /\ o.reason = ExitAt(ins, b, config)
          /\ o.gross = (o.exitPrice - ins.entry) * ins.quantity
          /\ o.net = o.gross - o.costs
      BY <3>4, <3>5 DEF CompletedTradeOutcome
    <3>7. /\ EnteredAt(ins, bars, config, o, e)
          /\ LeftAt(ins, bars, config, o, e, b)
      BY <2>3, <2>4, <3>2, <3>3, <3>6 DEF EnteredAt, LeftAt
    <3> QED BY <3>6, <3>7
  <2> QED BY <2>6, <2>7
<1> QED BY <1>1, <1>2

\* A replay is rejected, or simulates the instruction of the signal's bar.
LEMMA OutcomeCases ==
    ASSUME NEW signal, signal.t \in Nat, NEW bars, StoredBars(bars),
           NEW config \in PaperConfig, NEW o, o = Outcome(signal, bars, config)
    PROVE  \/ o = RejectedOutcome("INVALID_SIGNAL_CONTEXT")
           \/ \E ins \in InstructionType :
                 /\ ins = Instruction(signal, (CHOOSE b \in bars : b.t = signal.t).close,
                                      config)
                 /\ ins.t = signal.t
                 /\ ValidInstruction(ins)
                 /\ o = Simulate(ins, bars, config)
<1> DEFINE at == {c \in bars : c.t = signal.t /\ signal.contextOk}
           instructions == {Instruction(signal, b.close, config) : b \in at}
           valid == {ins \in instructions : ValidInstruction(ins)}
           outs == {Simulate(ins, bars, config) : ins \in valid}
<1>1. CASE valid = {}
  BY <1>1 DEF Outcome
<1>2. CASE valid # {}
  <2>1. o = CHOOSE x \in outs : TRUE
    BY <1>2 DEF Outcome
  <2>2. o \in outs
    BY <1>2, <2>1
  <2>3. PICK ins \in valid : o = Simulate(ins, bars, config)
    BY <2>2
  <2>4. PICK b \in at : ins = Instruction(signal, b.close, config)
    BY <2>3
  <2>5. b = CHOOSE c \in bars : c.t = signal.t
    BY <2>4 DEF StoredBars
  <2>6. b.close \in Nat
    BY DEF Bar, StoredBars
  <2>7. ins \in InstructionType
    BY <2>4, <2>6, InstructionTyped
  <2>8. ins.t = signal.t
    BY <2>4 DEF Instruction
  <2> QED BY <2>3, <2>4, <2>5, <2>7, <2>8
<1> QED BY <1>1, <1>2

\* Quotients keep the order.
LEMMA DivMonotone ==
    ASSUME NEW a \in Nat, NEW b \in Nat, NEW m \in Nat \ {0}, a <= b
    PROVE  a \div m <= b \div m
<1> DEFINE p == a \div m
           q == b \div m
<1>1. /\ p \in Int /\ q \in Int /\ a % m \in 0 .. m - 1 /\ b % m \in 0 .. m - 1
      /\ a = m * p + (a % m) /\ b = m * q + (b % m)
  OBVIOUS
<1> HIDE DEF p, q
<1>2. CASE p <= q
  BY <1>2 DEF p, q
<1>3. CASE q + 1 <= p
  <2>1. m * (q + 1) <= m * p
    BY <1>1, <1>3
  <2>2. m * (q + 1) = m * q + m
    BY <1>1
  <2> QED BY <1>1, <2>1, <2>2
<1> QED BY <1>1, <1>2, <1>3

\* Minutes of one session are ordered as their times of day are.
LEMMA SameSessionOrder ==
    ASSUME NEW t \in Nat, NEW u \in Nat, SessionDate(t) = SessionDate(u),
           NEW config \in PaperConfig, ~AtOrAfterForceFlat(t, config),
           AtOrAfterForceFlat(u, config)
    PROVE  t < u
<1> DEFINE M == MinutesPerDay
           x == t + IstOffset
           y == u + IstOffset
<1>1. x \in Nat /\ y \in Nat /\ M \in Nat \ {0} /\ config.forceFlat \in Nat
  BY SimulatorAssumption DEF PaperConfig
<1>2. x \div M = y \div M /\ x % M < config.forceFlat /\ y % M >= config.forceFlat
  <2>1. x % M \in Nat
    BY <1>1
  <2> QED BY <1>1, <2>1 DEF SessionDate, IstMinute, AtOrAfterForceFlat
<1>3. x = M * (x \div M) + (x % M) /\ y = M * (y \div M) + (y % M)
  BY <1>1
<1>4. PICK k \in Int, r \in Nat, q \in Nat :
          k = M * (x \div M) /\ r = x % M /\ q = y % M
  BY <1>1
<1>5. r < q
  BY <1>1, <1>2, <1>4
<1>6. y = k + q
  BY <1>2, <1>3, <1>4
<1>7. x = k + r
  BY <1>3, <1>4
<1> QED BY <1>5, <1>6, <1>7, SimulatorAssumption

\* A minute between two of one session belongs to the session.
LEMMA BetweenSession ==
    ASSUME NEW t \in Nat, NEW u \in Nat, NEW v \in Nat, t <= u, u <= v,
           SessionDate(t) = SessionDate(v)
    PROVE  SessionDate(u) = SessionDate(t)
<1> DEFINE M == MinutesPerDay
           x == t + IstOffset
           y == u + IstOffset
           z == v + IstOffset
<1>1. x \in Nat /\ y \in Nat /\ z \in Nat /\ M \in Nat \ {0} /\ x <= y /\ y <= z
  BY SimulatorAssumption
<1>2. x \div M = z \div M
  BY DEF SessionDate, IstMinute
<1> HIDE DEF x, y, z, M
<1>3. x \div M <= y \div M /\ y \div M <= z \div M
  BY <1>1, DivMonotone
<1>4. y \div M = x \div M
  BY <1>1, <1>2, <1>3
<1> QED BY <1>4 DEF SessionDate, IstMinute, x, y, M

\* A stored minute at or after the force-flat time closes a trade by a trigger.
LEMMA ForceFlatDecides ==
    ASSUME NEW ins \in InstructionType, NEW bars, StoredBars(bars),
           NEW config \in PaperConfig, NEW o, NEW e, NEW x \in bars,
           EnteredAt(ins, bars, config, o, e),
           SessionDate(x.t) = SessionDate(ins.t), x.t > ins.t,
           AtOrAfterForceFlat(x.t, config)
    PROVE  /\ ~LeftOpen(ins, bars, o, e)
           /\ \A b : LeftAt(ins, bars, config, o, e, b) =>
                 o.reason \in {"STOP_HIT", "TARGET_HIT", "FORCE_FLAT"}
<1>1. /\ e \in Bar /\ e.t \in Nat /\ x.t \in Nat
      /\ SessionDate(e.t) = SessionDate(ins.t) /\ ~AtOrAfterForceFlat(e.t, config)
  BY DEF EnteredAt, EntryCandles, SameDayFuture, StoredBars, Bar
<1>2. e.t < x.t
  BY <1>1, SameSessionOrder
<1>3. x \in ExitCandles(ins, bars, e.t)
  BY <1>2 DEF ExitCandles, SameDayFuture
<1>4. ExitAt(ins, x, config) # "TIME_EXIT"
  BY DEF ExitAt
<1>5. ASSUME NEW b, LeftAt(ins, bars, config, o, e, b)
      PROVE  o.reason \in {"STOP_HIT", "TARGET_HIT", "FORCE_FLAT"}
  <2>1. o.reason = ExitAt(ins, b, config) /\ ExitAt(ins, b, config) # "TIME_EXIT"
    BY <1>3, <1>4, <1>5 DEF LeftAt
  <2> QED BY <2>1 DEF ExitAt
<1> QED BY <1>3, <1>5 DEF LeftOpen

\* A fill lies inside the session of the signal.
LEMMA FillWithinSession ==
    ASSUME NEW signal, signal.t \in Nat, NEW bars, StoredBars(bars),
           NEW config \in PaperConfig, NEW o, o = Outcome(signal, bars, config),
           o.status = "PAPER_ENTRY_FILLED"
    PROVE  /\ signal.t < o.entryTime
           /\ SessionDate(o.entryTime) = SessionDate(signal.t)
           /\ ~AtOrAfterForceFlat(o.entryTime, config)
           /\ o.exitTime # NoTime => /\ o.entryTime < o.exitTime
                                     /\ SessionDate(o.exitTime) = SessionDate(signal.t)
           /\ (\E b \in bars : /\ SessionDate(b.t) = SessionDate(signal.t)
                               /\ b.t > signal.t
                               /\ AtOrAfterForceFlat(b.t, config)) =>
                 o.reason \in {"STOP_HIT", "TARGET_HIT", "FORCE_FLAT"}
<1>1. PICK ins \in InstructionType : /\ ins.t = signal.t
                                     /\ o = Simulate(ins, bars, config)
  <2>1. o # RejectedOutcome("INVALID_SIGNAL_CONTEXT")
    BY DEF RejectedOutcome
  <2> QED BY <2>1, OutcomeCases
<1>2. bars \subseteq Bar
  BY DEF StoredBars
<1>3. PICK e : /\ EnteredAt(ins, bars, config, o, e)
               /\ \/ LeftOpen(ins, bars, o, e)
                  \/ \E b : LeftAt(ins, bars, config, o, e, b)
  <2>1. o # NoFillOutcome(ins)
    BY DEF NoFillOutcome
  <2> QED BY <1>1, <1>2, <2>1, SimulateCases
<1>4. /\ signal.t < o.entryTime
      /\ SessionDate(o.entryTime) = SessionDate(signal.t)
      /\ ~AtOrAfterForceFlat(o.entryTime, config)
  BY <1>1, <1>2, <1>3 DEF EnteredAt, EntryCandles, SameDayFuture, Bar
<1>5. o.exitTime # NoTime => /\ o.entryTime < o.exitTime
                             /\ SessionDate(o.exitTime) = SessionDate(signal.t)
  <2>1. CASE LeftOpen(ins, bars, o, e)
    BY <2>1 DEF LeftOpen
  <2>2. ASSUME NEW b, LeftAt(ins, bars, config, o, e, b)
        PROVE  /\ o.entryTime < o.exitTime
               /\ SessionDate(o.exitTime) = SessionDate(signal.t)
    <3>1. b \in ExitCandles(ins, bars, e.t) /\ o.exitTime = b.t /\ o.entryTime = e.t
      BY <1>3, <2>2 DEF LeftAt, EnteredAt
    <3> QED BY <1>1, <1>2, <3>1 DEF ExitCandles, SameDayFuture
  <2> QED BY <1>3, <2>1, <2>2
<1>6. ASSUME NEW x \in bars, SessionDate(x.t) = SessionDate(signal.t),
             x.t > signal.t, AtOrAfterForceFlat(x.t, config)
      PROVE  o.reason \in {"STOP_HIT", "TARGET_HIT", "FORCE_FLAT"}
  BY <1>1, <1>3, <1>6, ForceFlatDecides
<1> QED BY <1>4, <1>5, <1>6

\* The exit that is not forced loses at most the instruction's risk.
LEMMA ExitBounded ==
    ASSUME NEW ins \in InstructionType, ValidInstruction(ins),
           ins.maxRisk = (ins.entry - ins.stop) * ins.quantity,
           NEW bars, StoredBars(bars), NEW config \in PaperConfig,
           NEW o, NEW e, NEW b, LeftAt(ins, bars, config, o, e, b),
           o.reason # "FORCE_FLAT"
    PROVE  o.gross >= -ins.maxRisk /\ o.exitPrice <= ins.target
<1>1. /\ b \in Bar /\ b.low \in Nat /\ b.close \in Nat /\ b.high \in Nat
      /\ b.low <= b.close /\ b.close <= b.high
  BY DEF LeftAt, ExitCandles, SameDayFuture, StoredBars, Bar
<1>2. /\ ins.entry \in Int /\ ins.stop \in Int /\ ins.target \in Int
      /\ ins.quantity \in Nat /\ ins.entry > ins.stop /\ ins.target > ins.entry
  BY DEF InstructionType, ValidInstruction
<1>3. o.exitPrice \in Int /\ ins.stop <= o.exitPrice /\ o.exitPrice <= ins.target
  <2>1. /\ o.reason = ExitAt(ins, b, config)
        /\ o.exitPrice = ExitPrice(ins, b, config)
    BY DEF LeftAt
  <2>2. CASE o.reason = "STOP_HIT"
    BY <1>2, <2>1, <2>2 DEF ExitPrice
  <2>3. CASE o.reason = "TARGET_HIT"
    BY <1>2, <2>1, <2>3 DEF ExitPrice
  <2>4. CASE o.reason = "TIME_EXIT"
    <3>1. b.low > ins.stop /\ b.high < ins.target
      BY <1>1, <1>2, <2>1, <2>4 DEF ExitAt
    <3>2. o.exitPrice = b.close
      BY <2>1, <2>4 DEF ExitPrice
    <3> QED BY <1>1, <1>2, <3>1, <3>2
  <2> QED BY <2>1, <2>2, <2>3, <2>4 DEF ExitAt
<1>4. PICK d \in Int, x \in Nat : d = ins.entry - ins.stop /\ x = o.exitPrice - ins.stop
  BY <1>2, <1>3
<1>5. o.exitPrice - ins.entry = x - d
  BY <1>2, <1>3, <1>4
<1>6. o.gross = (x - d) * ins.quantity
  BY <1>5 DEF LeftAt
<1>7. (x - d) * ins.quantity = x * ins.quantity - d * ins.quantity
      /\ x * ins.quantity >= 0 /\ x * ins.quantity \in Int /\ d * ins.quantity \in Int
  BY <1>2, <1>4
<1>8. ins.maxRisk = d * ins.quantity
  BY <1>4
<1> QED BY <1>3, <1>6, <1>7, <1>8

\* Where the target is awarded, no bar since the entry touched the stop.
LEMMA StopWins ==
    ASSUME NEW ins \in InstructionType, NEW bars, StoredBars(bars),
           NEW config \in PaperConfig, NEW o, NEW e, NEW b,
           EnteredAt(ins, bars, config, o, e), LeftAt(ins, bars, config, o, e, b),
           o.reason = "TARGET_HIT",
           NEW x \in bars, e.t < x.t, x.t <= b.t
    PROVE  x.low > ins.stop
<1>1. /\ e.t \in Nat /\ b.t \in Nat /\ x.t \in Nat /\ ins.t \in Nat
      /\ x.low \in Nat /\ ins.stop \in Int
      /\ b \in ExitCandles(ins, bars, e.t) /\ b \in bars /\ e.t > ins.t
      /\ SessionDate(e.t) = SessionDate(ins.t) /\ SessionDate(b.t) = SessionDate(ins.t)
  BY DEF EnteredAt, EntryCandles, LeftAt, ExitCandles, SameDayFuture, StoredBars, Bar,
         InstructionType
<1>2. ExitAt(ins, b, config) = "TARGET_HIT"
  BY DEF LeftAt
<1>3. CASE x.t = b.t
  <2>1. x = b
    BY <1>1, <1>3 DEF StoredBars
  <2> QED BY <1>1, <1>2, <2>1 DEF ExitAt
<1>4. CASE x.t < b.t
  <2>1. SessionDate(x.t) = SessionDate(ins.t)
    BY <1>1, <1>4, BetweenSession
  <2>2. x \in ExitCandles(ins, bars, e.t)
    BY <1>1, <2>1 DEF ExitCandles, SameDayFuture
  <2>3. ExitAt(ins, x, config) = "TIME_EXIT"
    BY <1>1, <1>2, <1>4, <2>2 DEF LeftAt
  <2> QED BY <1>1, <2>3 DEF ExitAt
<1> QED BY <1>1, <1>3, <1>4

\* The risk of an instruction is that of its quantity between entry and stop.
LEMMA MaxRiskIs ==
    ASSUME NEW signal, NEW close, NEW config, NEW ins,
           ins = Instruction(signal, close, config)
    PROVE  ins.maxRisk = (ins.entry - ins.stop) * ins.quantity
<1> DEFINE entry == Q(close * (Unit + config.entryBuffer), Unit)
           stop == Q(entry * (Unit - config.stopPct), Unit)
           target == Q(entry * Unit + config.targetR * (entry - stop), Unit)
<1>1. ins = [t |-> signal.t, entry |-> entry, stop |-> stop, target |-> target,
             quantity |-> config.quantity, maxRisk |-> (entry - stop) * config.quantity,
             cost |-> config.cost]
  BY DEF Instruction
<1> HIDE DEF entry, stop, target
<1>2. PICK e, p, q, m, t, g : ins = [t |-> t, entry |-> e, stop |-> p, target |-> g,
                                     quantity |-> q, maxRisk |-> m, cost |-> config.cost]
                              /\ m = (e - p) * q
  BY <1>1, Zenon
<1>3. ins.entry = e /\ ins.stop = p /\ ins.quantity = q /\ ins.maxRisk = m BY <1>2
<1> QED BY <1>2, <1>3, Zenon

\* An exit is conservative.
LEMMA ExitIsConservative ==
    ASSUME NEW signal, signal.t \in Nat, NEW bars, StoredBars(bars),
           NEW config \in PaperConfig, NEW o, o = Outcome(signal, bars, config),
           NEW at, at = Instruction(signal, (CHOOSE b \in bars : b.t = signal.t).close,
                                    config)
    PROVE  /\ (/\ o.status = "PAPER_ENTRY_FILLED" /\ o.exitTime # NoTime
               /\ o.reason # "FORCE_FLAT") =>
                 o.gross >= -at.maxRisk /\ o.exitPrice <= o.target
           /\ o.reason = "TARGET_HIT" =>
                 \A x \in bars : o.entryTime < x.t /\ x.t <= o.exitTime => x.low > o.stop
           /\ o.net = o.gross - o.costs
           /\ o.exitTime = NoTime => o.exitPrice = NoPrice /\ o.net = 0
<1>1. CASE o = RejectedOutcome("INVALID_SIGNAL_CONTEXT")
  BY <1>1 DEF RejectedOutcome
<1>2. CASE o # RejectedOutcome("INVALID_SIGNAL_CONTEXT")
  <2>1. PICK ins \in InstructionType :
            /\ ins = at /\ ValidInstruction(ins) /\ o = Simulate(ins, bars, config)
    BY <1>2, OutcomeCases
  <2>2. bars \subseteq Bar
    BY DEF StoredBars
  <2>3. CASE o = NoFillOutcome(ins)
    BY <2>3 DEF NoFillOutcome
  <2>4. CASE o # NoFillOutcome(ins)
    <3>1. /\ o.status = "PAPER_ENTRY_FILLED" /\ o.net = o.gross - o.costs
          /\ o.stop = ins.stop /\ o.target = ins.target
      BY <2>1, <2>2, <2>4, SimulateCases
    <3>2. PICK e : /\ EnteredAt(ins, bars, config, o, e)
                   /\ \/ LeftOpen(ins, bars, o, e)
                      \/ \E b : LeftAt(ins, bars, config, o, e, b)
      BY <2>1, <2>2, <2>4, SimulateCases
    <3>3. CASE LeftOpen(ins, bars, o, e)
      BY <3>1, <3>3 DEF LeftOpen
    <3>4. ASSUME NEW b, LeftAt(ins, bars, config, o, e, b)
          PROVE  /\ o.reason # "FORCE_FLAT" =>
                       o.gross >= -at.maxRisk /\ o.exitPrice <= o.target
                 /\ o.reason = "TARGET_HIT" =>
                       \A x \in bars : o.entryTime < x.t /\ x.t <= o.exitTime
                                           => x.low > o.stop
                 /\ o.exitTime # NoTime
      <4>1. ins.maxRisk = (ins.entry - ins.stop) * ins.quantity
        BY <2>1, MaxRiskIs
      <4>2. o.reason # "FORCE_FLAT" =>
              o.gross >= -at.maxRisk /\ o.exitPrice <= o.target
        BY <2>1, <3>1, <3>4, <4>1, ExitBounded
      <4>3. o.entryTime = e.t /\ o.exitTime = b.t /\ b \in bars
        BY <3>2, <3>4 DEF EnteredAt, LeftAt, ExitCandles, SameDayFuture
      <4>4. o.reason = "TARGET_HIT" =>
              \A x \in bars : o.entryTime < x.t /\ x.t <= o.exitTime => x.low > o.stop
        BY <3>1, <3>2, <3>4, <4>3, StopWins
      <4>5. b.t # NoTime
        BY <2>2, <4>3 DEF Bar, NoTime
      <4> QED BY <4>2, <4>3, <4>4, <4>5
    <3> QED BY <3>1, <3>2, <3>3, <3>4
  <2> QED BY <2>3, <2>4
<1> QED BY <1>1, <1>2

-----------------------------------------------------------------------------
(* No look-ahead. *)

\* The earliest of bars of different minutes.
LEMMA EarliestIs ==
    ASSUME NEW bars, StoredBars(bars), NEW S, S \subseteq bars, NEW e \in S,
           \A c \in S : e.t <= c.t
    PROVE  Earliest(S) = e
<1>1. S \subseteq Bar /\ S # {}
  BY DEF StoredBars
<1>2. Earliest(S) \in S /\ \A c \in S : Earliest(S).t <= c.t
  BY <1>1, EarliestExists
<1>3. Earliest(S).t = e.t
  BY <1>1, <1>2 DEF Bar
<1> QED BY <1>2, <1>3 DEF StoredBars

\* A bar after the entry's minute does not move the entry.
LEMMA LaterBarKeepsEntry ==
    ASSUME NEW ins \in InstructionType, NEW bars, NEW x, StoredBars(bars \cup {x}),
           NEW config \in PaperConfig, EntryCandles(ins, bars, config) # {},
           Earliest(EntryCandles(ins, bars, config)).t < x.t
    PROVE  /\ EntryCandles(ins, bars \cup {x}, config) # {}
           /\ Earliest(EntryCandles(ins, bars \cup {x}, config))
                 = Earliest(EntryCandles(ins, bars, config))
<1> DEFINE old == EntryCandles(ins, bars, config)
           new == EntryCandles(ins, bars \cup {x}, config)
<1>1. old \subseteq Bar /\ old # {}
  BY DEF EntryCandles, SameDayFuture, StoredBars
<1>2. PICK e : e = Earliest(old) /\ e \in old /\ \A c \in old : e.t <= c.t
  BY <1>1, EarliestExists
<1>3. /\ e \in new /\ new \subseteq old \cup {x}
      /\ new \subseteq bars \cup {x}
  BY <1>2 DEF EntryCandles, SameDayFuture
<1>4. e.t \in Nat /\ x.t \in Nat /\ e.t < x.t
  BY <1>1, <1>2 DEF StoredBars, Bar
<1>5. \A c \in new : e.t <= c.t
  BY <1>2, <1>3, <1>4
<1>6. Earliest(new) = e
  <2> HIDE DEF new
  <2> QED BY <1>3, <1>5, EarliestIs
<1> QED BY <1>2, <1>3, <1>6

\* A bar after a deciding exit does not move the exit.
LEMMA LaterBarKeepsExit ==
    ASSUME NEW ins \in InstructionType, NEW bars, NEW x, StoredBars(bars \cup {x}),
           NEW config \in PaperConfig, NEW t \in Nat, NEW b,
           b = ExitCandle(ins, ExitCandles(ins, bars, t), config),
           ExitCandles(ins, bars, t) # {},
           ExitAt(ins, b, config) # "TIME_EXIT", b.t < x.t
    PROVE  /\ ExitCandles(ins, bars \cup {x}, t) # {}
           /\ ExitCandle(ins, ExitCandles(ins, bars \cup {x}, t), config) = b
<1> DEFINE exits == ExitCandles(ins, bars, t)
           more == ExitCandles(ins, bars \cup {x}, t)
           old == {c \in exits : ExitAt(ins, c, config) # "TIME_EXIT"}
           new == {c \in more : ExitAt(ins, c, config) # "TIME_EXIT"}
<1>1. /\ exits \subseteq Bar /\ exits \subseteq more /\ more \subseteq exits \cup {x}
      /\ more \subseteq bars \cup {x}
      /\ \A c \in exits : SessionDate(c.t) = SessionDate(ins.t)
  BY DEF ExitCandles, SameDayFuture, StoredBars
<1>2. b \in exits
  BY <1>1, ExitCandleExists
<1>3. b \in old /\ \A c \in old : b.t <= c.t
  <2>1. b \in old /\ old \subseteq Bar
    BY <1>1, <1>2
  <2>2. b = Earliest(old)
    BY <2>1 DEF ExitCandle
  <2> QED BY <2>1, <2>2, EarliestExists
<1>4. /\ b \in new /\ new \subseteq old \cup {x} /\ new \subseteq bars \cup {x}
  BY <1>1, <1>3
<1>5. b.t \in Nat /\ x.t \in Nat
  BY <1>1, <1>2 DEF StoredBars, Bar
<1>6. \A c \in new : b.t <= c.t
  <2> HIDE DEF new, old
  <2>1. \A c \in new : c \in old \/ c = x
    BY <1>4
  <2> QED BY <1>3, <1>5, <2>1
<1>7. Earliest(new) = b
  <2> HIDE DEF new
  <2> QED BY <1>4, <1>6, EarliestIs
<1>8. ExitCandle(ins, more, config) = b
  <2>1. new # {}
    BY <1>4
  <2> QED BY <1>7, <2>1 DEF ExitCandle
<1> QED BY <1>1, <1>2, <1>8

\* A later bar leaves the instruction of a signal alone.
LEMMA LaterBarKeepsInstruction ==
    ASSUME NEW signal, signal.t \in Nat, NEW bars, NEW x,
           StoredBars(bars \cup {x}), NEW config \in PaperConfig,
           Outcome(signal, bars, config).status = "PAPER_ENTRY_FILLED",
           signal.t < x.t
    PROVE  \E ins \in InstructionType :
              /\ ins.t = signal.t
              /\ Outcome(signal, bars, config) = Simulate(ins, bars, config)
              /\ Outcome(signal, bars \cup {x}, config)
                    = Simulate(ins, bars \cup {x}, config)
<1>1. StoredBars(bars) /\ x.t \in Nat
  BY DEF StoredBars, Bar
<1>2. Outcome(signal, bars, config) # RejectedOutcome("INVALID_SIGNAL_CONTEXT")
  BY DEF RejectedOutcome
<1> DEFINE at(S) == {c \in S : c.t = signal.t /\ signal.contextOk}
           valid(S) == {ins \in {Instruction(signal, b.close, config) : b \in at(S)} :
                           ValidInstruction(ins)}
<1>3. at(bars \cup {x}) = at(bars)
  BY <1>1
<1>4. valid(bars \cup {x}) = valid(bars)
  BY <1>3
<1>5. valid(bars) # {}
  BY <1>2 DEF Outcome
<1>6. PICK b \in at(bars) : ValidInstruction(Instruction(signal, b.close, config))
  BY <1>5
<1>7. at(bars) = {b}
  BY <1>6, <1>1 DEF StoredBars
<1>8. PICK ins : ins = Instruction(signal, b.close, config) /\ ValidInstruction(ins)
  BY <1>6
<1>9. valid(bars) = {ins}
  BY <1>7, <1>8
<1>10. ins \in InstructionType /\ ins.t = signal.t
  <2>1. b.close \in Nat
    BY <1>1, <1>6 DEF StoredBars, Bar
  <2>2. ins \in InstructionType
    BY <1>8, <2>1, InstructionTyped
  <2> QED BY <1>8, <2>2 DEF Instruction
<1>11. ASSUME NEW S, valid(S) = {ins}
       PROVE  Outcome(signal, S, config) = Simulate(ins, S, config)
  <2>1. Outcome(signal, S, config) =
          CHOOSE z \in {Simulate(i, S, config) : i \in valid(S)} : TRUE
    BY <1>11 DEF Outcome
  <2>2. {Simulate(i, S, config) : i \in valid(S)} = {Simulate(ins, S, config)}
    BY <1>11
  <2> QED BY <2>1, <2>2
<1>12. valid(bars \cup {x}) = {ins}
  BY <1>4, <1>9
<1>13. /\ Outcome(signal, bars, config) = Simulate(ins, bars, config)
       /\ Outcome(signal, bars \cup {x}, config) = Simulate(ins, bars \cup {x}, config)
  <2> HIDE DEF valid
  <2> QED BY <1>9, <1>11, <1>12
<1> QED BY <1>10, <1>13

\* What a bar stored later can change.
LEMMA LaterBar ==
    ASSUME NEW signal, signal.t \in Nat, NEW bars, NEW x,
           StoredBars(bars \cup {x}), NEW config \in PaperConfig
    PROVE  LET o == Outcome(signal, bars, config)
               p == Outcome(signal, bars \cup {x}, config)
           IN  o.status = "PAPER_ENTRY_FILLED" =>
                 /\ x.t > o.entryTime => /\ p.status = o.status
                                         /\ p.entryTime = o.entryTime
                                         /\ p.entry = o.entry
                 /\ (/\ o.reason \in {"STOP_HIT", "TARGET_HIT", "FORCE_FLAT"}
                     /\ x.t > o.exitTime) => p = o
<1>0. PICK o, p : /\ o = Outcome(signal, bars, config)
                  /\ p = Outcome(signal, bars \cup {x}, config)
  OBVIOUS
<1> SUFFICES ASSUME o.status = "PAPER_ENTRY_FILLED", x.t > o.entryTime \/ x.t > o.exitTime,
                    x.t > o.entryTime \/
                       o.reason \in {"STOP_HIT", "TARGET_HIT", "FORCE_FLAT"}
             PROVE  /\ x.t > o.entryTime => /\ p.status = o.status
                                            /\ p.entryTime = o.entryTime
                                            /\ p.entry = o.entry
                    /\ (/\ o.reason \in {"STOP_HIT", "TARGET_HIT", "FORCE_FLAT"}
                        /\ x.t > o.exitTime) => p = o
  BY <1>0
<1>1. StoredBars(bars) /\ bars \subseteq Bar /\ x.t \in Nat
  BY DEF StoredBars, Bar
<1>2. PICK ins \in InstructionType :
          /\ ins.t = signal.t /\ o = Simulate(ins, bars, config)
          /\ p = Simulate(ins, bars \cup {x}, config)
  <2>1. PICK i \in InstructionType : i.t = signal.t /\ o = Simulate(i, bars, config)
    <3>1. o # RejectedOutcome("INVALID_SIGNAL_CONTEXT")
      BY DEF RejectedOutcome
    <3> QED BY <1>0, <1>1, <3>1, OutcomeCases
  <2>2. PICK c : /\ EnteredAt(i, bars, config, o, c)
                 /\ \/ LeftOpen(i, bars, o, c)
                    \/ \E d : LeftAt(i, bars, config, o, c, d)
    <3>1. o # NoFillOutcome(i)
      BY DEF NoFillOutcome
    <3> QED BY <1>1, <2>1, <3>1, SimulateCases
  <2>3. o.entryTime \in Nat /\ signal.t < o.entryTime
    BY <1>1, <2>1, <2>2 DEF EnteredAt, EntryCandles, SameDayFuture, Bar
  <2>4. o.reason # "DATA_ENDED" => o.exitTime \in Nat /\ o.exitTime > o.entryTime
    <3>1. CASE LeftOpen(i, bars, o, c)
      BY <3>1 DEF LeftOpen
    <3>2. ASSUME NEW d, LeftAt(i, bars, config, o, c, d)
          PROVE  o.exitTime \in Nat /\ o.exitTime > o.entryTime
      BY <1>1, <2>2, <3>2 DEF EnteredAt, LeftAt, ExitCandles, SameDayFuture, Bar
    <3> QED BY <2>2, <3>1, <3>2
  <2>5. signal.t < x.t
    BY <1>1, <2>3, <2>4
  <2>6. Outcome(signal, bars, config).status = "PAPER_ENTRY_FILLED"
    BY <1>0
  <2>7. \E j \in InstructionType :
           /\ j.t = signal.t
           /\ Outcome(signal, bars, config) = Simulate(j, bars, config)
           /\ Outcome(signal, bars \cup {x}, config) = Simulate(j, bars \cup {x}, config)
    BY <2>5, <2>6, LaterBarKeepsInstruction
  <2> QED BY <1>0, <2>7
<1> DEFINE entries == EntryCandles(ins, bars, config)
<1>3. entries # {}
  BY <1>2 DEF Simulate, NoFillOutcome
<1>4. PICK e : e = Earliest(entries) /\ e \in entries
  <2>1. entries \subseteq Bar
    BY <1>1 DEF EntryCandles, SameDayFuture
  <2> QED BY <1>3, <2>1, EarliestExists
<1> DEFINE exits == ExitCandles(ins, bars, e.t)
           b == ExitCandle(ins, exits, config)
           made(t, price, reason) == CompletedTradeOutcome(ins, e.t, t, price, reason)
<1>5. /\ exits = {} => o = made(NoTime, NoPrice, "DATA_ENDED")
      /\ exits # {} => o = made(b.t, ExitPrice(ins, b, config), ExitAt(ins, b, config))
  BY <1>2, <1>3, <1>4 DEF Simulate
<1>6. /\ o.entryTime = e.t /\ e.t \in Nat /\ signal.t < e.t
  <2>1. o.entryTime = e.t
    BY <1>5 DEF CompletedTradeOutcome
  <2> QED BY <1>1, <1>2, <1>4, <2>1 DEF EntryCandles, SameDayFuture, Bar
<1>7. exits # {} => b \in exits /\ b.t \in Nat /\ b.t > e.t
  BY <1>1, ExitCandleExists DEF ExitCandles, SameDayFuture, Bar
<1>8. o.reason \in {"STOP_HIT", "TARGET_HIT", "FORCE_FLAT"} =>
        exits # {} /\ o.exitTime = b.t /\ ExitAt(ins, b, config) # "TIME_EXIT"
  BY <1>5 DEF CompletedTradeOutcome
<1>9. e.t < x.t
  BY <1>1, <1>6, <1>7, <1>8
<1> DEFINE entries2 == EntryCandles(ins, bars \cup {x}, config)
           exits2 == ExitCandles(ins, bars \cup {x}, e.t)
           b2 == ExitCandle(ins, exits2, config)
<1>10. entries2 # {} /\ Earliest(entries2) = e
  BY <1>3, <1>4, <1>9, LaterBarKeepsEntry
<1>11. /\ exits2 = {} => p = made(NoTime, NoPrice, "DATA_ENDED")
       /\ exits2 # {} => p = made(b2.t, ExitPrice(ins, b2, config), ExitAt(ins, b2, config))
  BY <1>2, <1>10 DEF Simulate
<1> HIDE DEF exits, b, exits2, b2
<1>12. p.status = o.status /\ p.entryTime = o.entryTime /\ p.entry = o.entry
  BY <1>5, <1>11 DEF CompletedTradeOutcome
<1>13. ASSUME o.reason \in {"STOP_HIT", "TARGET_HIT", "FORCE_FLAT"}, x.t > o.exitTime
       PROVE  p = o
  <2>1. exits2 # {} /\ b2 = b
    BY <1>1, <1>6, <1>7, <1>8, <1>13, LaterBarKeepsExit DEF exits, b, exits2, b2
  <2> HIDE DEF made
  <2> QED BY <1>5, <1>8, <1>11, <1>13, <2>1
<1> QED BY <1>12, <1>13

-----------------------------------------------------------------------------
(* The replay of one signal. *)

\* Bars are stored once per minute, and the replay is one over these bars.
ReplayInv ==
    /\ StoredBars(stored)
    /\ setting \in PaperConfig
    /\ replayed = Outcome(Signal, stored, setting)

LEMMA ReplayStep == ReplayInv /\ [ReplayNext]_replayVars => ReplayInv'
<1> SUFFICES ASSUME ReplayInv, [ReplayNext]_replayVars PROVE ReplayInv'
  OBVIOUS
<1>1. CASE UNCHANGED replayVars
  BY <1>1 DEF ReplayInv, replayVars
<1>2. ASSUME NEW t \in Times, NEW s \in Shapes, StoreBar(t, s) PROVE ReplayInv'
  <2>1. PICK x : x = [t |-> t, low |-> s.low, high |-> s.high, close |-> s.close]
    OBVIOUS
  <2>2. /\ x \in Bar /\ x.t = t /\ x.low <= x.close /\ x.close <= x.high
        /\ stored' = stored \cup {x} /\ \A b \in stored : b.t # x.t
    BY <1>2, <2>1, ReplayAssumption DEF StoreBar, Bar
  <2>3. StoredBars(stored')
    BY <2>2 DEF ReplayInv, StoredBars
  <2> QED BY <1>2, <2>3 DEF StoreBar, ReplayInv
<1> QED BY <1>1, <1>2 DEF ReplayNext

LEMMA ReplayAlways == ReplaySpec => []ReplayInv
<1>1. ReplayInit => ReplayInv
  BY ReplayAssumption DEF ReplayInit, ReplayInv, StoredBars
<1> QED BY <1>1, ReplayStep, PTL DEF ReplaySpec

\* The replay of any signal over any stored bars under any settings fills
\* inside the signal's own session: after the signal, before force-flat, and
\* with an exit on a later bar; a stored force-flat bar always closes the trade.
THEOREM FillsCorrect == ReplaySpec => []FillsWithinSession
<1>1. ReplayInv => FillsWithinSession
  <2> SUFFICES ASSUME ReplayInv, Filled PROVE FillsWithinSession
    BY DEF FillsWithinSession
  <2> QED BY FillWithinSession, ReplayAssumption
             DEF ReplayInv, FillsWithinSession, Filled, Decisive
<1> QED BY <1>1, ReplayAlways, PTL

\* The replay of any signal over any stored bars under any settings is
\* conservative: short of force-flat a trade loses at most the risk of its
\* instruction, rounding included, the stop wins over the target, and a trade
\* without an exit earns and costs nothing.
THEOREM ExitsCorrect == ReplaySpec => []ExitsAreConservative
<1>1. ReplayInv => ExitsAreConservative
  BY ExitIsConservative, ReplayAssumption
     DEF ReplayInv, ExitsAreConservative, Filled, Ins
<1> QED BY <1>1, ReplayAlways, PTL

\* A bar stored later changes nothing of a trade that a stop, a target or the
\* force-flat time closed before it, and nothing of an entry before it: a
\* replay gives the result that trading in real time would have given.
THEOREM NoLookAhead == ReplaySpec => LaterBarsKeepFills
<1> DEFINE Kept == \A b \in stored' \ stored :
               /\ (Decisive /\ b.t > replayed.exitTime) => replayed' = replayed
               /\ (Filled /\ b.t > replayed.entryTime) =>
                      /\ replayed'.entryTime = replayed.entryTime
                      /\ replayed'.entry = replayed.entry
<1>1. ReplayInv /\ [ReplayNext]_replayVars => [Kept]_replayVars
  <2> SUFFICES ASSUME ReplayInv, ReplayInv', NEW t \in Times, NEW s \in Shapes,
                      StoreBar(t, s), NEW x \in stored' \ stored
               PROVE  /\ (Decisive /\ x.t > replayed.exitTime) => replayed' = replayed
                      /\ (Filled /\ x.t > replayed.entryTime) =>
                             /\ replayed'.entryTime = replayed.entryTime
                             /\ replayed'.entry = replayed.entry
    BY ReplayStep DEF ReplayNext
  <2>1. stored' = stored \cup {x} /\ setting' = setting
    BY DEF StoreBar
  <2>2. /\ StoredBars(stored \cup {x}) /\ setting \in PaperConfig
        /\ replayed = Outcome(Signal, stored, setting)
        /\ replayed' = Outcome(Signal, stored \cup {x}, setting)
    BY <2>1 DEF ReplayInv
  <2>3. Decisive => Filled
    <3>1. \/ replayed = RejectedOutcome("INVALID_SIGNAL_CONTEXT")
          \/ \E ins \in InstructionType : replayed = Simulate(ins, stored, setting)
      BY OutcomeCases, ReplayAssumption DEF ReplayInv
    <3>2. stored \subseteq Bar /\ setting \in PaperConfig
      BY DEF ReplayInv, StoredBars
    <3>3. \A ins \in InstructionType : replayed = Simulate(ins, stored, setting) =>
            replayed = NoFillOutcome(ins) \/ replayed.status = "PAPER_ENTRY_FILLED"
      BY <3>2, SimulateCases
    <3> QED BY <3>1, <3>3 DEF Decisive, Filled, RejectedOutcome, NoFillOutcome
  <2> QED BY <2>2, <2>3, LaterBar, ReplayAssumption DEF Decisive, Filled
<1> QED
  BY <1>1, ReplayAlways, PTL DEF ReplaySpec, LaterBarsKeepFills
=============================================================================
