---------------------------- MODULE CandleBuilder ----------------------------
(***************************************************************************)
(* One-minute candle aggregation (backend/app/market_data/                 *)
(* candle_builder.py), with the volume rule of normalize_tick.             *)
(*                                                                         *)
(* Times are exchange seconds.  The feed delivers, within one connection,  *)
(* new ticks in exchange order and, at any moment, again a tick it already *)
(* delivered.  After a gap it starts from a snapshot that is no older than *)
(* what was delivered before: that is what Kite's ticker does.             *)
(***************************************************************************)
EXTENDS Integers, Sequences, FiniteSetsExt

CONSTANTS
    Tokens,             \* instrument tokens
    Prices,             \* last_price of a tick
    RawVolumes,         \* volume fields of a tick, cumulative over the session
    SecondsPerMinute,   \* 60
    MaxTime,            \* bound: exchange seconds
    MaxEvents           \* bound: ticks taken and gaps in a behaviour

ASSUME BuilderAssumption ==
    /\ Prices \subseteq Nat
    /\ RawVolumes \subseteq Nat
    /\ SecondsPerMinute \in Nat \ {0}
    /\ MaxTime \in Nat /\ MaxEvents \in Nat

None == -1

VARIABLES
    working,      \* _working: the candle in progress, a set of at most one
    lastTickAt,   \* _last_tick_at
    lastVolume,   \* _last_cumulative_volume
    emitted,      \* history: the candles returned, in order
    log,          \* history: the ticks taken and the gaps, in order
    now           \* the newest exchange time delivered

vars == <<working, lastTickAt, lastVolume, emitted, log, now>>

Minute(t) == t \div SecondsPerMinute

Candle == [minute : Nat, open : Prices, high : Prices, low : Prices,
           close : Prices, volume : Nat]

WorkingCandle == [candle : Candle, complete : BOOLEAN]

Tick == [at : Nat, price : Prices, volume : RawVolumes \cup {None}]

Gap == [at |-> None, price |-> None, volume |-> None]

Init ==
    /\ working = [k \in Tokens |-> {}]
    /\ lastTickAt = [k \in Tokens |-> None]
    /\ lastVolume = [k \in Tokens |-> None]
    /\ emitted = [k \in Tokens |-> <<>>]
    /\ log = [k \in Tokens |-> <<>>]
    /\ now = 0

-----------------------------------------------------------------------------
(* accept_tick. *)

\* Zero is falsy in Python: a "volume_traded" that is absent or 0 gives way to
\* "volume", which counts even when it is 0.
NormalizeVolume(traded, volume) == IF traded \in {None, 0} THEN volume ELSE traded

HasPositiveVolumeDelta(previous, current) ==
    previous # None /\ current # None /\ current > previous

\* An older tick, or one of the same time that adds no volume.
Ignored(k, tick) ==
    \/ tick.at < lastTickAt[k]
    \/ /\ tick.at = lastTickAt[k]
       /\ ~HasPositiveVolumeDelta(lastVolume[k], tick.volume)

NewWorkingCandle(k, tick) ==
    [candle |-> [minute |-> Minute(tick.at), open |-> tick.price,
                 high |-> tick.price, low |-> tick.price,
                 close |-> tick.price, volume |-> 0],
     complete |-> lastVolume[k] # None]

UpdatePrice(w, price) ==
    [w EXCEPT !.candle.high = IF price > @ THEN price ELSE @,
              !.candle.low = IF price < @ THEN price ELSE @,
              !.candle.close = price]

\* A candle is returned only if its volume is known to be whole.
Completed(ws) == {w.candle : w \in {v \in ws : v.complete}}

\* Mutant: a fall of the cumulative volume is added like a rise.
AddVolumeAddsFall(w, previous, volume) ==
    IF volume = None THEN w
    ELSE IF previous = None THEN [w EXCEPT !.complete = FALSE]
    ELSE [w EXCEPT !.candle.volume = @ + (volume - previous)]

\* No baseline, or a cumulative volume that fell: the candle is not whole.
AddVolume(w, previous, volume) ==
    IF volume = None THEN w
    ELSE IF previous = None \/ volume < previous
    THEN [w EXCEPT !.complete = FALSE]
    ELSE [w EXCEPT !.candle.volume = @ + (volume - previous)]

\* A set of at most one candle as the list accept_tick returns.
AsList(candles) == IF candles = {} THEN <<>> ELSE <<CHOOSE c \in candles : TRUE>>

AcceptTick(k, tick) ==
    LET same == {w \in working[k] : w.candle.minute = Minute(tick.at)}
        rolled == Completed(working[k] \ same)
        base == IF same = {} THEN {NewWorkingCandle(k, tick)}
                ELSE {UpdatePrice(w, tick.price) : w \in same}
    IN  /\ working' = [working EXCEPT ![k] =
                {AddVolume(w, lastVolume[k], tick.volume) : w \in base}]
        /\ lastTickAt' = [lastTickAt EXCEPT ![k] = tick.at]
        /\ lastVolume' = [lastVolume EXCEPT ![k] =
                IF tick.volume = None THEN @ ELSE tick.volume]
        /\ emitted' = [emitted EXCEPT ![k] = @ \o AsList(rolled)]
        /\ log' = [log EXCEPT ![k] = Append(@, tick)]

RejectTick == UNCHANGED <<working, lastTickAt, lastVolume, emitted, log>>

-----------------------------------------------------------------------------
(* The feed and the other operations. *)

Events == MapThenSumSet(LAMBDA k : Len(log[k]), Tokens)

\* A new tick, of the newest exchange time or later.
FreshTick(k, at, price, traded, volume) ==
    LET tick == [at |-> at, price |-> price,
                 volume |-> NormalizeVolume(traded, volume)]
    IN  /\ at >= now
        /\ now' = at
        /\ IF Ignored(k, tick) THEN RejectTick ELSE AcceptTick(k, tick)

\* The index of the last gap, 0 when there is none.
LastGap(k) == Max({0} \cup {i \in DOMAIN log[k] : log[k][i] = Gap})

\* The feed delivers again a tick of this connection.
Redeliver(k, i) ==
    /\ Events < MaxEvents
    /\ i > LastGap(k)
    /\ IF Ignored(k, log[k][i]) THEN RejectTick ELSE AcceptTick(k, log[k][i])
    /\ UNCHANGED now

\* Mutant: the cumulative-volume baselines survive a gap.
InvalidateKeepsVolume ==
    /\ Events < MaxEvents
    /\ working' = [k \in Tokens |-> {}]
    /\ lastTickAt' = [k \in Tokens |-> None]
    /\ log' = [k \in Tokens |-> Append(log[k], Gap)]
    /\ UNCHANGED <<lastVolume, emitted, now>>

InvalidateAfterStreamGap ==
    /\ Events < MaxEvents
    /\ working' = [k \in Tokens |-> {}]
    /\ lastTickAt' = [k \in Tokens |-> None]
    /\ lastVolume' = [k \in Tokens |-> None]
    /\ log' = [k \in Tokens |-> Append(log[k], Gap)]
    /\ UNCHANGED <<emitted, now>>

Flushable(w, cutoff) == w.complete /\ w.candle.minute < Minute(cutoff)

Flushed(k, cutoff) ==
    AsList({w.candle : w \in {v \in working[k] : Flushable(v, cutoff)}})

\* No code of the repository calls it; the cutoff stands for the current
\* time, so that later ticks are no older.
FlushCompletedBefore(cutoff) ==
    /\ \E k \in Tokens : \E w \in working[k] : Flushable(w, cutoff)
    /\ cutoff >= now
    /\ now' = cutoff
    /\ emitted' = [k \in Tokens |-> emitted[k] \o Flushed(k, cutoff)]
    /\ working' = [k \in Tokens |-> {w \in working[k] : ~Flushable(w, cutoff)}]
    /\ UNCHANGED <<lastTickAt, lastVolume, log>>

Next ==
    \/ /\ Events < MaxEvents
       /\ \E k \in Tokens, at \in 0 .. MaxTime, price \in Prices,
             traded \in RawVolumes \cup {None}, volume \in RawVolumes \cup {None} :
             FreshTick(k, at, price, traded, volume)
    \/ \E k \in Tokens : \E i \in DOMAIN log[k] : Redeliver(k, i)
    \/ InvalidateAfterStreamGap
    \/ \E cutoff \in 0 .. MaxTime : FlushCompletedBefore(cutoff)

Spec == Init /\ [][Next]_vars

-----------------------------------------------------------------------------
(* Properties. *)

\* Every map of the builder holds values of its type, and a candle in
\* progress is that of the last tick's minute.
TypeOK ==
    /\ working \in [Tokens -> SUBSET WorkingCandle]
    /\ lastTickAt \in [Tokens -> Nat \cup {None}]
    /\ lastVolume \in [Tokens -> Nat \cup {None}]
    /\ emitted \in [Tokens -> Seq(Candle)]
    /\ log \in [Tokens -> Seq(Tick \cup {Gap})]
    /\ now \in Nat
    /\ \A k \in Tokens : \A w \in working[k] :
          /\ working[k] = {w}
          /\ w.candle.minute = Minute(lastTickAt[k])

\* What was delivered of a token in one minute, as indices of its log.
OfMinute(k, m) == {i \in DOMAIN log[k] : log[k][i] # Gap /\ Minute(log[k][i].at) = m}

\* The cumulative volume last seen up to the i-th event.
VolumeAt(k, i) ==
    log[k][Max({j \in 1 .. i : log[k][j].volume # None})].volume

\* The candle of a minute, from the ticks themselves.
ReferenceCandle(k, m) ==
    LET ticks == OfMinute(k, m)
        prices == {log[k][i].price : i \in ticks}
    IN  [minute |-> m, open |-> log[k][Min(ticks)].price,
         high |-> Max(prices), low |-> Min(prices),
         close |-> log[k][Max(ticks)].price,
         volume |-> VolumeAt(k, Max(ticks)) - VolumeAt(k, Min(ticks) - 1)]

\* Only whole minutes are persisted ("that initial partial minute is
\* deliberately not persisted"): of an emitted minute no tick lies before the
\* last gap or before the first known cumulative volume.
OnlyWholeMinutes ==
    \A k \in Tokens : \A n \in DOMAIN emitted[k] :
        LET ticks == OfMinute(k, emitted[k][n].minute)
        IN  /\ \A g \in DOMAIN log[k] : log[k][g] = Gap =>
                  \/ \A i \in ticks : i < g
                  \/ \A i \in ticks : g < i
            /\ \E i \in 1 .. Min(ticks) - 1 :
                  /\ log[k][i].volume # None
                  /\ \A g \in i .. Min(ticks) : log[k][g] # Gap

\* "Restart does not duplicate bars": each token's candles come in the order
\* of their minutes, and no minute comes twice, gaps and flushes included.
EmittedInOrder ==
    \A k \in Tokens : \A i, j \in DOMAIN emitted[k] :
        i < j => emitted[k][i].minute < emitted[k][j].minute

\* An emitted candle is the candle of the minute: first, highest, lowest and
\* last price, and the rise of the cumulative volume over the minute, however
\* ticks were repeated, lacked a volume or fell back.  It stays so: a candle
\* is never emitted before its minute is over.  Candles are of whole minutes
\* only and come in order.
EmittedExact ==
    /\ EmittedInOrder
    /\ OnlyWholeMinutes
    /\ \A k \in Tokens : \A n \in DOMAIN emitted[k] :
          emitted[k][n] = ReferenceCandle(k, emitted[k][n].minute)
=============================================================================
