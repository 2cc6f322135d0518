--------------------------- MODULE CandleSessions ---------------------------
(***************************************************************************)
(* The sessions of a series of one-minute candles                          *)
(* (backend/app/analysis/feature_builder.py and indicators.py), used by    *)
(* the scanner and by the universe selection.  Minutes are numbered from   *)
(* some midnight, DayLength to a day; a series is the set of its minutes.  *)
(***************************************************************************)
EXTENDS Integers

CONSTANTS DayLength, Open    \* minutes of a day, and the one at which NSE opens

ASSUME SessionAssumption == DayLength \in Nat \ {0} /\ Open \in 0 .. DayLength - 1

Day(t) == t \div DayLength
TimeOfDay(t) == t % DayLength
DayOpen(t) == Day(t) * DayLength + Open
Latest(bars) == CHOOSE t \in bars : \A u \in bars : u <= t
First(bars) == CHOOSE t \in bars : \A u \in bars : t <= u

\* _is_regular_session_bar: there is no upper bound.
TrailingBars(bars) == {t \in bars : TimeOfDay(t) >= Open}

\* The session is that of the latest bar, which may itself precede the open.
CurrentSession(bars) ==
    IF bars = {} THEN {} ELSE {t \in TrailingBars(bars) : Day(t) = Day(Latest(bars))}

SessionStartAvailable(session) ==
    session # {} /\ TimeOfDay(First(session)) = Open

CandleContinuityOk(session) ==
    \A t \in session : t = Latest(session) \/ t + 1 \in session
=============================================================================
