SPECIFICATION Spec
CONSTANTS
    c1 = c1
    c2 = c2
    t1 = t1
    t2 = t2
    t3 = t3
    Callers = {c1}
    Tickers = {t1, t2}
    MaxConnections = 2
    MaxSaves = 1
SYMMETRY TickerSymmetry
PROPERTIES
    GapInvalidates
\* Tickers and connections are bounded.
CHECK_DEADLOCK FALSE
