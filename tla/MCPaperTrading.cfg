SPECIFICATION Spec
CONSTANTS
    MinutesPerDay = 6
    IstOffset = 2
    Unit = 4
    w1 = w1
    w2 = w2
    w3 = w3
    S = S
    AnySymbol = AnySymbol
    Workers = {w1, w2, w3}
    Settings <- MCSettings
    MaxTradesPerDay = 1
    Config <- MCConfig
    SignalIds = {1, 2, 3}
    SignalRow <- MCSignalRow
    Inputs <- MCInputs
    CandleRows <- MCCandleRows
    MaxReplays = 2
INVARIANTS
    OneTradePerSignal
    CapOvershootBounded
    TablesAgree
    ReportReconciles
PROPERTIES
    ImplementsLedger
\* Once every row is stored and every replay made, nothing is left to do.
CHECK_DEADLOCK FALSE
