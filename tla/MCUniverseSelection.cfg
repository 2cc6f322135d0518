SPECIFICATION Spec
CONSTANTS
    q1 = q1
    q2 = q2
    u1 = u1
    u2 = u2
    Requests = {q1, q2}
    Selectors = {u1, u2}
    MaxInstruments = 2
    Configured <- MCConfigured
    Watchlists <- MCWatchlists
    Dumps <- MCDumps
    InitialTables <- MCTables
    MaxBegun = 2
    DayLength = 6
    Open = 1
    Pool <- MCPool
    SpecialNames = {3}
    ExcludeSpecial = FALSE
    RequireActive = TRUE
    RequireContinuity = TRUE
    StoreRuns = TRUE
    MinCandles = 2
    StaleAfter = 0
    Params <- MCParams
    Markets <- MCMarkets
    InitialCandles <- MCInitialCandles
    Feed <- MCFeed
    FirstNow = 4
    MaxNow = 5
SYMMETRY RequestSymmetry
INVARIANTS
    SyncReportIsHonest
    GateImpliesStart
    ReadinessAgreesWithStart
    PoolAccountedFor
    SelectedHaveFullSession
    SelectionStaysResolvable
\* The clock and the number of requests are bounded.
CHECK_DEADLOCK FALSE
