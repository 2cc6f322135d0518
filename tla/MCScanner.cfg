SPECIFICATION Spec
CONSTANTS
    l1 = l1
    l2 = l2
    o1 = o1
    s1 = s1
    s2 = s2
    Loops = {l1, l2}
    Operators = {o1}
    Symbols = {s1, s2}
    Benchmark = s1
    Strategies <- MCStrategies
    Selections <- MCSelections
    InitialCandles <- MCInitialCandles
    Feed <- MCFeed
    Minutes = {3, 4, 5, 6}
    FirstNow = 7
    MaxNow = 8
    DayLength = 4
    Open = 1
    EntryEnd = 2
    StartAfter = 2
    StopAfter = 3
    OpeningRange = 2
    StaleAfter = 0
    HistoryBars = 2
    HistoryLimit = 3
    MaxSymbols = 2
    AutoStore = FALSE
    MinCandles = 1
    RequireStart = TRUE
    RequireContinuity = TRUE
    MaxRuns = 2
SYMMETRY LoopSymmetry
INVARIANTS
    AutoRunsExclusive
    ReportsAreExact
    CandidatesHaveContext
PROPERTIES
    SignalsImmutable
\* Nobody has to scan.
CHECK_DEADLOCK FALSE
