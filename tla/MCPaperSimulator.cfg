SPECIFICATION ReplaySpec
CONSTANTS
    MinutesPerDay = 6
    IstOffset = 2
    Unit = 4
    Signal <- MCSignal
    Times <- MCTimes
    Shapes <- MCShapes
    Configs <- MCConfigs
\* The session ends when every minute is stored.
CHECK_DEADLOCK FALSE
INVARIANTS
    FillsWithinSession
    ExitsAreConservative
PROPERTIES
    LaterBarsKeepFills
