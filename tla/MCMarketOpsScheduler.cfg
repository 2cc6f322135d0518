SPECIFICATION FairSpec
CONSTANTS
    op = op
    Operators = {op}
    OperatorJobs = {"preopen_check", "stream_verify", "stream_stop"}
    DayMinutes = 3
    PollsPerMinute = 2
    DueAt <- MCDueAt
    ScannerStart = 2
    ScannerStop = 2
    ScannerInterval = 1
    RecoveryEnabled = TRUE
    RecoveryStart = 1
    RecoveryStop = 2
    RecoveryInterval = 2
    MaxTime = 5
INVARIANTS
    RecoveryStateConsistent
PROPERTIES
    LinksAccountedFor
    RetriesSpaced
    OncePerSlot
    RecoveryEnds
\* The clock is bounded and nobody has to call the scheduler.
CHECK_DEADLOCK FALSE
