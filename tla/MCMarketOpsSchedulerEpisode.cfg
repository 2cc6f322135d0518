SPECIFICATION PromptSpec
CONSTANTS
    op = op
    Operators = {}
    OperatorJobs = {"preopen_check", "stream_start", "stream_verify", "stream_stop"}
    DayMinutes = 4
    PollsPerMinute = 1
    DueAt <- MCDueAt
    ScannerStart = 3
    ScannerStop = 3
    ScannerInterval = 1
    RecoveryEnabled = TRUE
    RecoveryStart = 1
    RecoveryStop = 2
    RecoveryInterval = 1
    MaxTime = 7
PROPERTIES
    EpisodeEndsWithItsWindow
\* The clock is bounded and nobody has to call the scheduler.
CHECK_DEADLOCK FALSE
