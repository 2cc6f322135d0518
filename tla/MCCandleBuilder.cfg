SPECIFICATION Spec
CONSTANTS
    k1 = k1
    Tokens = {k1}
    Prices = {1, 2}
    RawVolumes = {0, 1, 2}
    SecondsPerMinute = 2
    MaxTime = 5
    MaxEvents = 5
INVARIANTS
    TypeOK
    EmittedExact
\* The events of a behaviour are bounded.
CHECK_DEADLOCK FALSE
