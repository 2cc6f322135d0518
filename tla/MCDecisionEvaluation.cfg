SPECIFICATION Spec
CONSTANTS
    b1 = b1
    b2 = b2
    o1 = o1
    Batches = {b1, b2}
    Operators = {o1}
    SignalCount = 2
    Signal <- MCSignal
    Modes = {"LIVE_SHADOW"}
    Answers <- MCAnswers
    MinConfidence = 60
    MaxSignals = 1
    NotifyVerdicts = {"ELIGIBLE", "WATCH"}
    MaxForced = 1
SYMMETRY BatchSymmetry
INVARIANTS
    OneDecisionPerKey
    LockHeldByEvaluation
    BatchesCallModelOnce
    NotifiedOnce
\* Nobody has to ask for an evaluation.
CHECK_DEADLOCK FALSE
