SPECIFICATION Spec
CONSTANTS
    q1 = q1
    q2 = q2
    Requests = {q1, q2}
    DayLength = 3
    SixAM = 1
    StateTTL = 2
    MaxCall = 1
    MaxLogins = 3
    MaxTime = 3
SYMMETRY RequestSymmetry
INVARIANTS
    NothingOlderAfterLogout
    LogoutRevokesToken
    ActiveRowsOverlapped
    StatusSparesNewLogin
    LoginOncePerState
    UsableBeforeKiteEnds
\* The clock and the number of logins are bounded.
CHECK_DEADLOCK FALSE
