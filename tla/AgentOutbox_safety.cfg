\* Two games at once, two failed requests, one crash, sign-out or 401, one
\* running process taken for dead.
CONSTANTS
    Pid = {p1, p2}
    Exe = {x1, x2}
    MinSession = 1
    PeekLimit = 1
    Backoff <- MCBackoff
    Cooldown = 1
    ReusePids = FALSE
    SameExe = FALSE
    PlayUntil = 1
    MaxTime = 2
    MaxFaults = 2
    MaxStops = 1
    MaxMisreads = 1
SYMMETRY Symmetry
SPECIFICATION Safety
INVARIANTS TypeOK NoSessionLost RepeatsNeedAFailure RecordedTimeWasPlayed SeenIsRecorded
CHECK_DEADLOCK FALSE
