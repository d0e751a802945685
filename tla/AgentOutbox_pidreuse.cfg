\* One pid, given to a second process; no query fails.
CONSTANTS
    Pid = {p1}
    Exe = {x1}
    MinSession = 1
    PeekLimit = 1
    Backoff <- MCBackoff
    Cooldown = 1
    ReusePids = TRUE
    SameExe = FALSE
    PlayUntil = 2
    MaxTime = 3
    MaxFaults = 0
    MaxStops = 0
    MaxMisreads = 0
SPECIFICATION Safety
INVARIANT SeenIsRecorded
CHECK_DEADLOCK FALSE
