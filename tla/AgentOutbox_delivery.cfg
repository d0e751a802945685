\* Progress: two sessions of one process, which is taken for dead in between;
\* one failed request, one stop.
CONSTANTS
    Pid = {p1}
    Exe = {x1}
    MinSession = 1
    PeekLimit = 1
    Backoff <- MCBackoff
    Cooldown = 1
    ReusePids = FALSE
    SameExe = FALSE
    PlayUntil = 2
    MaxTime = 3
    MaxFaults = 1
    MaxStops = 1
    MaxMisreads = 1
SPECIFICATION Spec
PROPERTIES DeadSessionsLeave Delivers
CHECK_DEADLOCK FALSE
