SPECIFICATION MonitorSpec
CONSTANTS
    ann = ann
    bob = bob
    People = {ann, bob}
    Owner = ann
    Player = ann
    Waiting = {}
    s1 = s1
    Slot = {s1}
    c1 = c1
    c2 = c2
    Check = {c1, c2}
    PageSize = 2
    Window = 1
    Retention = 2
    Near = 0
    Dates = {0}
    None = None
    Starts <- MCStarts
    MaxTime = 0
    MaxRequests = 2
    MaxJobs = 0
    MaxFaults = 1
CHECK_DEADLOCK FALSE
INVARIANTS MonitorTypeOK ToastsAreExcused
PROPERTY UnreadIsShown
