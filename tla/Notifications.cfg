SPECIFICATION Spec
CONSTANTS
    ann = ann
    bob = bob
    People = {ann, bob}
    Owner = ann
    Waiting = {bob}
    s1 = s1
    s2 = s2
    Slot = {s1, s2}
    Window = 1
    Retention = 3
    Near = 1
    Dates = {1, 4}
    None = None
    Starts <- MCStarts
    MaxTime = 6
    MaxRequests = 2
    MaxJobs = 3
    MaxFaults = 1
CHECK_DEADLOCK FALSE
SYMMETRY Symmetry
INVARIANTS NotificationsTypeOK SecondBatchesRaced BatchesSeal ToldIsKept NewsIsUnread ReleaseToldOnce
