\* A session posted again after the next one was merged into its row.
SPECIFICATION Spec
CONSTANTS
    game = game
    Exe = {game}
    Played <- MCTwoPlayed
    MergeWindow = 1
    Slot = {c1}
    MaxPosts = 3
    MaxRows = 3
    MaxJourneys = 1
    MaxClicks = 1
    MaxFaults = 0
INVARIANT RepeatsLeaveRows
CHECK_DEADLOCK FALSE
