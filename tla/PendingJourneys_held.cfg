\* A hint set between two sessions of one sitting.
SPECIFICATION Spec
CONSTANTS
    game = game
    Exe = {game}
    Played <- MCTwoPlayed
    MergeWindow = 1
    Slot = {c1}
    MaxPosts = 2
    MaxRows = 3
    MaxJourneys = 1
    MaxClicks = 1
    MaxFaults = 0
INVARIANT PendingIsHeld
CHECK_DEADLOCK FALSE
