\* Three sessions of one game, two of them near; two requests of the agent at
\* once, three clicks of the user, one failed statement or crash.
SPECIFICATION Spec
CONSTANTS
    game = game
    Exe = {game}
    Played <- MCPlayed
    MergeWindow = 1
    Slot = {c1, c2}
    MaxPosts = 3
    MaxRows = 3
    MaxJourneys = 2
    MaxClicks = 3
    MaxFaults = 1
SYMMETRY Symmetry
INVARIANTS TypeOK RowsAreOneSitting ConfirmedOnce LoneSessionsStay
CHECK_DEADLOCK FALSE
