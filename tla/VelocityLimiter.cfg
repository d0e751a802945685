\* Two users; cooldowns of 2, 4, 6 units and eviction after 3.
CONSTANTS
    User = {u1, u2}
    MinInterval = 2
    MaxPenalty = 6
    IdleTimeout = 3
    MaxTime = 12
    MaxViolations = 4
SYMMETRY Symmetry
SPECIFICATION Spec
INVARIANT TypeOK
PROPERTIES GrantsAreSpaced CooldownIsKept RefusalIsDeserved EscalationDoubles
CHECK_DEADLOCK FALSE
