SPECIFICATION Spec
CONSTANTS
    Durations <- MCDurations
    DefaultInterval = 3
    Horizon = 3
    MaxResets = 3
INVARIANTS
    TypeOK
    PingDue
    DrainFindsTick
PROPERTIES
    NeverEarly
    CancelEndsPinger
    ResetAccepted
CHECK_DEADLOCK FALSE
