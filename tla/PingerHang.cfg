SPECIFICATION Spec
CONSTANTS
    Durations <- MCDurations
    DefaultInterval = 3
    Horizon = 3
    MaxResets = 0
PROPERTIES
    CancelAlwaysEndsPinger
CHECK_DEADLOCK FALSE
