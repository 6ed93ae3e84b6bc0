SPECIFICATION Spec
CONSTANTS
    Capacity = 1
    MaxSent = 1
PROPERTIES
    ActsAsDirectConnection
CHECK_DEADLOCK FALSE
