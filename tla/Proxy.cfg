SPECIFICATION Spec
CONSTANTS
    Capacity = 2
    MaxSent = 3
INVARIANTS
    ResultIsTrue
    LostOnlyAfterClose
    EndIsTrue
PROPERTIES
    KeepsStreamOrder
    BothCopiesEnd
CHECK_DEADLOCK FALSE
