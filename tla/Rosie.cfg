SPECIFICATION Spec
CONSTANTS
    Clients = {c1, c2}
    Descriptions = {dishes, floor}
    Numbers <- MCNumbers
    IntMod = 16
    MaxChores = 2
INVARIANTS
    ReplyIsFresh
    ReadYourWrites
PROPERTIES
    NumbersStable
    CommandsEnd
CHECK_DEADLOCK FALSE
