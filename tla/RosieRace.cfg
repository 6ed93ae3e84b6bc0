SPECIFICATION Spec
CONSTANTS
    Clients = {c1, c2}
    Descriptions = {dishes}
    Numbers <- MCNumbers
    IntMod = 16
    MaxChores = 1
INVARIANTS
    ListsReadable
CHECK_DEADLOCK FALSE
