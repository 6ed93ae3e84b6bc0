SPECIFICATION Spec
CONSTANTS
    Users = {u1, u2}
    Descriptions = {dishes, floor}
    Numbers <- MCNumbers
    MaxChores = 2
INVARIANTS
    WorkAloneIsKept
PROPERTIES
    TruncatedForGood
