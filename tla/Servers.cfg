SPECIFICATION Spec
CONSTANTS
    c1 = c1
    c2 = c2
    staff = staff
    wheel = wheel
    nogroup = nogroup
    Clients = {c1, c2}
    Gids <- MCGids
    Setups <- MCSetups
    Capacity = 1
    MaxCopies = 1
INVARIANTS
    TypeOK
    EchoesOwnData
    KeepsOnlyAllowed
    ReportsAreTrue
PROPERTIES
    Released
    StreamsSurvive
    ReadyReturns
CHECK_DEADLOCK FALSE
