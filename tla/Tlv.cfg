SPECIFICATION Spec
CONSTANTS
    Byte = {0, 1}
    MaxPayloadSize = 2
    MaxMessages = 2
    MaxLength = 3
INVARIANTS
    TypeOK
    InSyncUntilShortRead
    StopsForAReason
PROPERTIES
    DecodingEnds
CHECK_DEADLOCK FALSE
