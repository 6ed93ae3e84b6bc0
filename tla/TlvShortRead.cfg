SPECIFICATION Spec
CONSTANTS
    Byte = {0, 1}
    MaxPayloadSize = 2
    MaxMessages = 1
    MaxLength = 2
INVARIANTS
    DecodedIsSent
CHECK_DEADLOCK FALSE
