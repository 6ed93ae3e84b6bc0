SPECIFICATION LinkSpec
CONSTANTS
    Handlers = {h1}
    NumBlocks = 5
    BlockMod = 2
    Retries = 4
    MaxTimeouts = 3
INVARIANTS
    SentMeansDelivered
    DuplicatesNeverDecay
    TwoBlockWindow
    FileIsPayloadWithRepeats
    LateAcksSurvived
PROPERTIES
    TransferCompletes
CHECK_DEADLOCK FALSE
