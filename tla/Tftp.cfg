SPECIFICATION Spec
CONSTANTS
    Handlers = {h1, h2}
    NumBlocks = 2
    BlockMod = 2
    Retries = 2
INVARIANTS
    TypeOK
    SentMeansDelivered
    OneBlockAhead
    StaleBufferHarmless
PROPERTIES
    HandlersEnd
    ImplementsTransfer
CHECK_DEADLOCK FALSE
