SPECIFICATION FairSpec
CONSTANTS
    WORD_BYTES = 2
    MAX_PIPELINE = 1
    EXT_MAX = 2
    RES_MAX = 1
    MinPayload <- MCMinPayload
    Sink <- MCSink
    Items <- MCItems
    Messages <- MCMessages
    RX_TIMEOUT = 8
    IDLE_TIMEOUT = 12
    FIFO_DEPTH = 2
    VECTREX_MIN <- MCVectrexMin
    VECTREX_MAX = 2
    BRIGHT_SHIFT = 1
    PROMPT = TRUE
    SLACK = 1
    MAX_CREDITS = 1
INVARIANTS
    NothingArrivesWhileDrawing
    ReplyDescribesScreen
PROPERTIES
    FlushDiscardsNothing
    ImplementsDisplay
    EveryFrameShown
