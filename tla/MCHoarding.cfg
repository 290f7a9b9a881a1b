SPECIFICATION FairSpec
CONSTANTS
    WORD_BYTES = 2
    MAX_PIPELINE = 1
    EXT_MAX = 2
    RES_MAX = 1
    MinPayload <- MCMinPayload
    Sink <- MCSink
    Items <- MCFewItems
    Messages <- MCFewMessages
    RX_TIMEOUT = 7
    IDLE_TIMEOUT = 8
    FIFO_DEPTH = 2
    VECTREX_MIN <- MCVectrexMin
    VECTREX_MAX = 2
    BRIGHT_SHIFT = 1
    PROMPT = FALSE
    SLACK = 0
    MAX_CREDITS = 2
INVARIANTS
    TypeOK
    RecoversAtNextFrame
PROPERTIES
    AlwaysReadyAgain
    SilenceEndsInSplash
