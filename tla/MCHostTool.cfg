SPECIFICATION FairSpec
CONSTANTS
    WORD_BYTES = 2
    MAX_PIPELINE = 1
    EXT_MAX = 2
    RES_MAX = 1
    MinPayload <- MCMinPayload
    Sink <- MCSink
    Items <- MCItems
    Streams <- MCStreams
    BUF_SIZE = 3
INVARIANTS
    TypeOK
    SameHoweverCut
PROPERTY
    EndsWhenOver
