SPECIFICATION Spec
CONSTANTS
    WORD_BYTES = 2
    MAX_PIPELINE = 2
    EXT_MAX = 2
    RES_MAX = 1
    MAX_STROKES = 3
    MinPayload <- MCMinPayload
    Sink <- MCSink
    Items <- MCItems
INVARIANTS
    TypeOK
    InStep
    WholePicture
PROPERTY
    PublishesWhatWasSent
