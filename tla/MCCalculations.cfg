SPECIFICATION CalcSpec
CONSTANTS
    BYTE = 16
    COORD = 64
    SUBTYPES = 2
    HELLO = 6
    KEEPALIVE = 11
    MAX_PIPELINE = 200
    EXT_MAX = 129
    Commands <- MCCommands
    NoisyBytes <- MCNoisyBytes
    RES = 15
    Outputs <- MCOutputs
    MARGIN = 2
    Ends <- MCEnds
    OCTET = 16
    GRID_MAX = 9
    Shapes <- MCShapes
    Lengths <- MCLengths
INVARIANTS
    ArrivesAsMeant
    TakenForOneCommand
    Nearest
    OnTheLine
    TracesTheShape
PROPERTIES
    NeverTurns
    OneStepAlongTheLonger
    LineEnds
CHECK_DEADLOCK FALSE
