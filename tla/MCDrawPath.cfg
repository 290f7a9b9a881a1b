SPECIFICATION Spec
CONSTANTS
    BYTE = 16
    SCALE_STRENGTH_DIF = 1
    UINT = 65536
    PSG_BUTTONS = 14
    MAX_USED_STRENGTH = 5
    MINSCALE = 1
    POSITION_MARGIN = 1
    MAX_CONSECUTIVE_DRAWS = 2
    SCALE_JUMP = 2
    FAR = 15
    MAX_SCALE = 5
    Vectors <- MCVectors
    Splashes <- MCSplashes
    MAX_CALLS = 4
INVARIANTS
    OneLineEach
    Straight
    DriftBounded
CHECK_DEADLOCK FALSE
