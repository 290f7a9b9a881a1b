SPECIFICATION EmuSpec
CONSTANTS
    FRAMES = 3
    SEGMENTS = 3
    PASSES = 3
INVARIANTS
    StreamedOnceDrawn
    LastReceivedWhole
PROPERTIES
    Renders
CHECK_DEADLOCK FALSE
