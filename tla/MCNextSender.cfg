SPECIFICATION FairSpec
CONSTANTS
    WRAP = 12
    IDLE_TIMEOUT = 5
    PASS_MAX = 3
    BAUD_OPTIONS <- MCFewBauds
    UART_BAUD = 1280000
    UART_CLOCK = 256000000
    Buttons = {b1}
PROPERTY
    PlainPeerGetsSync
