SPECIFICATION Spec
CONSTANTS
    RXBUF_SIZE = 4
    FIFO_DEPTH = 2
    VT_UART_IRQ = TRUE
    MAX_ARRIVALS = 8
INVARIANTS
    TypeOK
    InOrder
PROPERTY
    IsAQueue
