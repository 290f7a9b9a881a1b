------------------------------ MODULE MCUartRx ------------------------------
(* A ring of four bytes behind a FIFO of two; eight bytes wrap it twice    *)
(* over and overfill it.                                                   *)
EXTENDS UartRx
=============================================================================
