------------------------------- MODULE UartRx -------------------------------
(***************************************************************************)
(* The receive path of src/uart_rx.c: the mini-UART's FIFO, and the ring   *)
(* buffer that drain_fifo moves bytes into and the main loop takes them    *)
(* out of.  drain_fifo runs from the main loop's polls and, in a           *)
(* VT_UART_IRQ build, from the AUX interrupt as well, between any two      *)
(* memory accesses of the main loop while interrupts are on.               *)
(*                                                                         *)
(* Bytes are numbered as they arrive.  The handler moves one byte at a     *)
(* time here: returning between two is no different from the second's      *)
(* arriving a little later.  Storing a byte is one step, since whoever     *)
(* stores cannot be interrupted and only the consumer moves rx_tail.       *)
(***************************************************************************)
EXTENDS Integers, Sequences

CONSTANTS
    RXBUF_SIZE,    \* bytes in the ring, a power of two
    FIFO_DEPTH,    \* bytes the hardware FIFO holds
    VT_UART_IRQ,   \* is the interrupt in use?
    MAX_ARRIVALS   \* bound on the bytes that arrive

VARIABLES
    rxbuf, rx_head, rx_tail, rx_drops,
    fifo,          \* the hardware's; what it drops nobody counts
    pc,            \* where the main loop is, by the name of the next access
    reg,           \* what it has read and not used yet
    got,           \* what uart_rx_get returned last, 0 before it did
    arrived        \* how many bytes came over the line

ring == <<rxbuf, rx_head, rx_tail, rx_drops>>
vars == <<ring, fifo, pc, reg, got, arrived>>

ASSUME UartAssumption ==
    /\ RXBUF_SIZE \in Nat /\ RXBUF_SIZE > 1 /\ FIFO_DEPTH \in Nat \ {0}
    /\ VT_UART_IRQ \in BOOLEAN /\ MAX_ARRIVALS \in Nat

Data == 1 .. MAX_ARRIVALS
Indices == 0 .. RXBUF_SIZE - 1

-----------------------------------------------------------------------------
FollowingUnmasked(i) == i + 1    \* mutant of Following

\* (i + 1) & RXBUF_MASK
Following(i) == IF i + 1 = RXBUF_SIZE THEN 0 ELSE i + 1

\* A byte comes over the line.
Arrive ==
    /\ arrived < MAX_ARRIVALS
    /\ arrived' = arrived + 1
    /\ fifo' = IF Len(fifo) < FIFO_DEPTH THEN Append(fifo, arrived + 1) ELSE fifo
    /\ UNCHANGED <<ring, pc, reg, got>>

FullEarly == Following(Following(rx_head)) = rx_tail    \* mutant of Full

Full == Following(rx_head) = rx_tail

\* The rest of one turn of drain_fifo's loop, with the byte b in hand.
Store(b) ==
    /\ IF Full
       THEN rx_drops' = rx_drops + 1 /\ UNCHANGED <<rxbuf, rx_head>>
       ELSE /\ rxbuf' = [rxbuf EXCEPT ![rx_head] = b]
            /\ rx_head' = Following(rx_head)
            /\ UNCHANGED rx_drops
    /\ UNCHANGED <<rx_tail, got, arrived>>

MaskedNever == FALSE    \* mutant of Masked: the poll leaves interrupts on

\* The main loop drains with interrupts off.
Draining == pc \in {"poll", "flush"}
Storing == pc \in {"poll_store", "flush_store"}
Masked == Draining \/ Storing

\* The handler, which runs drain_fifo on its own.
Interrupt ==
    /\ VT_UART_IRQ /\ ~Masked
    /\ fifo # <<>>
    /\ fifo' = Tail(fifo)
    /\ Store(Head(fifo))
    /\ UNCHANGED <<pc, reg>>

\* uart_rx_poll and uart_rx_flush begin alike: they drain until the FIFO is
\* empty.  Then the poll is over, and the flush goes on.
Call == /\ pc = "main"
        /\ pc' \in {"poll", "flush"}
        /\ UNCHANGED <<ring, fifo, reg, got, arrived>>

DrainTake == /\ Draining /\ fifo # <<>>
             /\ reg' = Head(fifo)
             /\ fifo' = Tail(fifo)
             /\ pc' = IF pc = "poll" THEN "poll_store" ELSE "flush_store"
             /\ UNCHANGED <<ring, got, arrived>>

DrainStore == /\ Storing
              /\ Store(reg)
              /\ pc' = IF pc = "poll_store" THEN "poll" ELSE "flush"
              /\ UNCHANGED <<fifo, reg>>

Drained == /\ Draining /\ fifo = <<>>
           /\ pc' = IF pc = "poll" THEN "main" ELSE "flush_head"
           /\ UNCHANGED <<ring, fifo, reg, got, arrived>>

\* rx_tail = rx_head, a read and a write.
FlushHead == /\ pc = "flush_head"
             /\ reg' = rx_head
             /\ pc' = "flush_tail"
             /\ UNCHANGED <<ring, fifo, got, arrived>>

FlushTail == /\ pc = "flush_tail"
             /\ rx_tail' = reg
             /\ pc' = "main"
             /\ UNCHANGED <<rxbuf, rx_head, rx_drops, fifo, reg, got, arrived>>

\* uart_rx_get: the test, the read of the byte and the move of the tail.
Get == /\ pc = "main"
       /\ rx_head # rx_tail
       /\ pc' = "get_byte"
       /\ UNCHANGED <<ring, fifo, reg, got, arrived>>

GetByte == /\ pc = "get_byte"
           /\ reg' = rxbuf[rx_tail]
           /\ pc' = "get_tail"
           /\ UNCHANGED <<ring, fifo, got, arrived>>

GetTail == /\ pc = "get_tail"
           /\ rx_tail' = Following(rx_tail)
           /\ got' = reg
           /\ pc' = "main"
           /\ UNCHANGED <<rxbuf, rx_head, rx_drops, fifo, reg, arrived>>

\* RPI_AuxMiniUartInit, which empties the FIFO and switches its interrupt off,
\* and uart_rx_init, which switches it on again at its end.
Restart == /\ pc = "main"
           /\ fifo' = <<>>
           /\ rx_head' = 0 /\ rx_tail' = 0 /\ rx_drops' = 0
           /\ UNCHANGED <<rxbuf, pc, reg, got, arrived>>

Init == /\ rxbuf = [i \in Indices |-> 0]
        /\ rx_head = 0 /\ rx_tail = 0 /\ rx_drops = 0
        /\ fifo = <<>> /\ pc = "main" /\ reg = 0 /\ got = 0 /\ arrived = 0

Next == \/ Arrive \/ Interrupt
        \/ Call \/ DrainTake \/ DrainStore \/ Drained \/ FlushHead \/ FlushTail
        \/ Get \/ GetByte \/ GetTail \/ Restart

Spec == Init /\ [][Next]_vars

-----------------------------------------------------------------------------
TypeOK ==
    /\ rxbuf \in [Indices -> 0 .. MAX_ARRIVALS]
    /\ rx_head \in Indices /\ rx_tail \in Indices /\ rx_drops \in Nat
    /\ fifo \in Seq(Data) /\ Len(fifo) <= FIFO_DEPTH
    /\ pc \in {"main", "poll", "flush", "poll_store", "flush_store", "flush_head",
               "flush_tail", "get_byte", "get_tail"}
    /\ reg \in Nat /\ got \in 0 .. MAX_ARRIVALS
    /\ arrived \in 0 .. MAX_ARRIVALS

\* What is in the ring, oldest first.
Ahead(i, k) == IF i + k < RXBUF_SIZE THEN i + k ELSE i + k - RXBUF_SIZE
Gap(h, t) == IF h >= t THEN h - t ELSE h - t + RXBUF_SIZE
Window(buf, t, n) == [k \in 1 .. n |-> buf[Ahead(t, k - 1)]]
Content == Window(rxbuf, rx_tail, Gap(rx_head, rx_tail))

\* The ring is a queue of RXBUF_SIZE - 1 bytes, whatever the interrupt does
\* between two accesses of the main loop (uart_rx.c:18-20).
Queue == INSTANCE ByteQueue WITH
            CAPACITY <- RXBUF_SIZE - 1, queue <- Content, out <- got, refused <- rx_drops
IsAQueue == Queue!QueueSpec

\* Bytes reach the main loop in the order they came over the line, none twice
\* and none invented: what it got last is older than all the ring holds, which
\* is older than all the FIFO holds (uart_rx.h:5-12).
Coming == Content \o (IF Storing THEN <<reg>> ELSE <<>>) \o fifo
InOrder ==
    /\ \A i, j \in 1 .. Len(Coming) : i < j => Coming[i] < Coming[j]
    /\ \A i \in 1 .. Len(Coming) : got < Coming[i] /\ Coming[i] <= arrived
=============================================================================
