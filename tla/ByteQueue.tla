----------------------------- MODULE ByteQueue -----------------------------
(***************************************************************************)
(* What uart_rx promises the main loop: a queue of CAPACITY bytes between  *)
(* one producer and one consumer.  A byte is refused, and counted, only    *)
(* when the queue is full; bytes come out in the order they went in; and   *)
(* the oldest ones can be thrown away.                                     *)
(***************************************************************************)
EXTENDS Naturals, Sequences

CONSTANTS Data, CAPACITY

VARIABLES queue, out, refused    \* refused: since the last restart

queueVars == <<queue, out, refused>>

QueueInit == queue = <<>> /\ out = 0 /\ refused = 0

Put == /\ Len(queue) < CAPACITY
       /\ \E b \in Data : queue' = Append(queue, b)
       /\ UNCHANGED <<out, refused>>

Refuse == /\ Len(queue) = CAPACITY
          /\ refused' = refused + 1
          /\ UNCHANGED <<queue, out>>

Take == /\ queue # <<>>
        /\ out' = Head(queue)
        /\ queue' = Tail(queue)
        /\ UNCHANGED refused

Discard == /\ \E k \in 0 .. Len(queue) : queue' = SubSeq(queue, k + 1, Len(queue))
           /\ UNCHANGED <<out, refused>>

Restart == queue' = <<>> /\ refused' = 0 /\ UNCHANGED out

QueueNext == Put \/ Refuse \/ Take \/ Discard \/ Restart

QueueSpec == QueueInit /\ [][QueueNext]_queueVars
=============================================================================
