------------------------------ MODULE Receiver ------------------------------
(***************************************************************************)
(* The main loop of src/vekterm_baremetal.c with its parser, the receive   *)
(* path of src/uart_rx.c under it, and a sender at the other end of the    *)
(* link.  One pass of the loop is: receive until a frame or a keepalive    *)
(* arrived or the window closed; draw what is held; flush and resync;      *)
(* reply that it is ready.                                                 *)
(*                                                                         *)
(* Time advances in byte times: in one, the sender puts a byte on the line *)
(* or is silent.  The processor is fast beside the line: while it polls,   *)
(* it has dealt with a byte before the next one arrives.  While it draws   *)
(* it does not poll, and bytes pile up in the mini-UART's FIFO.            *)
(*                                                                         *)
(* t0 and last_activity are kept as the time passed since; that the        *)
(* unsigned differences the code computes are those times although the     *)
(* timer wraps is Session's subject, and so is the baud cycler: nobody     *)
(* presses a button here.  VT_RX_SPINS, which ends the wait when the timer *)
(* itself stands still, and the measured draw_us are left out.             *)
(***************************************************************************)
EXTENDS Drawing, Protocol

CONSTANTS
    Messages,      \* what a sender sends for one ready reply: sequences of items
    RX_TIMEOUT,    \* VT_RX_TIMEOUT_US, in byte times
    IDLE_TIMEOUT,  \* VT_IDLE_TIMEOUT_US, in byte times
    FIFO_DEPTH,    \* bytes the mini-UART's receive FIFO holds; the ring is larger
    VECTREX_MIN, VECTREX_MAX, BRIGHT_SHIFT,
    PROMPT,        \* does the sender answer a ready reply at once, without pauses?
    SLACK,         \* byte times within which a prompt sender starts
    MAX_CREDITS    \* bound on the ready replies a sender lets pile up

VARIABLES
    pc,            \* where the main loop is
    parser, fifo, ring,
    g_draw,        \* g_draw, g_draw_count and g_overflow: the frame to draw
    g_have_frame, g_activity, g_peer_v2,
    reply,         \* the last ready reply
    elapsed,       \* now - t0
    idle,          \* now - last_activity, up to IDLE_TIMEOUT
    screen,        \* what the loop drew last
    tx,            \* the sender: bytes of the message it has yet to send
    msg,           \* ... and that message, or the last one
    credits,       \* ... ready replies received and not used
    age,           \* ... byte times since the last one, up to SLACK + 1
    quiet,         \* ghost: nothing was sent since the last flush
    clean,         \* ghost: msg was sent into a quiet receive phase, so far in one
    owed           \* ghost: the frame msg is, sent in full and not published yet

globals == <<g_draw, g_have_frame, g_activity, g_peer_v2>>
board   == <<pc, parser, ring, globals, screen, reply>>
sender  == <<tx, msg, credits, age>>
vars == <<board, fifo, elapsed, idle, sender, quiet, clean, owed>>

ASSUME ReceiverAssumption ==
    /\ RX_TIMEOUT \in Nat \ {0} /\ IDLE_TIMEOUT \in Nat \ {0}
    /\ FIFO_DEPTH \in Nat \ {0}
    /\ PROMPT \in BOOLEAN /\ SLACK \in Nat /\ MAX_CREDITS \in Nat \ {0}
    /\ Messages \subseteq Seq(Items)
    /\ {"frame", "query", "keepalive"} \subseteq Sink    \* what main sets

Splash == [splash |-> TRUE]

-----------------------------------------------------------------------------
(* The sender.                                                             *)

IsFrame(m) == m[Len(m)].flag = "COMPLETE"
HasHeader(m) == m[1].flag = "FRAME"

\* on_frame: coordinates mapped and intensity shifted onto the Vectrex.
Mapped(frame) ==
    LET place(x) == vt_map_coord(x, RES_MAX, VECTREX_MIN, VECTREX_MAX)
    IN  [segments |-> [i \in DOMAIN frame.segments |->
                         [from |-> place(frame.segments[i].from),
                          to   |-> place(frame.segments[i].to),
                          z    |-> frame.segments[i].z \div 2 ^ BRIGHT_SHIFT]],
         overflow |-> frame.overflow]

\* The picture each frame message is.
Picture == [m \in {n \in Messages : IsFrame(n)} |-> Mapped(Last(Composed(m).out))]
Frames == {Picture[m] : m \in DOMAIN Picture}

Smaller(a, b) == IF a < b THEN a ELSE b

\* A sender that has a ready reply in hand may send a message; it uses one
\* reply for it.
Start(m) ==
    /\ tx = <<>> /\ credits > 0
    /\ tx' = Spelt(m)
    /\ msg' = m
    /\ credits' = credits - 1
    /\ clean' = (pc = "receive" /\ quiet)
    /\ UNCHANGED <<board, fifo, elapsed, idle, age, quiet, owed>>

\* Time passes only when the polling loop has nothing left to do.
Polled == pc = "receive" => ~g_activity /\ ring = <<>> /\ fifo = <<>> /\ elapsed < RX_TIMEOUT

Tick ==
    /\ Polled
    /\ elapsed' = IF pc = "receive" THEN elapsed + 1 ELSE elapsed
    /\ idle' = Smaller(idle + 1, IDLE_TIMEOUT)
    /\ age' = Smaller(age + 1, SLACK + 1)
    /\ credits' = IF PROMPT /\ age >= SLACK THEN 0 ELSE credits
    /\ UNCHANGED <<board, msg>>

\* The sender puts a byte on the line; the FIFO drops it when it is full.
Byte ==
    /\ tx # <<>>
    /\ Tick
    /\ tx' = Tail(tx)
    /\ fifo' = IF Len(fifo) < FIFO_DEPTH THEN Append(fifo, Head(tx)) ELSE fifo
    /\ quiet' = FALSE
    /\ clean' = (clean /\ pc = "receive")
    /\ owed' = IF tx' = <<>> /\ IsFrame(msg) THEN Picture[msg] ELSE owed

Silence ==
    /\ tx # <<>> => ~PROMPT
    /\ Tick
    /\ UNCHANGED <<tx, fifo, quiet, clean, owed>>

-----------------------------------------------------------------------------
(* The main loop.                                                          *)

\* uart_rx_poll drains the FIFO into the ring.  The loop empties the ring
\* before it polls again, and a ring that is larger than the FIFO then has room
\* for it: that it drops what it has no room for does not show here.
Poll ==
    /\ pc = "receive" /\ ~g_activity /\ elapsed < RX_TIMEOUT
    /\ ring = <<>> /\ fifo # <<>>
    /\ ring' = fifo
    /\ fifo' = <<>>
    /\ UNCHANGED <<pc, parser, globals, elapsed, idle, screen, reply, sender,
                   quiet, clean, owed>>

\* The callbacks; on_exit does nothing.  The descriptor on_query also writes
\* goes to the sender's side of the negotiation, which is Session's subject.
on_frame_unseen(frame) == \* mutant of on_frame: g_activity is not set
    /\ g_draw' = Mapped(frame) /\ g_have_frame' = TRUE /\ owed' = Splash
    /\ UNCHANGED <<g_activity, g_peer_v2>>

on_frame(frame) ==
    /\ g_draw' = Mapped(frame)
    /\ g_have_frame' = TRUE
    /\ g_activity' = TRUE
    /\ owed' = Splash
    /\ UNCHANGED g_peer_v2

on_keepalive ==
    /\ g_activity' = TRUE
    /\ UNCHANGED <<g_draw, g_have_frame, g_peer_v2, owed>>

on_query ==
    /\ g_peer_v2' = TRUE
    /\ UNCHANGED <<g_draw, g_have_frame, g_activity, owed>>

\* uart_rx_get and vt_parser_feed of one byte; nothing in this inner loop
\* looks at the time.
Get ==
    /\ pc = "receive" /\ ~g_activity /\ ring # <<>>
    /\ ring' = Tail(ring)
    /\ \E r \in vt_parser_feed(parser, Head(ring)) :
          /\ parser' = r.parser
          /\ CASE r.call.cb = "frame" -> on_frame(r.call.frame)
               [] r.call.cb = "keepalive" -> on_keepalive
               [] r.call.cb = "query" -> on_query
               [] OTHER -> UNCHANGED <<globals, owed>>
    /\ UNCHANGED <<pc, fifo, elapsed, idle, screen, reply, sender, quiet, clean>>

\* The wait is over.  `renewed' restarts the inactivity clock; otherwise a
\* held frame nobody renewed in time is dropped and `dropped' is left of it.
NoFrame == [segments |-> <<>>, overflow |-> FALSE]
TimedOut == ring = <<>> /\ elapsed >= RX_TIMEOUT

LeaveOf(over, renewed, dropped) ==
    /\ pc = "receive" /\ over
    /\ pc' = "draw"
    /\ idle' = IF renewed THEN 0 ELSE idle
    /\ IF ~renewed /\ g_have_frame /\ idle >= IDLE_TIMEOUT
       THEN g_have_frame' = FALSE /\ g_draw' = dropped
       ELSE UNCHANGED <<g_draw, g_have_frame>>
    /\ UNCHANGED <<parser, fifo, ring, g_activity, g_peer_v2, elapsed, screen,
                   reply, sender, quiet, clean, owed>>

\* Mutants of Leave: it does not wait; it takes every pass for activity; it
\* forgets g_draw_count = 0.
LeaveUnwaited == LeaveOf(g_activity \/ ring = <<>>, g_activity, NoFrame)
LeaveRenewed == LeaveOf(g_activity \/ TimedOut, TRUE, NoFrame)
LeaveUncleared == LeaveOf(g_activity \/ TimedOut, g_activity, g_draw)

Leave == LeaveOf(g_activity \/ TimedOut, g_activity, NoFrame)

\* v_WaitRecal and draw_active_frame or draw_idle_splash.
DrawPass ==
    /\ pc = "draw"
    /\ pc' = "flush"
    /\ screen' = IF g_have_frame THEN g_draw ELSE Splash
    /\ UNCHANGED <<parser, fifo, ring, globals, elapsed, idle, reply, sender,
                   quiet, clean, owed>>

\* uart_rx_flush and vt_parser_resync.
FlushTo(p) ==
    /\ pc = "flush"
    /\ pc' = "reply"
    /\ fifo' = <<>>
    /\ ring' = <<>>
    /\ parser' = p
    /\ quiet' = TRUE
    /\ clean' = (clean /\ tx = <<>>)
    /\ UNCHANGED <<globals, elapsed, idle, screen, reply, sender, owed>>

\* Mutants of Flush: without the resync; only once the line is quiet.
FlushOnly == FlushTo(parser)
FlushWhenQuiet == fifo = <<>> /\ ring = <<>> /\ FlushTo(vt_parser_resync(parser))

Flush == FlushTo(vt_parser_resync(parser))

\* send_sync_reply: the plain sync byte, or the record of a negotiated peer.
SyncByte == [v2 |-> FALSE]
Record == [v2 |-> TRUE, vectors |-> Len(g_draw.segments),
           overflow |-> g_draw.overflow, idle |-> ~g_have_frame]

\* It is sent, and the next pass begins.
ReplyAt(t) ==
    /\ pc = "reply"
    /\ pc' = "receive"
    /\ reply' = IF g_peer_v2 THEN Record ELSE SyncByte
    /\ elapsed' = t
    /\ g_activity' = FALSE
    /\ credits' = IF PROMPT THEN 1 ELSE Smaller(credits + 1, MAX_CREDITS)
    /\ age' = 0
    /\ UNCHANGED <<parser, fifo, ring, g_draw, g_have_frame, g_peer_v2, idle,
                   screen, tx, msg, quiet, clean, owed>>

ReplyLate == ReplyAt(elapsed)    \* mutant of Reply: t0 is not read anew
Reply == ReplyAt(0)

\* main up to its loop: everything is brought up, flushed and resynced, and
\* the first reply is about to be sent.
Init ==
    /\ pc = "reply"
    /\ parser = vt_parser_resync(vt_parser_init)
    /\ fifo = <<>> /\ ring = <<>>
    /\ g_draw = NoFrame /\ g_have_frame = FALSE /\ g_activity = FALSE
    /\ g_peer_v2 = FALSE
    /\ elapsed = 0 /\ idle = 0
    /\ screen = Splash /\ reply = SyncByte
    /\ tx = <<>> /\ msg = <<>> /\ credits = 0 /\ age = 0
    /\ quiet = TRUE /\ clean = FALSE /\ owed = Splash

Transmit == \E m \in Messages : Start(m)
Loop == Poll \/ Get \/ Leave \/ DrawPass \/ Flush \/ Reply
Next == Transmit \/ Byte \/ Silence \/ Loop

Spec == Init /\ [][Next]_vars

\* The loop never blocks, and time passes.
FairSpec == Spec /\ WF_vars(Loop) /\ WF_vars(Byte \/ Silence)

-----------------------------------------------------------------------------
TypeOK ==
    /\ pc \in {"receive", "draw", "flush", "reply"}
    /\ Len(parser.bytes) < WORD_BYTES
    /\ parser.ext_remaining > 0 => parser.bytes = <<>>
    /\ fifo \in Seq(Bytes) /\ Len(fifo) <= FIFO_DEPTH
    /\ ring \in Seq(Bytes) /\ Len(ring) <= FIFO_DEPTH
    /\ g_have_frame \in BOOLEAN /\ g_activity \in BOOLEAN /\ g_peer_v2 \in BOOLEAN
    /\ Len(g_draw.segments) <= MAX_PIPELINE
    /\ elapsed \in 0 .. RX_TIMEOUT /\ idle \in 0 .. IDLE_TIMEOUT
    /\ tx \in Seq(Bytes) /\ credits \in 0 .. MAX_CREDITS /\ age \in 0 .. SLACK + 1
    /\ quiet \in BOOLEAN /\ clean \in BOOLEAN /\ owed \in Frames \union {Splash}

\* A sender the flow control is made for: it answers a ready reply at once and
\* is done within the receive window, and a message of its is a frame or draws
\* nothing, with what ends the window only at its end.
EndsWindow(it) == it.flag = "COMPLETE" \/ (it.flag = "CMD" /\ it.cmd = "keepalive")

Timely ==
    /\ PROMPT /\ SLACK < RX_TIMEOUT
    /\ \A m \in Messages :
          /\ m # <<>> /\ SLACK + Len(Spelt(m)) < RX_TIMEOUT
          /\ Composed(m).drawn = NothingSent
          /\ \A i \in 1 .. Len(m) - 1 : ~EndsWindow(m[i])

\* The promise the flow control is there for: nothing arrives while vekterm
\* draws, flushes and replies (vekterm_baremetal.c:103-108 and 402-406).
NothingArrivesWhileDrawing ==
    pc # "receive" => tx = <<>> /\ fifo = <<>> /\ ring = <<>>

\* So the flush and the resync before each ready reply find nothing to discard:
\* no byte, no partial word, no half-gathered payload (uart_rx.h:28-30).
FlushDiscardsNothing == [][pc = "flush" /\ pc' = "reply" =>
                               UNCHANGED <<fifo, ring, parser>>]_vars

\* And the receiver keeps Display's promise: it shows whole frames the sender
\* composed, each taken up before the next, or the splash.
Shows == INSTANCE Display WITH
            Nothing <- Splash, inbox <- owed, screen <- screen,
            held <- IF g_have_frame THEN g_draw ELSE Splash
ImplementsDisplay == Shows!DisplaySpec

\* Whatever came before, torn messages and misread words included, a frame
\* that begins with a FRAME header and is sent within one quiet receive phase
\* is held, whole and unmixed, when the loop goes on to draw.
RecoversAtNextFrame ==
    (pc = "draw" /\ clean /\ ~quiet /\ tx = <<>> /\ fifo = <<>>
       /\ IsFrame(msg) /\ HasHeader(msg))
    => g_have_frame /\ g_draw = Picture[msg]

\* The record a negotiated peer receives describes what was just drawn.
ReplyDescribesScreen ==
    (pc = "receive" /\ reply.v2 /\ quiet /\ ~g_activity) =>
        IF screen = Splash
        THEN reply = [v2 |-> TRUE, vectors |-> 0, overflow |-> FALSE, idle |-> TRUE]
        ELSE reply = [v2 |-> TRUE, vectors |-> Len(screen.segments),
                      overflow |-> screen.overflow, idle |-> FALSE]

\* The loop never hangs, whatever arrives: a ready reply is always sent again,
\* so a sender waiting for one is not left waiting.
AlwaysReadyAgain == []<>(pc = "reply")

\* Once the sender is silent for good, the screen ends up on the splash and
\* stays there: no stale image lingers (vekterm_baremetal.c:86-90).
SilenceEndsInSplash == <>[](tx = <<>>) => <>[](screen = Splash)

\* Every frame handed over is eventually on the screen.
EveryFrameShown == \A f \in Frames : owed = f ~> screen = f
=============================================================================
