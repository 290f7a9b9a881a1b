------------------------------- MODULE EmuE2E -------------------------------
(***************************************************************************)
(* The end-to-end emulation, tools/emu/emu_vekterm.c.  Three actors: the   *)
(* thread that runs vekterm's main loop and captures the segments it lights*)
(* in segs; the sender, a child process at the other end of a PTY; and the *)
(* tool itself, which waits for the child to exit, empties segs, waits a   *)
(* while and renders what was captured since.                              *)
(*                                                                         *)
(* The sender is not in the repository.  It waits for a ready byte before  *)
(* each frame and reads all that piled up, and it can fail at any time.  A *)
(* frame is one item on the PTY, which holds fewer bytes than the ring rb: *)
(* what is lost of a frame is Receiver's subject, and the receiver's 30    *)
(* seconds of inactivity do not pass here.  libpitrex queues a picture and *)
(* plays it in the next v_WaitRecal, since its pipeline is on.             *)
(***************************************************************************)
EXTENDS Integers, Sequences

CONSTANTS
    FRAMES,      \* frames the sender sends, --frames
    SEGMENTS,    \* lit segments of a picture
    PASSES       \* main-loop passes that surely end while the tool sleeps: its
                 \* 200 ms are longer than three of at most VT_RX_TIMEOUT_US

VARIABLES
    pc,          \* where vekterm's main loop is
    held,        \* the frame it holds, Splash when none
    queued, left,   \* the picture in the pipeline; its segments yet to be lit
    pty, rb,     \* frames on the PTY and in the ring
    ready,       \* a ready byte waits for the sender
    sent, child, \* the sender: frames sent; running, or how it ended
    segs,        \* segments captured, as <<picture, segment>>
    tool,        \* what the tool is at
    passes,      \* since the clear, up to PASSES
    cleared      \* ghost: the picture in the pipeline at the clear

loop == <<pc, held, queued, left>>
capture == <<segs, tool, passes, cleared>>
emu_vars == <<loop, pty, rb, ready, sent, child, capture>>

ASSUME EmuAssumption ==
    FRAMES \in Nat \ {0} /\ SEGMENTS \in Nat \ {0} /\ PASSES \in Nat /\ PASSES >= 3

Splash == 0
Least(a, b) == IF a < b THEN a ELSE b

-----------------------------------------------------------------------------
(* vekterm's thread.                                                       *)

uart_rx_poll ==
    /\ pc = "receive" /\ pty # <<>>
    /\ rb' = rb \o pty
    /\ pty' = <<>>
    /\ UNCHANGED <<loop, ready, sent, child, capture>>

\* A frame ends the wait; the next one stays in the ring.
uart_rx_get ==
    /\ pc = "receive" /\ rb # <<>>
    /\ held' = Head(rb)
    /\ rb' = Tail(rb)
    /\ pc' = "wait_recal"
    /\ UNCHANGED <<queued, left, pty, ready, sent, child, capture>>

RxTimeout ==
    /\ pc = "receive" /\ rb = <<>>
    /\ pc' = "wait_recal"
    /\ UNCHANGED <<held, queued, left, pty, rb, ready, sent, child, capture>>

\* v_WaitRecal plays the picture queued before, one segment at a time.
on_line ==
    /\ pc = "wait_recal" /\ left > 0
    /\ segs' = segs \cup {<<queued, left>>}
    /\ left' = left - 1
    /\ UNCHANGED <<pc, held, queued, pty, rb, ready, sent, child, tool, passes, cleared>>

DrawHeld ==
    /\ pc = "wait_recal" /\ left = 0
    /\ queued' = held
    /\ left' = SEGMENTS
    /\ pc' = "flush"
    /\ UNCHANGED <<held, pty, rb, ready, sent, child, capture>>

uart_rx_flush ==
    /\ pc = "flush"
    /\ rb' = <<>> /\ pty' = <<>>
    /\ pc' = "reply"
    /\ UNCHANGED <<held, queued, left, ready, sent, child, capture>>

ToldNothing == ready    \* mutant of Told: the byte is not written
Told == TRUE

\* RPI_AuxMiniUartWrite of the ready byte, and the next pass.
Reply ==
    /\ pc = "reply"
    /\ ready' = Told
    /\ pc' = "receive"
    /\ passes' = IF tool = "usleep" THEN Least(passes + 1, PASSES) ELSE passes
    /\ UNCHANGED <<held, queued, left, pty, rb, sent, child, segs, tool, cleared>>

vekterm_thread == uart_rx_poll \/ uart_rx_get \/ RxTimeout \/ on_line \/ DrawHeld
                    \/ uart_rx_flush \/ Reply

-----------------------------------------------------------------------------
(* The sender.                                                             *)

SendFrame ==
    /\ child = "running" /\ ready /\ sent < FRAMES
    /\ ready' = FALSE
    /\ sent' = sent + 1
    /\ pty' = Append(pty, sent + 1)
    /\ UNCHANGED <<loop, rb, child, capture>>

SenderExits ==
    /\ child = "running" /\ sent = FRAMES
    /\ child' = "exited"
    /\ UNCHANGED <<loop, pty, rb, ready, sent, capture>>

SenderFails ==
    /\ child = "running"
    /\ child' = "failed"
    /\ UNCHANGED <<loop, pty, rb, ready, sent, capture>>

-----------------------------------------------------------------------------
(* The tool.                                                               *)

KeptSegs == segs    \* mutant of NoSegs: nsegs is left as it is
NoSegs == {}

\* waitpid returns, whatever the status; nsegs = 0 under the lock.
Clear ==
    /\ tool = "waitpid" /\ child # "running"
    /\ segs' = NoSegs
    /\ tool' = "usleep"
    /\ cleared' = queued
    /\ UNCHANGED <<loop, pty, rb, ready, sent, child, passes>>

SleptOnce == passes >= 1    \* mutant of SleptOver: a shorter sleep
SleptOver == passes = PASSES

\* render holds the lock from its count to the last segment; then the tool
\* exits, and the thread with it.
render ==
    /\ tool = "usleep" /\ SleptOver
    /\ tool' = "rendered"
    /\ UNCHANGED <<loop, pty, rb, ready, sent, child, segs, passes, cleared>>

EmuInit ==
    /\ pc = "reply" /\ held = Splash /\ queued = Splash /\ left = 0
    /\ pty = <<>> /\ rb = <<>> /\ ready = FALSE
    /\ sent = 0 /\ child = "running"
    /\ segs = {} /\ tool = "waitpid" /\ passes = 0 /\ cleared = Splash

EmuNext ==
    /\ tool # "rendered"
    /\ vekterm_thread \/ SendFrame \/ SenderExits \/ SenderFails \/ Clear \/ render

EmuSpec ==
    /\ EmuInit /\ [][EmuNext]_emu_vars
    /\ WF_emu_vars(EmuNext /\ vekterm_thread) /\ WF_emu_vars(EmuNext /\ (SendFrame \/ SenderExits))
    /\ WF_emu_vars(EmuNext /\ (Clear \/ render))

-----------------------------------------------------------------------------
\* Once a frame was drawn before the clear, neither the splash nor a frame older
\* than the one drawn gets into the rendering (emu_vekterm.c:204-206), though the
\* picture on its way then is not the one the receiver holds.
StreamedOnceDrawn ==
    tool = "rendered" /\ cleared # Splash => \A s \in segs : s[1] >= cleared

\* The rendering has all of the last frame received (or of the splash), wherever
\* in a pass the clear fell and whatever was still on its way then.
LastReceivedWhole ==
    tool = "rendered" => \A k \in 1 .. SEGMENTS : <<held, k>> \in segs

\* Sender and receiver do not wait for each other for ever: it ends.
Renders == <>(tool = "rendered")
=============================================================================
