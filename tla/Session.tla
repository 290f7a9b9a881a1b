------------------------------ MODULE Session ------------------------------
(***************************************************************************)
(* What src/vekterm_baremetal.c keeps from one pass of its main loop to    *)
(* the next, over hours rather than bytes: the held frame and the 32-bit   *)
(* microsecond counter its inactivity timeout reads, the buttons and the   *)
(* baud cycler of the splash, and the reply format negotiated with one     *)
(* sender after another.                                                   *)
(*                                                                         *)
(* Receiver has the bytes.  Here a pass is a wait that ends with a frame,  *)
(* a keepalive or nothing, and then a draw, with the flush and the resync  *)
(* left out; senders and fingers act at any moment.                        *)
(***************************************************************************)
EXTENDS Integers, Sequences

CONSTANTS
    WRAP,          \* 2^32: counter_lo counts microseconds modulo WRAP
    IDLE_TIMEOUT,  \* VT_IDLE_TIMEOUT_US
    PASS_MAX,      \* bound on the time from one look at the clock to the next
    BAUD_OPTIONS,  \* VT_BAUD_OPTIONS, as a sequence
    UART_BAUD,     \* VT_UART_BAUD
    UART_CLOCK,    \* VT_UART_CLOCK
    Buttons        \* the bits of v_readButtons

VARIABLES
    pc,            \* "wait" for a frame, then "draw"
    now,           \* counter_lo when the loop last looked at it
    last_activity,
    g_have_frame, g_peer_v2,
    g_baud_idx, g_cur_baud,
    mu_baud,       \* the divisor in the mini-UART's MU_BAUD register
    prev,          \* handle_splash_buttons: the buttons it saw last
    down,          \* the buttons that are down
    peer,          \* the sender on the line: "none", "v1" or "v2"
    reply,         \* the last ready reply: "sync" or "record"
    since,         \* ghost: time since the last activity, up to IDLE_TIMEOUT
    image,         \* ghost: a frame came and its sender never fell silent since
    fresh          \* ghost: the buttons pressed since the rate last changed

clock == <<now, last_activity, g_have_frame, since, image>>
dial  == <<g_baud_idx, g_cur_baud, mu_baud, prev>>
vars  == <<pc, clock, dial, g_peer_v2, down, peer, reply, fresh>>

ASSUME SessionAssumption ==
    /\ PASS_MAX \in Nat \ {0} /\ IDLE_TIMEOUT \in Nat \ {0} /\ WRAP \in Nat
    /\ IDLE_TIMEOUT + PASS_MAX <= WRAP

ASSUME BaudAssumption ==
    /\ BAUD_OPTIONS \in Seq(Nat \ {0}) /\ Len(BAUD_OPTIONS) > 0
    /\ UART_BAUD \in Nat \ {0} /\ UART_CLOCK \in Nat

-----------------------------------------------------------------------------
Widened(a, b) == a + b    \* mutant of Plus: in more than 32 bits

\* Unsigned 32-bit arithmetic.
Plus(a, b) == IF a + b < WRAP THEN a + b ELSE a + b - WRAP
Minus(a, b) == IF a >= b THEN a - b ELSE a - b + WRAP

\* RPI_AuxMiniUartInit, whose division truncates.
divisor(baud) == UART_CLOCK \div (8 * baud) - 1

SilentPast(t) == t >= last_activity + IDLE_TIMEOUT    \* mutant: overlooks the wrap

\* At the time t nobody has been heard for too long.
Silent(t) == Minus(t, last_activity) >= IDLE_TIMEOUT

\* What the wait brought: on_frame, on_keepalive, or a closed window.
Wait(what, t) ==
    /\ pc = "wait"
    /\ pc' = "draw"
    /\ now' = t
    /\ last_activity' = IF what = "nothing" THEN last_activity ELSE t
    /\ g_have_frame' = (what = "frame" \/ (g_have_frame /\ ~(what = "nothing" /\ Silent(t))))
    /\ UNCHANGED <<dial, g_peer_v2, down, peer, reply, fresh>>

\* The truth of it: dt passed since the loop last looked.
Passing(what, dt) ==
    /\ since' = IF what # "nothing" THEN 0
                ELSE IF since + dt < IDLE_TIMEOUT THEN since + dt ELSE IDLE_TIMEOUT
    /\ image' = (what = "frame" \/ (image /\ since' < IDLE_TIMEOUT))

Receive == \E what \in {"frame", "keepalive", "nothing"}, dt \in 1 .. PASS_MAX :
              /\ what # "nothing" => peer # "none"
              /\ Wait(what, Plus(now, dt))
              /\ Passing(what, dt)

Level(before) == down    \* mutant of Pressed: no edge detection

\* handle_splash_buttons and set_baud: a button that was up when the splash
\* last looked and is down now moves the cycler on.
Pressed(before) == down \ before

Cycle ==
    LET i == (g_baud_idx + 1) % Len(BAUD_OPTIONS)
    IN  IF Pressed(prev) = {} THEN UNCHANGED <<g_baud_idx, g_cur_baud, mu_baud, fresh>>
        ELSE /\ g_baud_idx' = i
             /\ g_cur_baud' = BAUD_OPTIONS[i + 1]
             /\ mu_baud' = divisor(BAUD_OPTIONS[i + 1])
             /\ fresh' = {}

\* Draw what is held or the splash, then send the ready reply.
Show ==
    /\ pc = "draw"
    /\ pc' = "wait"
    /\ IF g_have_frame THEN UNCHANGED <<dial, fresh>> ELSE Cycle /\ prev' = down
    /\ reply' = IF g_peer_v2 THEN "record" ELSE "sync"
    /\ UNCHANGED <<clock, g_peer_v2, down, peer>>

-----------------------------------------------------------------------------
(* The world: senders come and go, and only a v2 sender probes; fingers    *)
(* press buttons.                                                          *)
Hello ==
    /\ pc = "wait" /\ peer = "v2"
    /\ g_peer_v2' = TRUE
    /\ UNCHANGED <<pc, clock, dial, down, peer, reply, fresh>>

Plug == /\ peer' \in {"none", "v1", "v2"}
        /\ (peer = "none" \/ peer' = "none")
        /\ UNCHANGED <<pc, clock, dial, g_peer_v2, down, reply, fresh>>

Press(b) == /\ b \notin down
            /\ down' = down \union {b}
            /\ fresh' = fresh \union {b}
            /\ UNCHANGED <<pc, clock, dial, g_peer_v2, peer, reply>>

Release(b) == /\ b \in down
              /\ down' = down \ {b}
              /\ UNCHANGED <<pc, clock, dial, g_peer_v2, peer, reply, fresh>>

\* main up to its loop, at whatever time; prev is a zeroed static.
Init ==
    /\ pc = "wait"
    /\ now \in 0 .. WRAP - 1 /\ last_activity = now
    /\ g_have_frame = FALSE /\ g_peer_v2 = FALSE
    /\ g_cur_baud = UART_BAUD /\ mu_baud = divisor(UART_BAUD)
    /\ LET found == {i \in DOMAIN BAUD_OPTIONS : BAUD_OPTIONS[i] = UART_BAUD}
       IN  IF found = {} THEN g_baud_idx = 0
           ELSE \E i \in found : (\A j \in found : i <= j) /\ g_baud_idx = i - 1
    /\ prev = {} /\ down = {}
    /\ peer = "none" /\ reply = "sync"
    /\ since = 0 /\ image = FALSE /\ fresh = {}

Next == \/ Receive \/ Show \/ Hello \/ Plug
        \/ \E b \in Buttons : Press(b) \/ Release(b)

Spec == Init /\ [][Next]_vars

\* The loop never stops.
FairSpec == Spec /\ WF_vars(Receive \/ Show)

-----------------------------------------------------------------------------
TypeOK ==
    /\ pc \in {"wait", "draw"}
    /\ now \in 0 .. WRAP - 1 /\ last_activity \in 0 .. WRAP - 1
    /\ g_have_frame \in BOOLEAN /\ g_peer_v2 \in BOOLEAN /\ image \in BOOLEAN
    /\ g_baud_idx \in 0 .. Len(BAUD_OPTIONS) - 1 /\ g_cur_baud \in Nat
    /\ prev \subseteq Buttons /\ down \subseteq Buttons /\ fresh \subseteq Buttons
    /\ peer \in {"none", "v1", "v2"} /\ reply \in {"sync", "record"}
    /\ since \in 0 .. IDLE_TIMEOUT

\* A frame is held exactly while its sender has not been silent for
\* IDLE_TIMEOUT, however often the counter wraps meanwhile: the image never
\* lingers and is never dropped early (vekterm_baremetal.c:86-90).
HeldWhileAlive == g_have_frame <=> image

\* One press steps once: the rate never changes twice for the same press, held
\* through however many passes and frames (vekterm_baremetal.c:307-309).
OnePressOneStep == [][g_baud_idx' # g_baud_idx => fresh # {}]_vars

\* A v1 sender, which never probes, is sent the plain sync byte
\* (vekterm_baremetal.c:119-120).
PlainPeerGetsSync == [][pc = "draw" /\ pc' = "wait" /\ peer = "v1" => reply' = "sync"]_vars
=============================================================================
