------------------------------ MODULE DrawPath ------------------------------
(***************************************************************************)
(* The emulator's direct draw path (tools/emu/emu_main.c): vectors go      *)
(* through libpitrex's v_directDraw32, which writes registers of Via and   *)
(* remembers what it wrote, so as not to write it again.  A run draws the  *)
(* vectors of a frame, or the strings of a splash.  A string of src/font.c *)
(* sets the scale it wants for its strokes and restores the old one behind *)
(* the library's back.  One call at a time, to the end.                    *)
(***************************************************************************)
EXTENDS Via

CONSTANTS
    UINT,              \* values of an unsigned int
    PSG_BUTTONS,       \* what v_readButtons leaves on port A: 14
    MAX_USED_STRENGTH, MINSCALE, POSITION_MARGIN, MAX_CONSECUTIVE_DRAWS,
    SCALE_JUMP, FAR,   \* when a move starts at the centre: 20 and 7000 in the code
    MAX_SCALE,         \* the largest scale Vectors and the moves between them need
    Vectors,           \* what is drawn: x0, y0, x1, y1, z
    Splashes,          \* splashes, sequences of strings: the scale one fixes, its strokes
    MAX_CALLS          \* bound: vectors of a frame

ASSUME DrawAssumption ==
    /\ MAX_USED_STRENGTH \in 1 .. HALF - 1 /\ MINSCALE \in Nat \ {0}
    /\ POSITION_MARGIN \in Nat /\ SCALE_JUMP \in Nat /\ MAX_CALLS \in Nat
    /\ UINT \in Nat \ {0} /\ PSG_BUTTONS \in 0 .. BYTE - 1
    /\ Vectors \subseteq [x0 : Int, y0 : Int, x1 : Int, y1 : Int, z : 0 .. BYTE - 1]

VARIABLES
    lib,     \* libpitrex's globals, and the VIA behind them
    job,     \* what the run draws: "frame", "splash", or nothing any more: "done"
    coming,  \* the splash's strings yet to begin
    strokes, \* of the string being drawn, yet to draw
    saved,   \* vt_draw_string's saved_scale, while it runs
    last,    \* the vector drawn last
    calls

vars == <<lib, job, coming, strokes, saved, last, calls>>

UNKNOWN == BYTE     \* "illegal values", so that the first write happens
NotSaved == -1
NoVector == [z |-> 0]

Lit   == [beam |-> TRUE, zero |-> FALSE]
Dark  == [beam |-> FALSE, zero |-> FALSE]
ToZero == [beam |-> FALSE, zero |-> TRUE]

Abs(n) == IF n < 0 THEN -n ELSE n
Larger(a, b) == IF a > b THEN a ELSE b

\* The last writes before anything is drawn, the multiplexer off.
v_readButtons(v) == vectrexwrite(vectrexwrite(v, "PORTA", PSG_BUTTONS), "PORTB", "off")

v_init ==
    [via |-> v_readButtons(vx_reset), portA |-> UNKNOWN, ysh |-> UNKNOWN, zsh |-> UNKNOWN,
     scale |-> 0, lastScale |-> 1, cx |-> 0, cy |-> 0, draws |-> 0]

SET(d, reg, data) == [d EXCEPT !.via = vectrexwrite(@, reg, data)]

SETPortA(d, b) == [(IF b # d.portA THEN SET(d, "PORTA", b) ELSE d) EXCEPT !.portA = b]

v_setBrightness(d, z) ==
    LET put == IF z = d.portA THEN d
               ELSE [SET(d, "PORTA", z) EXCEPT !.portA = Signed(z)]
    IN  IF z = d.zsh THEN d
        ELSE [SET(SET(put, "PORTB", "z"), "PORTB", "off") EXCEPT !.zsh = z]

\* The rate that makes a length in the ticks of the current scale.
Strength(d, len) == Unsigned(Quotient(len, d.scale + SCALE_STRENGTH_DIF))

SET_YSH16(d, len) ==
    LET t == Strength(d, len)
    IN  IF t = d.ysh THEN d ELSE [SETPortA(SET(d, "PORTB", "y"), t) EXCEPT !.ysh = t]

SET_XSH16(d, len) == SETPortA(SET(d, "PORTB", "off"), Strength(d, len))

START_T1_TIMER(d) ==
    SET(IF d.lastScale = d.scale THEN d ELSE SET(d, "T1CL", d.scale % BYTE),
        "T1CH", d.scale \div BYTE)

GET_OPTIMAL_SCALE(a, b) ==
    (Larger(Abs(a), Abs(b)) + MAX_USED_STRENGTH - 1) \div MAX_USED_STRENGTH

\* A move begins at the centre or where a vector ended.
ASSUME ScaleAssumption ==
    /\ MAX_SCALE \in Nat /\ MINSCALE <= MAX_SCALE
    /\ MAX_SCALE < BYTE * BYTE /\ MAX_SCALE + SCALE_JUMP < UINT
    /\ \A c \in Vectors :
          /\ GET_OPTIMAL_SCALE(c.x1 - c.x0, c.y1 - c.y0) <= MAX_SCALE
          /\ GET_OPTIMAL_SCALE(c.x0, c.y0) <= MAX_SCALE
          /\ \A b \in Vectors : GET_OPTIMAL_SCALE(c.x0 - b.x1, c.y0 - b.y1) <= MAX_SCALE

OPTIMAL_SCALE_only(d, a, b) == \* mutant of SET_OPTIMAL_SCALE: lastScale stays behind
    [d EXCEPT !.scale = Larger(MINSCALE, GET_OPTIMAL_SCALE(a, b))]

SET_OPTIMAL_SCALE(d, a, b) ==
    [d EXCEPT !.lastScale = d.scale, !.scale = Larger(MINSCALE, GET_OPTIMAL_SCALE(a, b))]

\* A ramp of the given lengths, at its own scale.
Ramp(d, x, y) ==
    START_T1_TIMER(SET_XSH16(SET_YSH16(SET_OPTIMAL_SCALE(d, x, y), y), x))

\* The beam is brought to where a vector starts: not at all when it is near,
\* from the centre when it has drawn for long or has far to go, else from here.
\* Scales are subtracted unsigned: one that grows is a jump, too.
Positioned(d, c) ==
    LET dx == c.x0 - d.cx
        dy == c.y0 - d.cy
        near == Abs(dx) <= POSITION_MARGIN /\ Abs(dy) <= POSITION_MARGIN
        reset == \/ d.draws > MAX_CONSECUTIVE_DRAWS
                 \/ (d.scale - GET_OPTIMAL_SCALE(dx, dy)) % UINT > SCALE_JUMP
                 \/ Abs(dx) > FAR \/ Abs(dy) > FAR
    IN  IF near THEN d
        ELSE IF reset THEN [Ramp(SET(SET(d, "PCR", ToZero), "PCR", Dark), c.x0, c.y0)
                               EXCEPT !.draws = 0]
        ELSE [Ramp(d, dx, dy) EXCEPT !.draws = @ + 1]

v_directDraw32(d, c) ==
    LET there == Positioned(SET(v_setBrightness(d, c.z), "PCR", Dark), c)
        drawn == SET(Ramp(there, c.x1 - c.x0, c.y1 - c.y0), "PCR", Lit)
    IN  IF c.z = 0 THEN d
        ELSE [SET(drawn, "PCR", Dark) EXCEPT !.cx = c.x1, !.cy = c.y1, !.draws = @ + 1]

-----------------------------------------------------------------------------
\* A string begins away from a place: a move to it is one, and takes a larger
\* scale than the string's.
Away(s, x, y) ==
    s.strokes # <<>> =>
        LET c == s.strokes[1]
        IN  /\ Larger(Abs(c.x0 - x), Abs(c.y0 - y)) > POSITION_MARGIN
            /\ GET_OPTIMAL_SCALE(c.x0 - x, c.y0 - y) > s.scale

Strings == [scale : Nat, strokes : Seq(Vectors)]

\* A splash's strings are lines of small text, apart from each other and from
\* the centre, and no stroke is dark (emu_main.c:166-175).
ASSUME SplashAssumption ==
    \A splash \in Splashes :
        /\ splash \in Seq(Strings)
        /\ \A i \in DOMAIN splash :
              /\ \A k \in DOMAIN splash[i].strokes : splash[i].strokes[k].z # 0
              /\ Away(splash[i], 0, 0)
              /\ \A j \in 1 .. i - 1 : \A k \in DOMAIN splash[j].strokes :
                    Away(splash[i], splash[j].strokes[k].x1, splash[j].strokes[k].y1)

Init ==
    /\ lib = v_init
    /\ \/ job = "frame" /\ coming = <<>>
       \/ job = "splash" /\ coming \in Splashes
    /\ strokes = <<>> /\ saved = NotSaved /\ last = NoVector /\ calls = 0

\* `lines' then holds what on_line captured of this vector.
Drawn(c) ==
    /\ lib' = v_directDraw32([lib EXCEPT !.via.lines = <<>>], c)
    /\ last' = c

\* draw_frame_file's loop.
Draw ==
    /\ job = "frame" /\ calls < MAX_CALLS
    /\ \E c \in Vectors : Drawn(c)
    /\ calls' = calls + 1
    /\ UNCHANGED <<job, coming, strokes, saved>>

\* vt_draw_string fixes a scale, and restores the old one after its strokes.
StartString ==
    /\ coming # <<>> /\ saved = NotSaved
    /\ lib' = [lib EXCEPT !.scale = Head(coming).scale]
    /\ saved' = lib.scale
    /\ strokes' = Head(coming).strokes
    /\ coming' = Tail(coming)
    /\ UNCHANGED <<job, last, calls>>

Stroke ==
    /\ strokes # <<>>
    /\ Drawn(Head(strokes))
    /\ strokes' = Tail(strokes)
    /\ UNCHANGED <<job, coming, saved, calls>>

EndString ==
    /\ saved # NotSaved /\ strokes = <<>>
    /\ lib' = [lib EXCEPT !.scale = saved]
    /\ saved' = NotSaved
    /\ UNCHANGED <<job, coming, strokes, last, calls>>

\* All is drawn: the emulator takes what is still armed and renders.
Flush ==
    /\ job # "done" /\ coming = <<>> /\ saved = NotSaved
    /\ lib' = [lib EXCEPT !.via = vx_flush(@)]
    /\ job' = "done"
    /\ UNCHANGED <<coming, strokes, saved, last, calls>>

Next == Draw \/ StartString \/ Stroke \/ EndString \/ Flush

Spec == Init /\ [][Next]_vars

-----------------------------------------------------------------------------
Visible(c) == c.z \in 1 .. HALF - 1

\* What a rate cut to a whole number may lose over a vector's ramp, and over
\* the longest: the ramp's ticks.
Rounding(c) ==
    Larger(MINSCALE, GET_OPTIMAL_SCALE(c.x1 - c.x0, c.y1 - c.y0)) + SCALE_STRENGTH_DIF
Quantum == MAX_SCALE + SCALE_STRENGTH_DIF

\* Every vector is on the screen as one line of its own brightness, an
\* invisible one as none, and moves leave no trace.  (The brightness, the
\* ramps and the beam come from writes that were left out when repeated.)
OneLineEach ==
    LET lines == lib.via.lines
    IN  IF Visible(last) THEN Len(lines) = 1 /\ lines[1].z = last.z ELSE lines = <<>>

\* It has the vector's length and direction, but for its rates' rounding
\* (docs/EMULATOR.md:108-112): what the library leaves out because it believes
\* the VIA has it, the VIA has, although strings change the scale it goes by.
Straight ==
    \A i \in DOMAIN lib.via.lines :
        LET l == lib.via.lines[i]
        IN  /\ Abs((l.x1 - l.x0) - (last.x1 - last.x0)) < Rounding(last)
            /\ Abs((l.y1 - l.y0) - (last.y1 - last.y0)) < Rounding(last)

\* Between two zeroings, the beam drifts from where the library believes it by
\* no more than each ramp's rounding and each gap it did not bridge.
DriftBounded ==
    LET drift == (lib.draws + 1) * (Quantum - 1 + POSITION_MARGIN)
    IN  Abs(lib.via.x - lib.cx) <= drift /\ Abs(lib.via.y - lib.cy) <= drift
=============================================================================
